----------------------------- MODULE MountProofs ------------------------------
(***************************************************************************)
(* Mount for any number of disk files, names, kills, power losses and      *)
(* failing calls.                                                          *)
(*                                                                         *)
(* The first part is about the log itself: no start takes a frame out of   *)
(* it, and the first one is the root directory's, unless a format was cut  *)
(* off or history lost is TRUE.  The second is about what a replay  *)
(* makes of the log, a fold: by induction over its length, one more frame  *)
(* is one more apply_locally, so that the tables of a mounted pool are the *)
(* replay of its log, its root is there, and its names are those promised. *)
(* The third is about directory streams: readdir counts entries in their   *)
(* order, so that what a stream has returned lies below its offset.        *)
(***************************************************************************)
EXTENDS Mount, FiniteSetTheorems, SequenceTheorems, WellFoundedInduction, TLAPS

(* The clock of a prover also runs while the next obligation is prepared.   *)
USE SMTT(20)

RootOp == CreateInode(Root, RootDir)

(* create_file's second operation, while the first is in flight.            *)
LinkOK == link # NoLink => link.name \in Names /\ link.inode \in Inode

(* format_with_classes is under way and has created the primary's file.     *)
Formatting == (pc = "format" /\ next > 1) \/ pc = "root"

(* Where the primary's file has to be, and what its log begins with.        *)
FirstInv ==
    /\ Formatting => log = <<>> /\ tail = Empty /\ kept = Empty
    /\ pc = "root" => op = RootOp
    /\ pc \in {"down", "format", "open"} => op = NoOp
    /\ ~lost /\ (Formatting \/ pc \in {"open", "serve"}) => Primary \in exists
    /\ ~lost /\ ~partial /\ Primary \in exists /\ ~Formatting =>
          log # <<>> /\ log[1] = RootOp

(* "Creates the root directory inode as the WAL's first entry" (pool.rs).   *)
RootIsFirst ==
    pc = "serve" /\ ~partial /\ ~lost => log # <<>> /\ log[1] = RootOp

MInv == TypeOK /\ LinkOK /\ FirstInv

-----------------------------------------------------------------------------
(* The operations have a type, and none of them is the absence of one.      *)
LEMMA OpFacts ==
    /\ RootOp \in MetaOps
    /\ NoOp \notin MetaOps /\ Empty \notin MetaOps /\ Torn \notin MetaOps /\ Stub \notin MetaOps
    /\ \A i \in Inode : CreateInode(i, NewFile) \in MetaOps
    /\ \A n \in Names : Unlink(n) \in MetaOps
    /\ \A n \in Names, i \in Inode : Link(n, i) \in MetaOps
<1>1. \A o \in MetaOps : o.type \notin {NoOp.type, Empty.type, Torn.type, Stub.type}
  <2> TAKE o \in MetaOps
  <2> USE DEF NoOp, Empty, Torn, Stub
  <2>1. CASE o = CreateInode(Root, RootDir)
    BY <2>1 DEF CreateInode
  <2>2. CASE \E i \in Inode : o = CreateInode(i, NewFile)
    BY <2>2 DEF CreateInode
  <2>3. CASE \E n \in Names, i \in Inode : o = Link(n, i)
    BY <2>3 DEF Link
  <2>4. CASE \E n \in Names : o = Unlink(n)
    BY <2>4 DEF Unlink
  <2> QED BY <2>1, <2>2, <2>3, <2>4 DEF MetaOps
<1>2. /\ RootOp \in MetaOps
      /\ \A i \in Inode : CreateInode(i, NewFile) \in MetaOps
      /\ \A n \in Names : Unlink(n) \in MetaOps
      /\ \A n \in Names, i \in Inode : Link(n, i) \in MetaOps
  BY DEF RootOp, MetaOps
<1> QED BY Zenon, <1>1, <1>2

(* Frames are only added at the end.                                        *)
LEMMA Grows ==
    ASSUME NEW S, NEW s \in Seq(S), NEW t \in Seq(S)
    PROVE  /\ s \o t \in Seq(S) /\ IsPrefix(s, s) /\ IsPrefix(s, s \o t)
           /\ s # <<>> => s \o t # <<>> /\ (s \o t)[1] = s[1]
<1>1. /\ s \o t \in Seq(S) /\ Len(s) <= Len(s \o t)
      /\ \A i \in 1 .. Len(s) : (s \o t)[i] = s[i]
  OBVIOUS
<1>2. SubSeq(s, 1, Len(s)) = SubSeq(s \o t, 1, Len(s))
  BY <1>1
<1>3. s # <<>> => 1 \in 1 .. Len(s) /\ s \o t # <<>>
  OBVIOUS
<1> QED BY <1>1, <1>2, <1>3 DEF IsPrefix

LEMMA AppendGrows ==
    ASSUME NEW S, NEW s \in Seq(S), NEW e \in S
    PROVE  /\ Append(s, e) \in Seq(S) /\ IsPrefix(s, Append(s, e))
           /\ s # <<>> => Append(s, e) # <<>> /\ Append(s, e)[1] = s[1]
           /\ s = <<>> => Append(s, e) # <<>> /\ Append(s, e)[1] = e
<1>1. /\ Append(s, e) \in Seq(S) /\ Len(s) <= Len(Append(s, e))
      /\ \A i \in 1 .. Len(s) : Append(s, e)[i] = s[i]
      /\ Append(s, e) # <<>> /\ Append(s, e)[Len(s) + 1] = e
  BY AppendProperties
<1>2. SubSeq(s, 1, Len(s)) = SubSeq(Append(s, e), 1, Len(s))
  BY <1>1
<1>3. s # <<>> => 1 \in 1 .. Len(s)
  OBVIOUS
<1> QED BY <1>1, <1>2, <1>3 DEF IsPrefix

(* A slot that a write was cut off in.                                      *)
LEMMA PartialContent ==
    ASSUME NEW c \in Content
    PROVE  Partial(c) \subseteq Content /\ \A d \in Partial(c) : d = c \/ d \notin MetaOps
  BY Zenon, OpFacts DEF Partial, Content

(* What the end of the process does to the log.                             *)
LEMMA DownLog ==
    ASSUME TypeOK, NEW c \in Content, NEW k \in Content, Down(c, k)
    PROVE  /\ log' \in Seq(MetaOps) /\ tail' \in Content /\ kept' \in Content
           /\ IsPrefix(log, log') /\ sure \in 0 .. Len(log') /\ Len(log') \in 0 .. Len(log')
           /\ log # <<>> => log' # <<>> /\ log'[1] = log[1]
           /\ pc' = "down" /\ op' = NoOp /\ link' = NoLink /\ next' = next
<1>0. sure \in 0 .. Len(log) /\ log \in Seq(MetaOps) /\ Empty \in Content
  BY Zenon DEF TypeOK, Content
<1>1. CASE c \in MetaOps
  <2>1. log' = Append(log, c) /\ tail' = Empty /\ kept' = Empty
    BY Zenon, <1>1 DEF Down
  <2>2. sure \in 0 .. Len(log') /\ Len(log') \in 0 .. Len(log')
    BY <1>0, <2>1
  <2> QED BY Zenon, <1>0, <1>1, <2>1, <2>2, AppendGrows DEF Down, Stopped
<1>2. CASE c \notin MetaOps
  <2>1. log' = log /\ tail' = c /\ kept' = k
    BY Zenon, <1>2 DEF Down
  <2>2. Len(log') \in 0 .. Len(log')
    BY <1>0, <2>1
  <2> QED BY Zenon, <1>0, <2>1, <2>2, Grows DEF Down, Stopped
<1> QED BY Zenon, <1>1, <1>2
-----------------------------------------------------------------------------
LEMMA InitMInv == Init => MInv
<1>1. Init => TypeOK /\ LinkOK
  <2>1. <<>> \in Seq(MetaOps) /\ Len(<<>>) = 0
    OBVIOUS
  <2>2. 1 \in 1 .. DiskCount + 1 /\ 0 \in 0 .. MaxKills /\ 0 \in 0 .. MaxLosses
        /\ 0 \in 0 .. MaxFaults /\ 0 \in 0 .. MaxGone
    BY MountAssumption
  <2>3. Init => /\ log \in Seq(MetaOps) /\ sure \in 0 .. Len(log)
                /\ tail \in Content /\ kept \in Content
    BY <2>1 DEF Init, Content
  <2>4. Init => exists \subseteq Disk /\ touched \subseteq Names /\ LinkOK
    BY Zenon DEF Init, LinkOK
  <2> QED BY Zenon, <2>2, <2>3, <2>4 DEF Init, TypeOK
<1>2. Init => FirstInv
  BY Zenon DEF Init, FirstInv, Formatting
<1> QED BY Zenon, <1>1, <1>2 DEF MInv

(* The start of the daemon.                                                 *)
LEMMA StartStep ==
    ASSUME MInv, Start \/ CreateDisk \/ FormatRoot \/ Open
    PROVE  MInv' /\ ((Primary \in exists /\ Primary \in exists') => IsPrefix(log, log'))
<1> USE MountAssumption DEF MInv
<1>1. CASE Start
  <2>1. UNCHANGED <<exists, log, sure, tail, kept, op, link, touched, partial, lost, kills, losses, faults, gone>>
    BY Zenon, <1>1 DEF Start, files, history, bounds
  <2>2. TypeOK' /\ LinkOK'
    BY <1>1, <2>1 DEF Start, TypeOK, LinkOK
  <2>3. FirstInv'
    BY <1>1, <2>1 DEF Start, FirstInv, Formatting, Disk, Primary, TypeOK
  <2> QED BY Zenon, <2>1, <2>2, <2>3, Grows DEF TypeOK
<1>2. CASE CreateDisk
  <2>1. UNCHANGED <<pc, op, link, touched, partial, lost, kills, losses, faults, gone>>
    BY Zenon, <1>2 DEF CreateDisk, history, bounds
  <2>2. TypeOK' /\ LinkOK'
    <3>1. log' \in Seq(MetaOps) /\ sure' \in 0 .. Len(log') /\ tail' \in Content /\ kept' \in Content
      <4>1. CASE NewLog
        <5>1. log' = <<>> /\ sure' = 0
          BY Zenon, <4>1 DEF NewLog
        <5>2. log' \in Seq(MetaOps) /\ sure' \in 0 .. Len(log')
          BY <5>1
        <5> QED BY Zenon, <4>1, <5>2 DEF NewLog, Content
      <4>2. CASE UNCHANGED <<log, sure, tail, kept>>
        BY Zenon, <4>2 DEF TypeOK
      <4> QED BY Zenon, <1>2, <4>1, <4>2 DEF CreateDisk
    <3>2. exists' \subseteq Disk /\ next' \in 1 .. DiskCount + 1
      BY <1>2 DEF CreateDisk, Disk, TypeOK
    <3> QED BY Zenon, <2>1, <3>1, <3>2 DEF TypeOK, LinkOK
  <2>3. FirstInv'
    BY <1>2, <2>1 DEF CreateDisk, NewLog, FirstInv, Formatting, Disk, Primary, TypeOK
  <2>4. Primary \in exists => log' = log
    BY Zenon, <1>2 DEF CreateDisk, NewLog
  <2> QED BY Zenon, <2>2, <2>3, <2>4, Grows DEF TypeOK
<1>3. CASE FormatRoot
  <2>1. UNCHANGED <<exists, log, sure, tail, kept, next, link, touched, partial, lost, kills, losses, faults, gone>>
    BY Zenon, <1>3 DEF FormatRoot, files, history, bounds
  <2>2. op' = RootOp /\ op' \in MetaOps
    BY Zenon, <1>3, OpFacts DEF FormatRoot, RootOp
  <2>3. TypeOK' /\ LinkOK'
    BY Zenon, <1>3, <2>1, <2>2 DEF FormatRoot, TypeOK, LinkOK
  <2>4. FirstInv'
    BY <1>3, <2>1, <2>2 DEF FormatRoot, FirstInv, Formatting, TypeOK
  <2> QED BY Zenon, <2>1, <2>3, <2>4, Grows DEF TypeOK
<1>4. CASE Open
  <2>1. UNCHANGED <<exists, log, sure, tail, kept, next, op, link, touched, partial, lost, kills, losses, faults, gone>>
    BY Zenon, <1>4 DEF Open, files, history, bounds
  <2>2. TypeOK' /\ LinkOK'
    BY Zenon, <1>4, <2>1 DEF Open, TypeOK, LinkOK
  <2>3. FirstInv'
    BY Zenon, <1>4, <2>1 DEF Open, FirstInv, Formatting
  <2> QED BY Zenon, <2>1, <2>2, <2>3, Grows DEF TypeOK
<1> QED BY Zenon, <1>1, <1>2, <1>3, <1>4

(* The ends of the daemon.                                                  *)
LEMMA DownInv ==
    ASSUME MInv, NEW c \in Content, NEW k \in Content, Down(c, k),
           UNCHANGED <<touched, lost>>, exists' \subseteq Disk, sure' \in {sure, Len(log')},
           partial' \in BOOLEAN, ~partial' => ~partial /\ ~Formatting /\ exists' = exists,
           kills' \in 0 .. MaxKills, losses' \in 0 .. MaxLosses,
           faults' \in 0 .. MaxFaults, gone' \in 0 .. MaxGone
    PROVE  MInv' /\ IsPrefix(log, log')
<1> USE DEF MInv
<1>1. /\ log' \in Seq(MetaOps) /\ tail' \in Content /\ kept' \in Content
      /\ IsPrefix(log, log') /\ sure \in 0 .. Len(log') /\ Len(log') \in 0 .. Len(log')
      /\ log # <<>> => log' # <<>> /\ log'[1] = log[1]
      /\ pc' = "down" /\ op' = NoOp /\ link' = NoLink /\ next' = next
  BY Zenon, DownLog
<1>2. TypeOK' /\ LinkOK'
  <2>1. sure' \in 0 .. Len(log')
    BY Zenon, <1>1
  <2> QED BY Zenon, <1>1, <2>1 DEF TypeOK, LinkOK
<1>3. FirstInv'
  BY Zenon, <1>1 DEF FirstInv, Formatting
<1> QED BY Zenon, <1>1, <1>2, <1>3

LEMMA EndStep ==
    ASSUME MInv, CreateFails \/ OpenFails \/ Kill \/ (CommitFails /\ pc = "root")
                 \/ (PowerLoss /\ sure = Len(log))
    PROVE  MInv' /\ IsPrefix(log, log')
<1> USE MountAssumption DEF MInv
<1>0. /\ exists \subseteq Disk /\ partial \in BOOLEAN /\ op \in MetaOps \cup {NoOp}
      /\ tail \in Content /\ kept \in Content
      /\ kills \in 0 .. MaxKills /\ losses \in 0 .. MaxLosses
      /\ faults \in 0 .. MaxFaults /\ gone \in 0 .. MaxGone
  BY Zenon DEF TypeOK
<1>1. CASE CreateFails
  <2>1. /\ Down(tail, kept) /\ UNCHANGED <<touched, lost, sure>>
        /\ partial' = (partial \/ next # 1 \/ exists' # exists)
    BY Zenon, <1>1 DEF CreateFails
  <2>2. exists' \subseteq Disk /\ UNCHANGED <<kills, losses, gone>> /\ faults' \in 0 .. MaxFaults
    <3>1. CASE next \in exists /\ UNCHANGED <<exists, bounds>>
      BY Zenon, <1>0, <3>1 DEF bounds
    <3>2. CASE Fault /\ exists' \in {exists, exists \cup {next}}
      BY <1>0, <1>1, <3>2 DEF CreateFails, Fault
    <3> QED BY Zenon, <1>1, <3>1, <3>2 DEF CreateFails
  <2>3. ~partial' => ~partial /\ ~Formatting /\ exists' = exists
    <3>1. ~partial' => ~partial /\ next = 1 /\ exists' = exists
      BY Zenon, <2>1
    <3>2. pc = "format"
      BY Zenon, <1>1 DEF CreateFails
    <3> QED BY <3>1, <3>2 DEF Formatting
  <2>4. partial' \in BOOLEAN
    BY Zenon, <1>0, <2>1
  <2> QED BY Zenon, <1>0, <2>1, <2>2, <2>3, <2>4, DownInv
<1>2. CASE OpenFails
  <2>1. Down(tail, kept) /\ UNCHANGED <<exists, sure, touched, partial, lost>> /\ ~Formatting
    BY Zenon, <1>2 DEF OpenFails, history, Formatting
  <2>2. UNCHANGED <<kills, losses, gone>> /\ faults' \in 0 .. MaxFaults
    BY <1>0, <1>2 DEF OpenFails, Fault, bounds
  <2> QED BY Zenon, <1>0, <2>1, <2>2, DownInv
<1>3. CASE Kill
  <2>1. PICK c \in {tail} \cup InFlight : Down(c, kept)
    BY Zenon, <1>3 DEF Kill
  <2>2. /\ UNCHANGED <<exists, sure, touched, lost, losses, faults, gone>>
        /\ partial' = (partial \/ CutOff)
    BY Zenon, <1>3 DEF Kill
  <2>3. kills' \in 0 .. MaxKills
    BY <1>0, <1>3 DEF Kill
  <2>4. c \in Content
    BY Zenon, <1>0 DEF InFlight, Content
  <2>5. ~partial' => ~partial /\ ~Formatting
    <3>1. ~partial' => ~partial /\ ~CutOff
      BY Zenon, <2>2
    <3>2. Formatting => CutOff
      BY DEF CutOff, Formatting
    <3> QED BY Zenon, <3>1, <3>2
  <2>6. partial' \in BOOLEAN
    BY Zenon, <1>0, <2>2
  <2> QED BY Zenon, <1>0, <2>1, <2>2, <2>3, <2>4, <2>5, <2>6, DownInv
<1>4. CASE CommitFails /\ pc = "root"
  <2>1. PICK c \in Partial(tail) \cup {op}, k \in {kept, op} : Down(c, k)
    BY Zenon, <1>4 DEF CommitFails
  <2>2. partial' = TRUE /\ UNCHANGED <<exists, sure, touched, lost, kills, losses, gone>>
        /\ op # NoOp
    BY Zenon, <1>4 DEF CommitFails, Fault
  <2>3. faults' \in 0 .. MaxFaults
    BY <1>0, <1>4 DEF CommitFails, Fault
  <2>4. c \in Content /\ k \in Content
    BY Zenon, <1>0, <2>2, PartialContent DEF Content
  <2> QED BY Zenon, <1>0, <2>1, <2>2, <2>3, <2>4, DownInv
<1>5. CASE PowerLoss /\ sure = Len(log)
  <2>1. PICK c \in Left : Down(c, c)
    BY Zenon, <1>5 DEF PowerLoss
  <2>2. /\ UNCHANGED <<exists, touched, lost, kills, faults, gone>>
        /\ sure' = Len(log') /\ partial' = (partial \/ CutOff)
    BY Zenon, <1>5 DEF PowerLoss
  <2>3. losses' \in 0 .. MaxLosses
    BY <1>0, <1>5 DEF PowerLoss
  <2>4. c \in Content
    BY Zenon, <1>0, PartialContent DEF Left, InFlight, Content
  <2>5. ~partial' => ~partial /\ ~Formatting
    <3>1. ~partial' => ~partial /\ ~CutOff
      BY Zenon, <2>2
    <3>2. Formatting => CutOff
      BY DEF CutOff, Formatting
    <3> QED BY Zenon, <3>1, <3>2
  <2>6. partial' \in BOOLEAN
    BY Zenon, <1>0, <2>2
  <2> QED BY Zenon, <1>0, <2>1, <2>2, <2>3, <2>4, <2>5, <2>6, DownInv
<1> QED BY Zenon, <1>1, <1>2, <1>3, <1>4, <1>5

(* A power loss may cost the frames behind the synced ones.                 *)
LEMMA LossStep ==
    ASSUME MInv, PowerLoss, sure # Len(log)
    PROVE  MInv' /\ IsPrefix(SubSeq(log, 1, sure), log')
<1> USE MountAssumption DEF MInv
<1>1. /\ lost' = TRUE /\ tail' \in {Empty, Torn, Stub} /\ kept' = tail' /\ Stopped
      /\ sure' = Len(log') /\ partial' = (partial \/ CutOff)
      /\ UNCHANGED <<exists, touched, kills, faults, gone>>
  BY Zenon DEF PowerLoss
<1>2. PICK n \in sure .. Len(log) : log' = SubSeq(log, 1, n)
  BY Zenon DEF PowerLoss
<1>3. log \in Seq(MetaOps) /\ sure \in 0 .. Len(log)
  BY Zenon DEF TypeOK
<1>4. n \in 0 .. Len(log) /\ sure <= n
  BY <1>2, <1>3
<1>5. log' \in Seq(MetaOps) /\ Len(log') = n /\ \A i \in 1 .. n : log'[i] = log[i]
  BY <1>2, <1>3, <1>4
<1>6. losses' \in 0 .. MaxLosses /\ sure' \in 0 .. Len(log')
  BY <1>1, <1>4, <1>5 DEF PowerLoss, TypeOK
<1>7. TypeOK' /\ LinkOK'
  BY Zenon, <1>1, <1>5, <1>6 DEF TypeOK, LinkOK, Content, Stopped
<1>8. FirstInv'
  BY Zenon, <1>1 DEF FirstInv, Formatting, Stopped
<1>9. IsPrefix(SubSeq(log, 1, sure), log')
  <2> DEFINE s == SubSeq(log, 1, sure)
  <2>1. s \in Seq(MetaOps) /\ Len(s) = sure /\ \A i \in 1 .. sure : s[i] = log[i]
    BY <1>3
  <2> HIDE DEF s
  <2>2. /\ SubSeq(s, 1, sure) \in Seq(MetaOps) /\ Len(SubSeq(s, 1, sure)) = sure
        /\ \A i \in 1 .. sure : SubSeq(s, 1, sure)[i] = log[i]
    BY <1>3, <2>1
  <2>3. /\ SubSeq(log', 1, sure) \in Seq(MetaOps) /\ Len(SubSeq(log', 1, sure)) = sure
        /\ \A i \in 1 .. sure : SubSeq(log', 1, sure)[i] = log[i]
    BY <1>3, <1>4, <1>5
  <2>4. SubSeq(s, 1, sure) = SubSeq(log', 1, sure)
    BY <2>2, <2>3, SeqEqual
  <2> QED BY <1>4, <1>5, <2>1, <2>4 DEF IsPrefix, s
<1> QED BY Zenon, <1>7, <1>8, <1>9

-----------------------------------------------------------------------------
(* The mounted daemon: calls are made, succeed and are refused.             *)
LEMMA CallStep ==
    ASSUME MInv, \/ \E n \in Names : Create(n) \/ UnlinkName(n)
                 \/ CreateLink
    PROVE  MInv' /\ log' = log
<1> USE DEF MInv
<1>1. PICK o \in MetaOps : Apply(o)
  BY Zenon, OpFacts DEF Create, UnlinkName, CreateLink, LinkOK
<1>2. touched' \subseteq Names
  BY Zenon, OpFacts DEF Create, UnlinkName, CreateLink, Apply, LinkOK, TypeOK, Link,
     Unlink, CreateInode
<1>3. /\ pc = "serve" /\ op' = o
      /\ UNCHANGED <<exists, log, sure, tail, kept, pc, next, partial, lost, kills, losses, faults, gone>>
  BY Zenon, <1>1 DEF Apply, files, bounds, Create, UnlinkName, CreateLink, Idle
<1>4. LinkOK'
  BY DEF Create, UnlinkName, CreateLink, Idle, LinkOK, NoLink
<1>5. TypeOK'
  BY Zenon, <1>2, <1>3 DEF TypeOK
<1>6. FirstInv'
  BY Zenon, <1>3 DEF FirstInv, Formatting
<1> QED BY Zenon, <1>3, <1>4, <1>5, <1>6

LEMMA CommitStep ==
    ASSUME MInv, Commit \/ (CommitFails /\ pc # "root")
    PROVE  MInv' /\ IsPrefix(log, log')
<1> USE MountAssumption DEF MInv
<1>0. op \in MetaOps
  BY Zenon DEF Commit, CommitFails, TypeOK
<1>1. CASE Commit
  <2>1. /\ log' = Append(log, op) /\ sure' = Len(log') /\ tail' = Empty /\ kept' = Empty
        /\ touched' = {} /\ pc' = "serve" /\ op' = NoOp
        /\ UNCHANGED <<exists, next, link, partial, lost, kills, losses, faults, gone>>
    BY Zenon, <1>1 DEF Commit, bounds
  <2>2. /\ log' \in Seq(MetaOps) /\ IsPrefix(log, log')
        /\ log # <<>> => log' # <<>> /\ log'[1] = log[1]
        /\ log = <<>> => log' # <<>> /\ log'[1] = op
    BY <1>0, <2>1, AppendGrows DEF TypeOK
  <2>3. TypeOK' /\ LinkOK'
    <3>1. sure' \in 0 .. Len(log')
      BY <2>1, <2>2
    <3> QED BY Zenon, <2>1, <2>2, <3>1 DEF TypeOK, LinkOK, Content
  <2>4. pc \in {"root", "serve"}
    BY Zenon, <1>0, OpFacts DEF FirstInv, TypeOK
  <2>5. FirstInv'
    BY Zenon, <2>1, <2>2, <2>4 DEF FirstInv, Formatting
  <2> QED BY Zenon, <2>2, <2>3, <2>5
<1>2. CASE CommitFails /\ pc # "root"
  <2>1. /\ tail' \in Partial(tail) \cup {op} /\ kept' \in {kept, op}
        /\ op' = NoOp /\ link' = NoLink
        /\ UNCHANGED <<exists, log, sure, pc, next, touched, partial, lost, kills, losses, gone>>
    BY Zenon, <1>2 DEF CommitFails, Fault
  <2>2. faults' \in 0 .. MaxFaults
    BY <1>2 DEF CommitFails, Fault, TypeOK
  <2>3. tail' \in Content /\ kept' \in Content
    BY Zenon, <1>0, <2>1, PartialContent DEF TypeOK, Content
  <2>4. TypeOK' /\ LinkOK'
    BY Zenon, <2>1, <2>2, <2>3 DEF TypeOK, LinkOK
  <2>5. pc = "serve"
    BY Zenon, <1>0, <1>2, OpFacts DEF FirstInv, TypeOK
  <2>6. FirstInv'
    BY Zenon, <2>1, <2>5 DEF FirstInv, Formatting
  <2> QED BY Zenon, <2>1, <2>4, <2>6, Grows DEF TypeOK
<1> QED BY Zenon, <1>1, <1>2

(* Directory streams, disk files that disappear, and nothing at all.        *)
LEMMA OtherStep ==
    ASSUME MInv, \/ OpenDir \/ CloseDir \/ UNCHANGED vars
                 \/ \E room \in 1 .. MaxPage : ReadDir(room)
    PROVE  MInv' /\ log' = log
<1>1. UNCHANGED <<exists, log, sure, tail, kept, pc, next, op, link, touched, partial, lost,
                  kills, losses, faults, gone>>
  BY Zenon DEF OpenDir, CloseDir, ReadDir, vars, files, daemon, history, bounds
<1> QED BY Zenon, <1>1 DEF MInv, TypeOK, LinkOK, FirstInv, Formatting

LEMMA DisappearStep ==
    ASSUME MInv, NEW d \in Disk, Disappear(d)
    PROVE  MInv' /\ (Primary \in exists' => log' = log)
<1> USE MountAssumption DEF MInv
<1>1. UNCHANGED <<pc, next, op, link, touched, partial, kills, losses, faults>>
  BY Zenon DEF Disappear, daemon
<1>2. exists' = exists \ {d} /\ gone' \in 0 .. MaxGone /\ pc \in {"down", "open"}
  BY DEF Disappear, TypeOK
<1>3. CASE d = Primary
  <2>1. lost' = TRUE /\ log' = <<>> /\ sure' = 0 /\ tail' = Empty /\ kept' = Empty
    BY Zenon, <1>3 DEF Disappear, NewLog
  <2>2. log' \in Seq(MetaOps) /\ sure' \in 0 .. Len(log') /\ Primary \notin exists'
    BY <1>2, <1>3, <2>1
  <2>3. TypeOK' /\ LinkOK'
    BY Zenon, <1>1, <1>2, <2>1, <2>2 DEF TypeOK, LinkOK, Content
  <2>4. FirstInv'
    BY Zenon, <1>1, <1>2, <2>1 DEF FirstInv, Formatting
  <2> QED BY Zenon, <2>2, <2>3, <2>4
<1>4. CASE d # Primary
  <2>1. UNCHANGED <<lost, log, sure, tail, kept>>
    BY Zenon, <1>4 DEF Disappear
  <2> QED BY Zenon, <1>1, <1>2, <1>4, <2>1 DEF TypeOK, LinkOK, FirstInv, Formatting
<1> QED BY Zenon, <1>3, <1>4

-----------------------------------------------------------------------------
(* What a step keeps of the log.                                            *)
Kept == IF losses' = losses THEN log ELSE SubSeq(log, 1, sure)

LEMMA KeptOfAll ==
    ASSUME MInv, MInv', IsPrefix(log, log')
    PROVE  IsPrefix(Kept, log')
<1>1. /\ log \in Seq(MetaOps) /\ sure \in 0 .. Len(log) /\ log' \in Seq(MetaOps)
      /\ Len(log) <= Len(log') /\ SubSeq(log, 1, Len(log)) = SubSeq(log', 1, Len(log))
  BY Zenon DEF MInv, TypeOK, IsPrefix
<1>2. \A i \in 1 .. Len(log) : log[i] = log'[i]
  <2> TAKE i \in 1 .. Len(log)
  <2>1. SubSeq(log, 1, Len(log))[i] = log[i] /\ SubSeq(log', 1, Len(log))[i] = log'[i]
    BY <1>1
  <2> QED BY Zenon, <1>1, <2>1
<1> DEFINE s == SubSeq(log, 1, sure)
<1>3. s \in Seq(MetaOps) /\ Len(s) = sure /\ \A i \in 1 .. sure : s[i] = log[i]
  BY <1>1
<1> HIDE DEF s
<1>4. /\ SubSeq(s, 1, sure) \in Seq(MetaOps) /\ Len(SubSeq(s, 1, sure)) = sure
      /\ \A i \in 1 .. sure : SubSeq(s, 1, sure)[i] = log[i]
  BY <1>1, <1>3
<1>5. /\ SubSeq(log', 1, sure) \in Seq(MetaOps) /\ Len(SubSeq(log', 1, sure)) = sure
      /\ \A i \in 1 .. sure : SubSeq(log', 1, sure)[i] = log[i]
  BY <1>1, <1>2
<1>6. SubSeq(s, 1, sure) = SubSeq(log', 1, sure)
  BY <1>4, <1>5, SeqEqual
<1>7. IsPrefix(s, log')
  BY <1>1, <1>3, <1>6 DEF IsPrefix
<1> QED BY Zenon, <1>7 DEF Kept, s

LEMMA Step ==
    MInv /\ [Next]_vars =>
        MInv' /\ ((Primary \in exists /\ Primary \in exists') => IsPrefix(Kept, log'))
<1> SUFFICES ASSUME MInv, [Next]_vars
             PROVE  MInv' /\ ((Primary \in exists /\ Primary \in exists') => IsPrefix(Kept, log'))
  BY Zenon
<1>1. IsPrefix(log, log)
  BY Zenon, Grows DEF MInv, TypeOK
<1>2. CASE PowerLoss /\ sure # Len(log)
  <2>1. losses' # losses
    BY <1>2 DEF PowerLoss, MInv, TypeOK
  <2> QED BY Zenon, <1>2, <2>1, LossStep DEF Kept
<1>3. CASE \E d \in Disk : Disappear(d)
  BY Zenon, <1>1, <1>3, DisappearStep, KeptOfAll
<1> QED BY Zenon, <1>1, <1>2, <1>3, StartStep, EndStep, CallStep, CommitStep, OtherStep,
           KeptOfAll DEF Next

(* The daemon's state has its types.                                        *)
THEOREM TypeCorrect == Spec => []TypeOK
<1>1. MInv => TypeOK
  BY Zenon DEF MInv
<1> QED BY <1>1, InitMInv, Step, PTL DEF Spec

(* No start, restart, failing format or kill takes a frame out of the log   *)
(* of a primary whose file is there, and no power loss a synced one:        *)
(* format_with_classes gives up at create_new before it touches a file that *)
(* exists.                                                                  *)
THEOREM LogKept == Spec => LogOnlyGrows
<1>1. MInv /\ [Next]_vars =>
        [(Primary \in exists /\ Primary \in exists') =>
            IsPrefix(IF losses' = losses THEN log ELSE SubSeq(log, 1, sure), log')]_vars
  BY Zenon, Step DEF Kept
<1> QED BY <1>1, InitMInv, Step, PTL DEF Spec, LogOnlyGrows

(* The first frame of a mounted pool's log is the root directory's, as the  *)
(* comment on format_with_classes says, however often the daemon was killed *)
(* or started with files missing, unless a format was cut off half way, the *)
(* primary's file was lost, or a power loss came while a frame that a scan  *)
(* had found was unsynced.                                                  *)
THEOREM RootFirst == Spec => []RootIsFirst
<1>1. MInv => RootIsFirst
  BY Zenon DEF MInv, FirstInv, RootIsFirst, Formatting
<1> QED BY <1>1, InitMInv, Step, PTL DEF Spec

-----------------------------------------------------------------------------
(* Induction over the natural numbers, for a set instead of a predicate.    *)
LEMMA SetInduction ==
  ASSUME NEW S, 0 \in S, \A n \in Nat : n \in S => n + 1 \in S
  PROVE  Nat \subseteq S
<1> DEFINE T == Nat \ S
           R == OpToRel(<, Nat)
<1> SUFFICES ASSUME T # {} PROVE FALSE
  BY Zenon
<1>1. IsWellFoundedOn(R, Nat)
  BY Zenon, NatLessThanWellFounded
<1>2. \A x, y \in Nat : x < y => <<x, y>> \in R
  BY Zenon DEF OpToRel
<1> HIDE DEF R
<1>3. PICK x \in T : \A y \in T : ~(<<y, x>> \in R)
  BY Zenon, <1>1, WFMin
<1>4. x - 1 \in Nat
  BY <1>3
<1>5. <<x - 1, x>> \in R
  BY <1>2, <1>3, <1>4
<1>6. x - 1 \in S
  BY Zenon, <1>3, <1>4, <1>5
<1> QED BY <1>3, <1>4, <1>6

(* MetaStore::open on the operations of a log.                              *)
ReplayOf(s) ==
    LET upto[i \in 0 .. Len(s)] ==
            IF i = 0 THEN EmptyTables ELSE ApplyLocally(upto[i - 1], s[i])
    IN  upto[Len(s)]

(* g is what the replay computes for the first n frames.                    *)
FoldUpto(s, n, g) ==
    g = [i \in 0 .. n |-> IF i = 0 THEN EmptyTables ELSE ApplyLocally(g[i - 1], s[i])]

LEMMA FoldIs ==
  ASSUME NEW s
  PROVE  ReplayOf(s) = (CHOOSE g : FoldUpto(s, Len(s), g))[Len(s)]
BY Zenon DEF ReplayOf, FoldUpto

(* The recursion has a solution.                                            *)
LEMMA FoldExists ==
  ASSUME NEW s, NEW n \in Nat
  PROVE  \E g : FoldUpto(s, n, g)
<1> DEFINE I == {k \in Nat : \E g : FoldUpto(s, k, g)}
<1>1. 0 \in I
  <2> DEFINE g == [i \in 0 .. 0 |-> EmptyTables]
  <2>1. FoldUpto(s, 0, g)
    BY DEF FoldUpto
  <2> QED BY Zenon, <2>1
<1>2. ASSUME NEW k \in Nat, k \in I PROVE k + 1 \in I
  <2>1. PICK g : FoldUpto(s, k, g)
    BY Zenon, <1>2
  <2> DEFINE h == [i \in 0 .. k + 1 |->
                     IF i = k + 1 THEN ApplyLocally(g[k], s[k + 1]) ELSE g[i]]
             Want(i) == IF i = 0 THEN EmptyTables ELSE ApplyLocally(h[i - 1], s[i])
  <2>2. ASSUME NEW i \in 0 .. k + 1 PROVE h[i] = Want(i)
    <3>1. CASE i = k + 1
      <4>1. h[i] = ApplyLocally(g[k], s[k + 1]) /\ h[k] = g[k] /\ i # 0 /\ i - 1 = k
        BY <3>1
      <4> HIDE DEF h
      <4> QED BY Zenon, <3>1, <4>1
    <3>2. CASE i # k + 1
      <4>1. i \in 0 .. k /\ h[i] = g[i] /\ (i # 0 => h[i - 1] = g[i - 1])
        BY <3>2
      <4>2. g[i] = IF i = 0 THEN EmptyTables ELSE ApplyLocally(g[i - 1], s[i])
        BY Zenon, <2>1, <4>1 DEF FoldUpto
      <4> HIDE DEF h
      <4> QED BY Zenon, <4>1, <4>2
    <3> QED BY Zenon, <3>1, <3>2
  <2>4. h = [i \in 0 .. k + 1 |-> h[i]]
    BY Zenon
  <2> HIDE DEF h
  <2>5. FoldUpto(s, k + 1, h)
    BY Zenon, <2>2, <2>4 DEF FoldUpto
  <2> QED BY <2>5
<1> HIDE DEF I
<1>3. Nat \subseteq I
  BY Zenon, <1>1, <1>2, SetInduction
<1> QED BY Zenon, <1>3 DEF I

(* Of an initial part, the replay is the same whatever comes behind it.     *)
LEMMA FoldAgrees ==
  ASSUME NEW s, NEW t, NEW m \in Nat, NEW n \in Nat, m <= n,
         \A i \in 1 .. m : s[i] = t[i],
         NEW g, FoldUpto(s, m, g), NEW h, FoldUpto(t, n, h)
  PROVE  g[m] = h[m]
<1> DEFINE I == {k \in Nat : k <= m => g[k] = h[k]}
<1>1. 0 \in I
  <2>1. 0 \in 0 .. m /\ 0 \in 0 .. n
    OBVIOUS
  <2>2. g[0] = EmptyTables /\ h[0] = EmptyTables
    BY Zenon, <2>1 DEF FoldUpto
  <2> QED BY Zenon, <2>2
<1>2. ASSUME NEW k \in Nat, k \in I PROVE k + 1 \in I
  <2> SUFFICES ASSUME k + 1 <= m PROVE g[k + 1] = h[k + 1]
    OBVIOUS
  <2>1. k + 1 \in 0 .. m /\ k + 1 \in 0 .. n /\ k + 1 # 0 /\ (k + 1) - 1 = k
    OBVIOUS
  <2>2. s[k + 1] = t[k + 1] /\ g[k] = h[k]
    BY <1>2
  <2>3. /\ g[k + 1] = ApplyLocally(g[(k + 1) - 1], s[k + 1])
        /\ h[k + 1] = ApplyLocally(h[(k + 1) - 1], t[k + 1])
    BY Zenon, <2>1 DEF FoldUpto
  <2> QED BY Zenon, <2>1, <2>2, <2>3
<1> HIDE DEF I
<1>3. Nat \subseteq I
  BY Zenon, <1>1, <1>2, SetInduction
<1>4. m \in I
  BY Zenon, <1>3
<1> QED BY <1>4 DEF I

(* The replay of nothing, and of one frame more.                            *)
LEMMA ReplayNil == ReplayOf(<<>>) = EmptyTables
<1> DEFINE g == CHOOSE g : FoldUpto(<<>>, 0, g)
<1>1. FoldUpto(<<>>, 0, g)
  BY Zenon, FoldExists
<1>2. 0 \in 0 .. 0 /\ Len(<<>>) = 0
  OBVIOUS
<1>3. ReplayOf(<<>>) = g[0]
  BY Zenon, <1>2, FoldIs
<1> HIDE DEF g
<1>4. g[0] = EmptyTables
  BY Zenon, <1>1, <1>2 DEF FoldUpto
<1> QED BY Zenon, <1>3, <1>4

LEMMA ReplayAppend ==
  ASSUME NEW S, NEW s \in Seq(S), NEW e \in S
  PROVE  ReplayOf(Append(s, e)) = ApplyLocally(ReplayOf(s), e)
<1> DEFINE n == Len(s)
           t == Append(s, e)
           g == CHOOSE g : FoldUpto(s, n, g)
           h == CHOOSE h : FoldUpto(t, n + 1, h)
<1>1. n \in Nat /\ Len(t) = n + 1 /\ t[n + 1] = e /\ \A i \in 1 .. n : s[i] = t[i]
  OBVIOUS
<1>2. ReplayOf(s) = g[n] /\ ReplayOf(t) = h[n + 1]
  <2> HIDE DEF t
  <2> QED BY Zenon, <1>1, FoldIs
<1> HIDE DEF n, t
<1>3. n + 1 \in Nat /\ n <= n + 1 /\ n + 1 \in 0 .. n + 1 /\ n + 1 # 0 /\ (n + 1) - 1 = n
  BY <1>1
<1>4. FoldUpto(s, n, g) /\ FoldUpto(t, n + 1, h)
  BY Zenon, <1>1, <1>3, FoldExists
<1> HIDE DEF g, h
<1>5. g[n] = h[n]
  BY <1>1, <1>3, <1>4, FoldAgrees
<1>6. h[n + 1] = ApplyLocally(h[(n + 1) - 1], t[n + 1])
  BY Zenon, <1>3, <1>4 DEF FoldUpto
<1> QED BY Zenon, <1>1, <1>2, <1>3, <1>5, <1>6 DEF t

-----------------------------------------------------------------------------
(* Tables as a replay makes them, without a bound on next_inode.            *)
Shaped == [inodes : [Inode -> Record \cup {Absent}],
           dirs   : [Names -> Inode \cup {NoInode}],
           next   : Nat]

(* The operation creates the root; the names it works on.                   *)
MakesRoot(o) == o.type = "CreateInode" /\ o.inode = Root
NamesOf(o)   == IF o.type \in {"Link", "Unlink"} THEN {o.name} ELSE {}

(* u shows what t does, and has given out its inode numbers at least.       *)
Shows(u, t) == u.inodes = t.inodes /\ u.dirs = t.dirs /\ t.next <= u.next

(* What an operation does to the tables.                                    *)
Does(o, t, u) ==
    /\ u \in Shaped /\ t.next <= u.next
    /\ ~MakesRoot(o) => u.inodes[Root] = t.inodes[Root]
    /\ o = RootOp => u.inodes[Root] = RootDir /\ u.next > Root
    /\ \A n \in Names \ NamesOf(o) : u.dirs[n] = t.dirs[n]

LEMMA ApplyDoes ==
  ASSUME NEW t \in Shaped, NEW o \in MetaOps
  PROVE  Does(o, t, ApplyLocally(t, o))
<1> USE ViewAssumption
<1> DEFINE u == ApplyLocally(t, o)
<1>0. Root \in Inode /\ RootDir \in Record /\ NewFile \in Record
  BY DEF Root, Inode, RootDir, NewFile, Record, Modes
<1>1. ASSUME NEW i \in Inode, NEW rec \in Record, o = CreateInode(i, rec),
             (i = Root /\ rec = RootDir) \/ rec = NewFile
      PROVE  Does(o, t, u)
  <2>1. /\ u.inodes = [t.inodes EXCEPT ![i] = rec] /\ u.dirs = t.dirs
        /\ u.next = NextAfter(t.next, i)
        /\ u = [inodes |-> u.inodes, dirs |-> u.dirs, next |-> u.next]
    BY Zenon, <1>1 DEF ApplyLocally, CreateInode, PutInode, Shaped
  <2>2. o.type = "CreateInode" /\ o.inode = i /\ o.rec = rec
    BY Zenon, <1>1 DEF CreateInode
  <2>3. RootOp.inode = Root /\ RootOp.rec = RootDir
    BY Zenon DEF RootOp, CreateInode
  <2> HIDE DEF u
  <2>4. u.next \in Nat /\ t.next <= u.next /\ u.next > i
    BY <2>1 DEF NextAfter, Inode, Shaped
  <2>5. u \in Shaped
    BY Zenon, <1>0, <1>1, <2>1, <2>4 DEF Shaped
  <2>6. ~MakesRoot(o) => u.inodes[Root] = t.inodes[Root]
    BY Zenon, <1>0, <2>1, <2>2 DEF MakesRoot, Shaped
  <2>7. o = RootOp => u.inodes[Root] = RootDir /\ u.next > Root
    BY Zenon, <1>0, <2>1, <2>2, <2>3, <2>4 DEF Shaped
  <2>8. \A n \in Names \ NamesOf(o) : u.dirs[n] = t.dirs[n]
    BY Zenon, <2>1
  <2> QED BY Zenon, <2>4, <2>5, <2>6, <2>7, <2>8 DEF Does
<1>2. ASSUME NEW n \in Names, NEW i \in Inode \cup {NoInode},
             o.type \in {"Link", "Unlink"}, o.name = n,
             u = [t EXCEPT !.dirs = [@ EXCEPT ![n] = i]]
      PROVE  Does(o, t, u)
  <2>1. /\ u.inodes = t.inodes /\ u.dirs = [t.dirs EXCEPT ![n] = i] /\ u.next = t.next
        /\ u = [inodes |-> u.inodes, dirs |-> u.dirs, next |-> u.next]
    BY Zenon, <1>2 DEF Shaped
  <2>2. RootOp.type = "CreateInode"
    BY Zenon DEF RootOp, CreateInode
  <2>3. o # RootOp /\ NamesOf(o) = {n}
    BY Zenon, <1>2, <2>2 DEF NamesOf
  <2> HIDE DEF u
  <2>4. u \in Shaped /\ t.next <= u.next
    BY <1>2, <2>1 DEF Shaped
  <2>5. \A m \in Names \ {n} : u.dirs[m] = t.dirs[m]
    BY Zenon, <1>2, <2>1 DEF Shaped
  <2> QED BY Zenon, <2>1, <2>3, <2>4, <2>5 DEF Does
<1>3. CASE o = CreateInode(Root, RootDir)
  BY Zenon, <1>0, <1>1, <1>3
<1>4. CASE \E i \in Inode : o = CreateInode(i, NewFile)
  BY Zenon, <1>0, <1>1, <1>4
<1>5. CASE \E n \in Names, i \in Inode : o = Link(n, i)
  <2>1. PICK n \in Names, i \in Inode : o = Link(n, i)
    BY Zenon, <1>5
  <2>2. o.type = "Link" /\ o.name = n /\ o.inode = i
    BY Zenon, <2>1 DEF Link
  <2>3. u = [t EXCEPT !.dirs = [@ EXCEPT ![n] = i]]
    BY Zenon, <2>2 DEF ApplyLocally
  <2> QED BY Zenon, <1>2, <2>2, <2>3
<1>6. CASE \E n \in Names : o = Unlink(n)
  <2>1. PICK n \in Names : o = Unlink(n)
    BY Zenon, <1>6
  <2>2. o.type = "Unlink" /\ o.name = n
    BY Zenon, <2>1 DEF Unlink
  <2>3. u = [t EXCEPT !.dirs = [@ EXCEPT ![n] = NoInode]]
    BY Zenon, <2>2 DEF ApplyLocally
  <2> QED BY Zenon, <1>2, <2>2, <2>3
<1> QED BY <1>3, <1>4, <1>5, <1>6 DEF MetaOps

LEMMA ApplyShows ==
  ASSUME NEW t \in Shaped, NEW u \in Shaped, Shows(u, t), NEW o \in MetaOps
  PROVE  Shows(ApplyLocally(u, o), ApplyLocally(t, o))
<1> USE DEF Shows, Shaped
<1>1. ASSUME NEW i \in Inode, NEW rec, o = CreateInode(i, rec)
      PROVE  Shows(ApplyLocally(u, o), ApplyLocally(t, o))
  <2>1. o.type = "CreateInode" /\ o.inode = i /\ o.rec = rec /\ i \in Nat
    BY <1>1, ViewAssumption DEF CreateInode, Inode
  <2>2. \A v \in Shaped :
           LET w == ApplyLocally(v, o)
           IN  /\ w.inodes = [v.inodes EXCEPT ![i] = rec] /\ w.dirs = v.dirs
               /\ w.next = NextAfter(v.next, i)
    BY Zenon, <2>1 DEF ApplyLocally, PutInode
  <2>3. NextAfter(t.next, i) <= NextAfter(u.next, i)
    BY <2>1 DEF NextAfter
  <2> HIDE DEF Shaped
  <2> QED BY Zenon, <2>2, <2>3
<1>2. CASE \E n \in Names, i \in Inode : o = Link(n, i)
  BY <1>2 DEF ApplyLocally, Link
<1>3. CASE \E n \in Names : o = Unlink(n)
  BY <1>3 DEF ApplyLocally, Unlink
<1>4. Root \in Inode
  BY ViewAssumption DEF Root, Inode
<1> QED BY <1>1, <1>2, <1>3, <1>4 DEF MetaOps

(* The operations that a scan may find behind the log after a crash.        *)
Pending == MetaOps \cap {op, tail, kept}

(* The tables of a running daemon are the replay of its log.                *)
ViewInv ==
    /\ pc # "serve" => tail \notin MetaOps
    /\ ReplayOf(log) \in Shaped
    /\ pc \in {"root", "serve"} => tables \in Shaped /\ Shows(tables, ReplayOf(log))

(* No operation makes the root anew once it is there.                       *)
RootInv ==
    ~lost /\ ~partial /\ Primary \in exists /\ ~Formatting =>
        /\ ReplayOf(log).inodes[Root] = RootDir /\ ReplayOf(log).next > Root
        /\ \A e \in Pending : ~MakesRoot(e)

(* A replay shows the promised names, but for those being worked on.        *)
NamesInv ==
    /\ ~lost /\ Primary \notin exists => log = <<>> /\ tail = Empty /\ kept = Empty
    /\ ~lost => \A n \in Names \ touched : ReplayOf(log).dirs[n] = promise[n]
    /\ \A e \in Pending : NamesOf(e) \subseteq touched

RInv == MInv /\ ViewInv /\ RootInv /\ NamesInv

LEMMA EmptyShaped == EmptyTables \in Shaped
<1>1. EmptyTables.next \in Nat
  BY Zenon DEF EmptyTables
<1> QED BY Zenon, <1>1 DEF EmptyTables, Shaped

LEMMA InitRInv == Init => RInv
<1> SUFFICES ASSUME Init PROVE RInv
  BY Zenon
<1>1. ReplayOf(log) = EmptyTables
  BY Zenon, ReplayNil DEF Init
<1>2. Pending = {}
  BY Zenon, OpFacts DEF Init, Pending
<1>3. ViewInv
  BY Zenon, <1>1, EmptyShaped, OpFacts DEF Init, ViewInv
<1>4. RootInv
  BY Zenon DEF Init, RootInv
<1>5. NamesInv
  BY Zenon, <1>1, <1>2 DEF Init, NamesInv
<1> QED BY Zenon, <1>3, <1>4, <1>5, InitMInv DEF RInv

(* One more frame.                                                          *)
LEMMA OneMore ==
  ASSUME MInv, ViewInv, NEW e \in MetaOps
  PROVE  /\ ReplayOf(Append(log, e)) = ApplyLocally(ReplayOf(log), e)
         /\ Does(e, ReplayOf(log), ReplayOf(Append(log, e)))
<1>1. log \in Seq(MetaOps)
  BY Zenon DEF MInv, TypeOK
<1>2. ReplayOf(Append(log, e)) = ApplyLocally(ReplayOf(log), e)
  BY Zenon, <1>1, ReplayAppend
<1>3. ReplayOf(log) \in Shaped
  BY Zenon DEF ViewInv
<1> QED BY Zenon, <1>2, <1>3, ApplyDoes

(* A replay has the shape of tables, whatever the frames.                   *)
LEMMA ReplayShaped ==
  ASSUME NEW s \in Seq(MetaOps)
  PROVE  ReplayOf(s) \in Shaped
<1> DEFINE m == Len(s)
           g == CHOOSE g : FoldUpto(s, m, g)
           I == {k \in Nat : k <= m => g[k] \in Shaped}
<1>1. m \in Nat /\ \A k \in 1 .. m : s[k] \in MetaOps
  OBVIOUS
<1>2. ReplayOf(s) = g[m]
  BY Zenon, FoldIs
<1> HIDE DEF m
<1>3. FoldUpto(s, m, g)
  BY Zenon, <1>1, FoldExists
<1> HIDE DEF g
<1>4. 0 \in I
  <2>1. 0 \in 0 .. m
    BY <1>1
  <2>2. g[0] = EmptyTables
    BY Zenon, <1>3, <2>1 DEF FoldUpto
  <2> QED BY Zenon, <2>2, EmptyShaped
<1>5. ASSUME NEW k \in Nat, k \in I PROVE k + 1 \in I
  <2> SUFFICES ASSUME k + 1 <= m PROVE g[k + 1] \in Shaped
    OBVIOUS
  <2>1. k + 1 \in 0 .. m /\ k + 1 \in 1 .. m /\ k + 1 # 0 /\ (k + 1) - 1 = k /\ k <= m
    BY <1>1
  <2>2. g[k + 1] = ApplyLocally(g[(k + 1) - 1], s[k + 1])
    BY Zenon, <1>3, <2>1 DEF FoldUpto
  <2>3. g[k] \in Shaped /\ s[k + 1] \in MetaOps
    BY Zenon, <1>1, <1>5, <2>1
  <2> QED BY Zenon, <2>1, <2>2, <2>3, ApplyDoes DEF Does
<1> HIDE DEF I
<1>6. Nat \subseteq I
  BY Zenon, <1>4, <1>5, SetInduction
<1>7. m \in I /\ m <= m
  BY <1>1, <1>6
<1> QED BY Zenon, <1>2, <1>7 DEF I

(* The process ends, and the scan may find a pending frame.                 *)
LEMMA DownReplay ==
  ASSUME RInv, NEW c, NEW k, Down(c, k),
         c \in MetaOps => c \in Pending, k \in MetaOps => k \in Pending
  PROVE  /\ log' = log \/ \E e \in Pending : log' = Append(log, e)
         /\ ReplayOf(log') \in Shaped
         /\ Pending' \subseteq Pending
         /\ pc' = "down" /\ tail' \notin MetaOps
<1>1. pc' = "down" /\ op' = NoOp
  BY Zenon DEF Down, Stopped
<1>2. CASE c \in MetaOps
  <2>1. log' = Append(log, c) /\ tail' = Empty /\ kept' = Empty
    BY Zenon, <1>2 DEF Down
  <2>2. ReplayOf(log') \in Shaped
    BY Zenon, <1>2, <2>1, OneMore DEF RInv, Does
  <2> QED BY Zenon, <1>1, <1>2, <2>1, <2>2, OpFacts DEF Pending
<1>3. CASE c \notin MetaOps
  <2>1. log' = log /\ tail' = c /\ kept' = k
    BY Zenon, <1>3 DEF Down
  <2> QED BY Zenon, <1>1, <1>3, <2>1, OpFacts DEF Pending, RInv, ViewInv
<1> QED BY Zenon, <1>2, <1>3

-----------------------------------------------------------------------------
(* The steps up to the mounted pool.                                        *)
LEMMA StartReplay ==
  ASSUME RInv, Start \/ CreateDisk \/ FormatRoot \/ Open
  PROVE  ViewInv' /\ RootInv' /\ NamesInv'
<1> USE DEF RInv, MInv
<1>1. CASE Start
  <2>1. pc = "down" /\ pc' \in {"open", "format"} /\ next' = 1
        /\ UNCHANGED <<exists, log, tail, kept, op, touched, promise, partial, lost>>
    BY Zenon, <1>1 DEF Start, files, history
  <2>2. Pending' = Pending
    BY Zenon, <2>1 DEF Pending
  <2>3. ~Formatting /\ ~Formatting'
    BY <2>1 DEF Formatting
  <2>4. ViewInv'
    BY Zenon, <2>1 DEF ViewInv
  <2>5. RootInv'
    BY Zenon, <2>1, <2>2, <2>3 DEF RootInv
  <2>6. NamesInv'
    BY Zenon, <2>1, <2>2 DEF NamesInv
  <2> QED BY Zenon, <2>4, <2>5, <2>6
<1>2. CASE CreateDisk
  <2>1. /\ pc = "format" /\ pc' = pc /\ next' = next + 1 /\ next \in Disk \ exists
        /\ exists' = exists \cup {next}
        /\ UNCHANGED <<op, touched, promise, partial, lost>>
        /\ \/ next = Primary /\ log' = <<>> /\ tail' = Empty /\ kept' = Empty
           \/ next # Primary /\ UNCHANGED <<log, tail, kept>>
    BY Zenon, <1>2 DEF CreateDisk, NewLog, history
  <2>2. tail \notin MetaOps /\ tail' \notin MetaOps
    BY Zenon, <2>1, OpFacts DEF ViewInv
  <2>3. Pending' \subseteq Pending
    BY Zenon, <2>1, OpFacts DEF Pending
  <2>4. Formatting'
    BY <2>1, MountAssumption DEF Formatting, Disk
  <2>5. ViewInv'
    <3>1. ReplayOf(log') \in Shaped
      BY Zenon, <2>1, ReplayNil, EmptyShaped DEF ViewInv
    <3> QED BY Zenon, <2>1, <2>2, <3>1 DEF ViewInv
  <2>6. RootInv'
    BY Zenon, <2>4 DEF RootInv
  <2>7. NamesInv'
    <3>1. ~lost => log' = log
      BY Zenon, <2>1 DEF NamesInv
    <3>2. ~lost' /\ Primary \notin exists' => log' = <<>> /\ tail' = Empty /\ kept' = Empty
      BY Zenon, <2>1, <3>1 DEF NamesInv
    <3> QED BY Zenon, <2>1, <2>3, <3>1, <3>2 DEF NamesInv
  <2> QED BY Zenon, <2>5, <2>6, <2>7
<1>3. CASE FormatRoot
  <2>1. /\ pc' = "root" /\ pc = "format" /\ op' = RootOp /\ tables' = ReplayOf(log)
        /\ UNCHANGED <<exists, log, tail, kept, touched, promise, partial, lost>>
    BY Zenon, <1>3 DEF FormatRoot, files, history, RootOp, Replay, ReplayOf
  <2>2. tail' \notin MetaOps /\ ReplayOf(log') \in Shaped
    BY Zenon, <2>1 DEF ViewInv
  <2>3. ViewInv'
    BY <2>1, <2>2 DEF ViewInv, Shows, Shaped
  <2>4. RootInv'
    BY Zenon, <2>1 DEF RootInv, Formatting
  <2>5. Pending' \subseteq {RootOp} /\ NamesOf(RootOp) = {}
    <3>1. tail = Empty /\ kept = Empty
      <4>1. Formatting
        BY <1>3, MountAssumption DEF FormatRoot, Formatting
      <4> QED BY Zenon, <4>1 DEF FirstInv
    <3>2. NamesOf(RootOp) = {}
      BY DEF NamesOf, RootOp, CreateInode
    <3> QED BY Zenon, <2>1, <3>1, <3>2, OpFacts DEF Pending
  <2>6. NamesInv'
    BY Zenon, <2>1, <2>5 DEF NamesInv
  <2> QED BY Zenon, <2>3, <2>4, <2>6
<1>4. CASE Open
  <2>1. /\ pc' = "serve" /\ pc = "open" /\ tables' = ReplayOf(log)
        /\ UNCHANGED <<exists, log, tail, kept, op, touched, promise, partial, lost>>
    BY Zenon, <1>4 DEF Open, files, history, Replay, ReplayOf
  <2>2. Pending' = Pending
    BY Zenon, <2>1 DEF Pending
  <2>3. ReplayOf(log') \in Shaped
    BY Zenon, <2>1 DEF ViewInv
  <2>4. ViewInv'
    BY <2>1, <2>3 DEF ViewInv, Shows, Shaped
  <2>5. RootInv'
    BY Zenon, <2>1, <2>2 DEF RootInv, Formatting
  <2>6. NamesInv'
    BY Zenon, <2>1, <2>2 DEF NamesInv
  <2> QED BY Zenon, <2>4, <2>5, <2>6
<1> QED BY Zenon, <1>1, <1>2, <1>3, <1>4

(* The ends of the daemon.                                                  *)
LEMMA DownStep ==
  ASSUME RInv, NEW c, NEW k, Down(c, k),
         c \in MetaOps => c \in Pending, k \in MetaOps => k \in Pending,
         UNCHANGED <<promise, touched, lost>>,
         exists \subseteq exists',
         ~partial' => ~partial /\ ~Formatting /\ exists' = exists,
         op = NoOp /\ tail = kept => c = tail /\ k = kept
  PROVE  ViewInv' /\ RootInv' /\ NamesInv'
<1> USE DEF RInv, MInv
<1>1. /\ log' = log \/ \E e \in Pending : log' = Append(log, e)
      /\ ReplayOf(log') \in Shaped
      /\ Pending' \subseteq Pending
      /\ pc' = "down" /\ tail' \notin MetaOps
  BY Zenon, DownReplay
<1>2. Pending = {} => log' = log /\ tail' = c /\ kept' = k
  BY Zenon DEF Down
<1>3. ViewInv'
  BY Zenon, <1>1 DEF ViewInv
<1>4. RootInv'
  <2> SUFFICES ASSUME ~lost', ~partial', Primary \in exists'
               PROVE  /\ ReplayOf(log').inodes[Root] = RootDir /\ ReplayOf(log').next > Root
                      /\ \A e \in Pending' : ~MakesRoot(e)
    BY Zenon DEF RootInv
  <2>1. /\ ReplayOf(log).inodes[Root] = RootDir /\ ReplayOf(log).next > Root
        /\ \A e \in Pending : ~MakesRoot(e)
    BY Zenon DEF RootInv
  <2>2. CASE log' = log
    BY Zenon, <1>1, <2>1, <2>2
  <2>3. CASE \E e \in Pending : log' = Append(log, e)
    <3>1. PICK e \in Pending : log' = Append(log, e)
      BY Zenon, <2>3
    <3>2. Does(e, ReplayOf(log), ReplayOf(log'))
      BY Zenon, <3>1, OneMore DEF Pending
    <3>3. ReplayOf(log').inodes[Root] = RootDir /\ ReplayOf(log').next > Root
      BY <2>1, <3>1, <3>2 DEF Does, ViewInv, Shaped, Root
    <3> QED BY Zenon, <1>1, <2>1, <3>3
  <2> QED BY Zenon, <1>1, <2>2, <2>3
<1>5. NamesInv'
  <2>1. ~lost' => \A n \in Names \ touched' : ReplayOf(log').dirs[n] = promise'[n]
    <3>1. CASE log' = log
      BY Zenon, <3>1 DEF NamesInv
    <3>2. CASE \E e \in Pending : log' = Append(log, e)
      <4>1. PICK e \in Pending : log' = Append(log, e)
        BY Zenon, <3>2
      <4>2. Does(e, ReplayOf(log), ReplayOf(log'))
        BY Zenon, <4>1, OneMore DEF Pending
      <4> QED BY Zenon, <4>1, <4>2 DEF Does, NamesInv
    <3> QED BY Zenon, <1>1, <3>1, <3>2
  <2>2. ~lost' /\ Primary \notin exists' => log' = <<>> /\ tail' = Empty /\ kept' = Empty
    <3> SUFFICES ASSUME ~lost', Primary \notin exists'
                 PROVE  log' = <<>> /\ tail' = Empty /\ kept' = Empty
      BY Zenon
    <3>1. log = <<>> /\ tail = Empty /\ kept = Empty /\ ~lost /\ Primary \notin exists
      BY Zenon DEF NamesInv
    <3>2. pc # "serve" /\ pc # "root"
      BY Zenon, <3>1 DEF FirstInv, Formatting
    <3>3. op = NoOp
      BY Zenon, <3>2 DEF FirstInv, TypeOK
    <3>4. Pending = {}
      BY Zenon, <3>1, <3>3, OpFacts DEF Pending
    <3> QED BY Zenon, <1>2, <3>1, <3>3, <3>4
  <2> QED BY Zenon, <1>1, <2>1, <2>2 DEF NamesInv
<1> QED BY Zenon, <1>3, <1>4, <1>5

LEMMA EndReplay ==
  ASSUME RInv, CreateFails \/ OpenFails \/ Kill \/ (CommitFails /\ pc = "root")
               \/ (PowerLoss /\ sure = Len(log))
  PROVE  ViewInv' /\ RootInv' /\ NamesInv'
<1>0. /\ tail \in MetaOps => tail \in Pending
      /\ kept \in MetaOps => kept \in Pending
      /\ op \in MetaOps => op \in Pending
  BY Zenon DEF Pending
<1>00. tail \in Content /\ kept \in Content
  BY Zenon DEF RInv, MInv, TypeOK
<1>1. CASE CreateFails
  <2>1. /\ Down(tail, kept) /\ UNCHANGED <<promise, touched, lost>> /\ pc = "format"
        /\ partial' = (partial \/ next # 1 \/ exists' # exists)
        /\ exists \subseteq exists'
    BY Zenon, <1>1 DEF CreateFails
  <2>2. ~partial' => ~partial /\ ~Formatting /\ exists' = exists
    <3>1. ~partial' => ~partial /\ next = 1 /\ exists' = exists
      BY Zenon, <2>1
    <3>2. pc = "format"
      BY Zenon, <2>1
    <3> QED BY <3>1, <3>2 DEF Formatting
  <2> QED BY Zenon, <1>0, <2>1, <2>2, DownStep
<1>2. CASE OpenFails
  <2>1. Down(tail, kept) /\ UNCHANGED <<promise, touched, lost, partial, exists>> /\ pc = "open"
    BY Zenon, <1>2 DEF OpenFails, history
  <2>2. ~Formatting
    BY Zenon, <2>1 DEF Formatting
  <2> QED BY Zenon, <1>0, <2>1, <2>2, DownStep
<1>3. CASE Kill
  <2>1. PICK c \in {tail} \cup InFlight : Down(c, kept)
    BY Zenon, <1>3 DEF Kill
  <2>2. /\ UNCHANGED <<promise, touched, lost, exists>>
        /\ partial' = (partial \/ CutOff)
    BY Zenon, <1>3 DEF Kill
  <2>3. ~partial' => ~partial /\ ~Formatting
    <3>1. ~partial' => ~partial /\ ~CutOff
      BY Zenon, <2>2
    <3>2. Formatting => CutOff
      BY DEF CutOff, Formatting, RInv, MInv, TypeOK
    <3> QED BY Zenon, <3>1, <3>2
  <2>4. c \in MetaOps => c \in Pending
    BY Zenon, <1>0 DEF InFlight
  <2>5. op = NoOp => c = tail
    BY Zenon DEF InFlight
  <2> QED BY Zenon, <1>0, <2>1, <2>2, <2>3, <2>4, <2>5, DownStep
<1>4. CASE CommitFails /\ pc = "root"
  <2>1. PICK c \in Partial(tail) \cup {op}, k \in {kept, op} : Down(c, k)
    BY Zenon, <1>4 DEF CommitFails
  <2>2. /\ UNCHANGED <<promise, touched, lost, exists>>
        /\ partial' = TRUE /\ op # NoOp
    BY Zenon, <1>4 DEF CommitFails
  <2>3. (c \in MetaOps => c \in Pending) /\ (k \in MetaOps => k \in Pending)
    BY Zenon, <1>0, <1>00, PartialContent
  <2> QED BY Zenon, <2>1, <2>2, <2>3, DownStep
<1>5. CASE PowerLoss /\ sure = Len(log)
  <2>1. PICK c \in Left : Down(c, c)
    BY Zenon, <1>5 DEF PowerLoss
  <2>2. /\ UNCHANGED <<promise, touched, lost, exists>>
        /\ partial' = (partial \/ CutOff)
    BY Zenon, <1>5 DEF PowerLoss
  <2>3. ~partial' => ~partial /\ ~Formatting
    <3>1. ~partial' => ~partial /\ ~CutOff
      BY Zenon, <2>2
    <3>2. Formatting => CutOff
      BY DEF CutOff, Formatting, RInv, MInv, TypeOK
    <3> QED BY Zenon, <3>1, <3>2
  <2>4. c \in MetaOps => c \in Pending
    BY Zenon, <1>0, <1>00, PartialContent DEF Left, InFlight
  <2>5. op = NoOp /\ tail = kept => c = tail /\ c = kept
    BY Zenon DEF Left
  <2> QED BY Zenon, <2>1, <2>2, <2>3, <2>4, <2>5, DownStep
<1> QED BY Zenon, <1>1, <1>2, <1>3, <1>4, <1>5

(* A power loss that costs frames of the log.                               *)
LEMMA LossReplay ==
  ASSUME RInv, PowerLoss, sure # Len(log), MInv'
  PROVE  ViewInv' /\ RootInv' /\ NamesInv'
<1>1. lost' = TRUE /\ tail' \in {Empty, Torn, Stub} /\ kept' = tail' /\ Stopped
  BY Zenon DEF PowerLoss
<1>2. pc' = "down" /\ op' = NoOp
  BY Zenon, <1>1 DEF Stopped
<1>3. Pending' = {} /\ tail' \notin MetaOps
  BY Zenon, <1>1, <1>2, OpFacts DEF Pending
<1>4. ReplayOf(log') \in Shaped
  BY Zenon, ReplayShaped DEF MInv, TypeOK
<1> QED BY Zenon, <1>1, <1>2, <1>3, <1>4 DEF ViewInv, RootInv, NamesInv

(* The mounted daemon's calls.  An inode number it gives out is not the     *)
(* root's, which the replay has raised next_inode past.                     *)
LEMMA CallReplay ==
  ASSUME RInv, \/ \E n \in Names : Create(n) \/ UnlinkName(n)
               \/ CreateLink
  PROVE  ViewInv' /\ RootInv' /\ NamesInv'
<1> USE DEF RInv, MInv
<1>1. PICK o \in MetaOps :
        /\ Apply(o) /\ pc = "serve"
        /\ \/ tables' = tables /\ o.type \in {"Link", "Unlink"} /\ o.name \in Names
           \/ /\ tables' = [tables EXCEPT !.next = @ + 1]
              /\ o = CreateInode(tables.next, NewFile)
  <2>1. CASE \E n \in Names : Create(n)
    BY Zenon, <2>1, OpFacts DEF Create, Idle
  <2>2. CASE \E n \in Names : UnlinkName(n)
    BY Zenon, <2>2, OpFacts DEF UnlinkName, Idle, Unlink
  <2>3. CASE CreateLink
    BY Zenon, <2>3, OpFacts DEF CreateLink, LinkOK, Link
  <2> QED BY Zenon, <2>1, <2>2, <2>3
<1>2. /\ op' = o
      /\ UNCHANGED <<exists, log, tail, kept, pc, next, promise, partial, lost>>
      /\ touched' = touched \cup NamesOf(o)
  BY Zenon, <1>1 DEF Apply, files, NamesOf
<1>3. Pending' \subseteq Pending \cup {o}
  BY Zenon, <1>2 DEF Pending
<1>4. tables \in Shaped /\ Shows(tables, ReplayOf(log)) /\ ReplayOf(log) \in Shaped
  BY Zenon, <1>1 DEF ViewInv
<1>5. ViewInv'
  <2>1. tables' \in Shaped /\ Shows(tables', ReplayOf(log))
    BY <1>1, <1>4 DEF Shaped, Shows
  <2> QED BY Zenon, <1>1, <1>2, <1>4, <2>1 DEF ViewInv
<1>6. RootInv'
  <2> SUFFICES ASSUME ~lost', ~partial', Primary \in exists', ~Formatting'
               PROVE  /\ ReplayOf(log').inodes[Root] = RootDir /\ ReplayOf(log').next > Root
                      /\ \A e \in Pending' : ~MakesRoot(e)
    BY Zenon DEF RootInv
  <2>1. ~Formatting
    BY Zenon, <1>2 DEF Formatting
  <2>2. /\ ReplayOf(log).inodes[Root] = RootDir /\ ReplayOf(log).next > Root
        /\ \A e \in Pending : ~MakesRoot(e)
    BY Zenon, <1>2, <2>1 DEF RootInv
  <2>3. ~MakesRoot(o)
    <3>1. tables.next > Root
      BY <1>4, <2>2 DEF Shows, Shaped, Root
    <3> QED BY <1>1, <3>1 DEF MakesRoot, CreateInode, Root
  <2> QED BY Zenon, <1>2, <1>3, <2>2, <2>3
<1>7. NamesInv'
  BY Zenon, <1>2, <1>3 DEF NamesInv
<1> QED BY Zenon, <1>5, <1>6, <1>7

LEMMA CommitReplay ==
  ASSUME RInv, Commit
  PROVE  ViewInv' /\ RootInv' /\ NamesInv'
<1> USE DEF RInv, MInv
<1>1. /\ op \in MetaOps /\ log' = Append(log, op) /\ tail' = Empty /\ kept' = Empty
      /\ tables' = ApplyLocally(tables, op) /\ promise' = tables'.dirs
      /\ touched' = {} /\ pc' = "serve" /\ op' = NoOp
      /\ UNCHANGED <<exists, partial, lost>>
  BY Zenon DEF Commit, TypeOK
<1>2. pc \in {"root", "serve"} /\ (pc = "root" => op = RootOp /\ log = <<>>)
  BY Zenon, <1>1, OpFacts DEF FirstInv, TypeOK, Formatting
<1>3. ReplayOf(log) \in Shaped /\ tables \in Shaped /\ Shows(tables, ReplayOf(log))
  BY Zenon, <1>2 DEF ViewInv
<1>4. Does(op, ReplayOf(log), ReplayOf(log'))
  BY Zenon, <1>1, OneMore
<1>5. Does(op, tables, tables') /\ Shows(tables', ReplayOf(log'))
  <2>1. ReplayOf(log') = ApplyLocally(ReplayOf(log), op)
    BY Zenon, <1>1, OneMore
  <2> QED BY Zenon, <1>1, <1>3, <2>1, ApplyDoes, ApplyShows
<1>6. Pending' = {}
  BY Zenon, <1>1, OpFacts DEF Pending
<1>7. ViewInv'
  BY Zenon, <1>1, <1>4, <1>5 DEF ViewInv, Does
<1>8. RootInv'
  <2> SUFFICES ASSUME ~lost', ~partial', Primary \in exists'
               PROVE  ReplayOf(log').inodes[Root] = RootDir /\ ReplayOf(log').next > Root
    BY Zenon, <1>6 DEF RootInv
  <2>1. CASE pc = "root"
    BY Zenon, <1>2, <1>4, <2>1 DEF Does
  <2>2. CASE pc = "serve"
    <3>1. op \in Pending /\ ~Formatting
      BY Zenon, <1>1, <2>2 DEF Pending, Formatting
    <3>2. /\ ReplayOf(log).inodes[Root] = RootDir /\ ReplayOf(log).next > Root
          /\ ~MakesRoot(op)
      BY Zenon, <1>1, <3>1 DEF RootInv
    <3> QED BY <1>3, <1>4, <3>2 DEF Does, Shaped, Root
  <2> QED BY Zenon, <1>2, <2>1, <2>2
<1>9. NamesInv'
  <2>1. ~lost' => Primary \in exists'
    BY Zenon, <1>1, <1>2 DEF FirstInv, Formatting
  <2> QED BY Zenon, <1>1, <1>5, <1>6, <2>1 DEF NamesInv, Shows
<1> QED BY Zenon, <1>7, <1>8, <1>9

(* A refused commit of a mounted pool, directory streams, disk files that   *)
(* disappear, and nothing at all.                                           *)
LEMMA OtherReplay ==
  ASSUME RInv, \/ CommitFails /\ pc # "root"
               \/ OpenDir \/ CloseDir \/ UNCHANGED vars
               \/ \E room \in 1 .. MaxPage : ReadDir(room)
  PROVE  ViewInv' /\ RootInv' /\ NamesInv'
<1> USE DEF RInv, MInv
<1>1. UNCHANGED <<exists, log, pc, next, tables, touched, promise, partial, lost>>
  BY Zenon DEF CommitFails, OpenDir, CloseDir, ReadDir, vars, files, daemon, history
<1>2. /\ Pending' \subseteq Pending
      /\ pc # "serve" => tail' \notin MetaOps
      /\ pc # "serve" => UNCHANGED <<tail, kept>>
  <2>1. CASE CommitFails /\ pc # "root"
    <3>1. /\ op \in MetaOps /\ op' = NoOp
          /\ tail' \in Partial(tail) \cup {op} /\ kept' \in {kept, op}
      BY Zenon, <2>1 DEF CommitFails, TypeOK
    <3>2. pc = "serve"
      BY Zenon, <2>1, <3>1, OpFacts DEF FirstInv, TypeOK
    <3>3. tail' \in {tail, op} \/ tail' \notin MetaOps
      BY Zenon, <3>1, PartialContent DEF TypeOK
    <3> QED BY Zenon, <3>1, <3>2, <3>3, OpFacts DEF Pending
  <2>2. CASE ~(CommitFails /\ pc # "root")
    <3>1. UNCHANGED <<tail, kept, op>>
      BY Zenon, <2>2 DEF OpenDir, CloseDir, ReadDir, vars, files, daemon
    <3> QED BY Zenon, <3>1 DEF Pending, ViewInv
  <2> QED BY Zenon, <2>1, <2>2
<1>3. ViewInv'
  BY Zenon, <1>1, <1>2 DEF ViewInv
<1>4. RootInv'
  BY Zenon, <1>1, <1>2 DEF RootInv, Formatting
<1>5. NamesInv'
  <2>1. ~lost /\ Primary \notin exists => pc # "serve"
    BY Zenon DEF FirstInv
  <2> QED BY Zenon, <1>1, <1>2, <2>1 DEF NamesInv
<1> QED BY Zenon, <1>3, <1>4, <1>5

LEMMA DisappearReplay ==
  ASSUME RInv, NEW d \in Disk, Disappear(d)
  PROVE  ViewInv' /\ RootInv' /\ NamesInv'
<1> USE DEF RInv, MInv
<1>1. /\ UNCHANGED <<pc, next, op, tables, touched, promise, partial>>
      /\ pc \in {"down", "open"} /\ exists' = exists \ {d}
  BY Zenon DEF Disappear, daemon
<1>2. Pending' \subseteq Pending
  BY Zenon, <1>1, OpFacts DEF Pending, Disappear, NewLog
<1>3. CASE d = Primary
  <2>1. lost' /\ log' = <<>> /\ tail' \notin MetaOps
    BY Zenon, <1>3, OpFacts DEF Disappear, NewLog
  <2>2. ReplayOf(log') \in Shaped
    BY Zenon, <2>1, ReplayNil, EmptyShaped
  <2> QED BY Zenon, <1>1, <1>2, <2>1, <2>2 DEF ViewInv, RootInv, NamesInv
<1>4. CASE d # Primary
  <2>1. UNCHANGED <<lost, log, tail, kept>>
    BY Zenon, <1>4 DEF Disappear
  <2>2. Primary \in exists' <=> Primary \in exists
    BY Zenon, <1>1, <1>4
  <2>3. Formatting' <=> Formatting
    BY Zenon, <1>1 DEF Formatting
  <2>4. ViewInv'
    BY Zenon, <1>1, <2>1 DEF ViewInv
  <2>5. RootInv'
    BY Zenon, <1>1, <1>2, <2>1, <2>2, <2>3 DEF RootInv
  <2>6. NamesInv'
    BY Zenon, <1>1, <1>2, <2>1, <2>2 DEF NamesInv
  <2> QED BY Zenon, <2>4, <2>5, <2>6
<1> QED BY Zenon, <1>3, <1>4

LEMMA ReplayStep == RInv /\ [Next]_vars => RInv'
<1> SUFFICES ASSUME RInv, [Next]_vars PROVE RInv'
  BY Zenon
<1>1. MInv'
  BY Zenon, Step DEF RInv
<1>2. ViewInv' /\ RootInv' /\ NamesInv'
  BY Zenon, <1>1, StartReplay, EndReplay, LossReplay, CallReplay, CommitReplay, OtherReplay,
     DisappearReplay DEF Next
<1> QED BY Zenon, <1>1, <1>2 DEF RInv

(* A mounted pool has its root directory: apply_locally puts it there when  *)
(* format_with_classes commits its operation or open replays it, and no     *)
(* later operation replaces it, since next_inode is past its number.  That  *)
(* is so for any disks, names, kills, power losses and refused commits,     *)
(* unless a format was cut off after its first file, the primary's file was *)
(* lost, or a power loss came while a frame that a scan had found was       *)
(* unsynced.                                                                *)
THEOREM RootThere == Spec => []RootServed
<1>1. RInv => RootServed
  <2> SUFFICES ASSUME RInv, pc = "serve", ~partial, ~lost
               PROVE  tables.inodes[Root] = RootDir
    BY Zenon DEF RootServed
  <2>1. Primary \in exists /\ ~Formatting
    BY Zenon DEF RInv, MInv, FirstInv, Formatting
  <2> QED BY Zenon, <2>1 DEF RInv, RootInv, ViewInv, Shows
<1> QED BY <1>1, InitRInv, ReplayStep, PTL DEF Spec

(* The names a mounted pool serves are those its callers were promised,     *)
(* however often the daemon was killed, lost power, refused a commit or was *)
(* started with other files missing, as long as the primary's file was      *)
(* there and no power loss came while a frame that a scan had found was     *)
(* unsynced (which can bring up a frame from behind it): a scan finds       *)
(* nothing behind the acknowledged frames but a frame of a call that was    *)
(* never answered with success, and the replay of the log is what           *)
(* apply_locally had shown.                                                 *)
THEOREM NamesThere == Spec => []NamesKept
<1>1. RInv => NamesKept
  BY Zenon DEF RInv, NamesInv, ViewInv, Shows, NamesKept
<1> QED BY <1>1, InitRInv, ReplayStep, PTL DEF Spec

-----------------------------------------------------------------------------
(* The entries of a directory, in ascending order.                          *)
Increasing(s) == \A i, j \in DOMAIN s : i < j => s[i] < s[j]

LEMMA LeastOf ==
  ASSUME NEW B \in SUBSET Nat, B # {}
  PROVE  \E x \in B : \A y \in B : x <= y
<1> DEFINE R == OpToRel(<, Nat)
<1>1. IsWellFoundedOn(R, Nat)
  BY Zenon, NatLessThanWellFounded
<1>2. \A x, y \in Nat : x < y => <<x, y>> \in R
  BY Zenon DEF OpToRel
<1> HIDE DEF R
<1>3. PICK x \in B : \A y \in B : ~(<<y, x>> \in R)
  BY Zenon, <1>1, WFMin
<1>4. ASSUME NEW y \in B PROVE x <= y
  <2>1. x \in Nat /\ y \in Nat
    BY Zenon
  <2>2. ~(y < x)
    BY Zenon, <1>2, <1>3, <2>1
  <2> QED BY <2>1, <2>2
<1> QED BY Zenon, <1>4

LEMMA AscendingExists ==
  ASSUME NEW B \in SUBSET Nat, IsFiniteSet(B)
  PROVE  \E s \in [1 .. Cardinality(B) -> B] : Increasing(s)
<1> DEFINE I == {k \in Nat : \A S \in SUBSET Nat :
                    IsFiniteSet(S) /\ Cardinality(S) = k =>
                        \E s \in [1 .. k -> S] : Increasing(s)}
<1>1. 0 \in I
  <2> SUFFICES ASSUME NEW S \in SUBSET Nat PROVE \E s \in [1 .. 0 -> S] : Increasing(s)
    BY Zenon
  <2> DEFINE s == [i \in 1 .. 0 |-> 0]
  <2>1. s \in [1 .. 0 -> S] /\ DOMAIN s = {}
    OBVIOUS
  <2>2. Increasing(s)
    BY Zenon, <2>1 DEF Increasing
  <2> QED BY Zenon, <2>1, <2>2
<1>2. ASSUME NEW k \in Nat, k \in I PROVE k + 1 \in I
  <2> SUFFICES ASSUME NEW S \in SUBSET Nat, IsFiniteSet(S), Cardinality(S) = k + 1
               PROVE  \E s \in [1 .. k + 1 -> S] : Increasing(s)
    BY DEF I
  <2>1. S # {}
    BY FS_EmptySet
  <2>2. PICK x \in S : \A y \in S : x <= y
    BY Zenon, <2>1, LeastOf
  <2>3. IsFiniteSet(S \ {x}) /\ Cardinality(S \ {x}) = k
    <3>1. IsFiniteSet(S \ {x}) /\ Cardinality(S \ {x}) = Cardinality(S) - 1
      BY Zenon, FS_RemoveElement
    <3> QED BY <3>1
  <2>4. PICK t \in [1 .. k -> S \ {x}] : Increasing(t)
    BY Zenon, <1>2, <2>3
  <2> DEFINE s == [i \in 1 .. k + 1 |-> IF i = 1 THEN x ELSE t[i - 1]]
  <2>5. \A i \in 1 .. k + 1 : i # 1 => i - 1 \in 1 .. k /\ t[i - 1] \in S /\ t[i - 1] # x
    BY <2>4
  <2>6. s \in [1 .. k + 1 -> S]
    BY Zenon, <2>5
  <2>7. ASSUME NEW i \in 1 .. k + 1, NEW j \in 1 .. k + 1, i < j PROVE s[i] < s[j]
    <3>1. j # 1 /\ s[j] = t[j - 1]
      BY <2>7
    <3>2. CASE i = 1
      <4>1. s[i] = x /\ s[j] \in S /\ s[j] # x
        BY Zenon, <2>5, <3>1, <3>2
      <4>2. s[j] \in Nat /\ x \in Nat /\ x <= s[j]
        BY Zenon, <2>2, <4>1
      <4> QED BY <4>1, <4>2
    <3>3. CASE i # 1
      <4>1. i - 1 \in 1 .. k /\ j - 1 \in 1 .. k /\ i - 1 < j - 1
        BY <2>7, <3>1, <3>3
      <4> QED BY Zenon, <2>4, <3>1, <3>3, <4>1 DEF Increasing
    <3> QED BY Zenon, <3>2, <3>3
  <2>8. Increasing(s)
    BY Zenon, <2>7 DEF Increasing
  <2> HIDE DEF s
  <2> QED BY Zenon, <2>6, <2>8
<1> HIDE DEF I
<1>3. Cardinality(B) \in I
  BY Zenon, <1>1, <1>2, SetInduction, FS_CardinalityType
<1> QED BY Zenon, <1>3 DEF I

(* The entries below n: at which place an ascending sequence has it.        *)
Below(S, n) == {x \in S : x < n}
Place(S, n) == Cardinality(Below(S, n))

(* s is the set S, in ascending order.                                      *)
Listing(s, S) ==
    /\ s \in Seq(S) /\ Increasing(s)
    /\ \A x \in S : \E i \in DOMAIN s : s[i] = x

LEMMA PlaceIs ==
  ASSUME NEW S \in SUBSET Int, NEW s, Listing(s, S), NEW i \in 1 .. Len(s)
  PROVE  IsFiniteSet(Below(S, s[i])) /\ Place(S, s[i]) = i - 1
<1> DEFINE T == Below(S, s[i])
           f == [j \in 1 .. i - 1 |-> s[j]]
<1>1. DOMAIN s = 1 .. Len(s) /\ Len(s) \in Nat /\ \A j \in 1 .. Len(s) : s[j] \in Int /\ s[j] \in S
  <2>1. s \in Seq(S)
    BY Zenon DEF Listing
  <2>2. DOMAIN s = 1 .. Len(s) /\ Len(s) \in Nat /\ \A j \in 1 .. Len(s) : s[j] \in S
    BY ONLY SMTT(20), <2>1
  <2> QED BY Zenon, <2>2
<1>2. \A j, k \in 1 .. Len(s) : j < k => s[j] < s[k]
  BY Zenon, <1>1 DEF Listing, Increasing
<1>3. \A j \in 1 .. i - 1 : j \in 1 .. Len(s) /\ s[j] < s[i] /\ s[j] \in S
  BY <1>1, <1>2
<1>4. f \in [1 .. i - 1 -> T]
  BY Zenon, <1>3 DEF Below
<1>5. \A j, k \in 1 .. i - 1 : f[j] = f[k] => j = k
  BY <1>1, <1>2, <1>3
<1>6. \A x \in T : \E j \in 1 .. i - 1 : f[j] = x
  <2> SUFFICES ASSUME NEW x \in T PROVE \E j \in 1 .. i - 1 : f[j] = x
    BY Zenon
  <2>1. x \in S /\ x < s[i] /\ x \in Int
    BY Zenon DEF Below
  <2>2. PICK j \in 1 .. Len(s) : s[j] = x
    BY Zenon, <1>1, <2>1 DEF Listing
  <2>3. j < i
    BY <1>1, <1>2, <2>1, <2>2
  <2>4. j \in 1 .. i - 1
    BY <1>1, <2>3
  <2> QED BY Zenon, <2>2, <2>4
<1> HIDE DEF f, T
<1>7. f \in Bijection(1 .. i - 1, T)
  BY Zenon, <1>4, <1>5, <1>6 DEF Bijection, Injection, Surjection, IsInjective
<1>8. ExistsBijection(1 .. i - 1, T)
  BY Zenon, <1>7 DEF ExistsBijection
<1>9. i - 1 \in Nat
  OBVIOUS
<1>10. IsFiniteSet(T) /\ Cardinality(T) = i - 1
  BY Zenon, <1>8, <1>9, FS_CountingElements, FS_NatBijection
<1> QED BY Zenon, <1>10 DEF T, Place

(* What TartineFs::readdir lists of a directory with the names B.           *)
Dots == {Dot, DotDot}
EntriesOf(B) == <<Dot, DotDot>> \o Ascending(B)

LEMMA AscendingIs ==
  ASSUME NEW B \in SUBSET Nat, IsFiniteSet(B)
  PROVE  /\ Ascending(B) \in [1 .. Cardinality(B) -> B] /\ Increasing(Ascending(B))
         /\ \A x \in B : \E i \in 1 .. Cardinality(B) : Ascending(B)[i] = x
<1> DEFINE a == Ascending(B)
           c == Cardinality(B)
           T == {a[i] : i \in 1 .. c}
<1>1. a \in [1 .. c -> B] /\ Increasing(a)
  <2>1. \E s \in [1 .. c -> B] : Increasing(s)
    BY Zenon, AscendingExists
  <2> QED BY Zenon, <2>1 DEF Ascending, Increasing
<1>2. c \in Nat
  BY Zenon, FS_CardinalityType
<1> HIDE DEF a, c
<1>3. \A i, j \in 1 .. c : i < j => a[i] < a[j]
  BY Zenon, <1>1 DEF Increasing
<1>4. \A i, j \in 1 .. c : a[i] = a[j] => i = j
  <2> SUFFICES ASSUME NEW i \in 1 .. c, NEW j \in 1 .. c, a[i] = a[j], i # j PROVE FALSE
    BY Zenon
  <2>1. a[i] \in Nat /\ (i < j \/ j < i)
    <3>1. a[i] \in B
      BY ONLY Zenon, <1>1, i \in 1 .. c
    <3>2. i < j \/ j < i
      BY ONLY SMTT(20), <1>2, i \in 1 .. c, j \in 1 .. c, i # j
    <3> QED BY Zenon, <3>1, <3>2
  <2>2. a[i] < a[j] \/ a[j] < a[i]
    BY Zenon, <1>3, <2>1
  <2> QED BY <2>1, <2>2
<1>5. a \in Bijection(1 .. c, T)
  <2>1. a \in [1 .. c -> T]
    BY Zenon, <1>1
  <2>2. \A x \in T : \E i \in 1 .. c : a[i] = x
    BY Zenon
  <2> HIDE DEF T
  <2> QED BY Zenon, <1>4, <2>1, <2>2 DEF Bijection, Injection, Surjection, IsInjective
<1>6. IsFiniteSet(T) /\ Cardinality(T) = c
  <2>1. ExistsBijection(1 .. c, T)
    BY Zenon, <1>5 DEF ExistsBijection
  <2> HIDE DEF T
  <2> QED BY Zenon, <1>2, <2>1, FS_CountingElements, FS_NatBijection
<1>7. T = B
  <2>1. T \in SUBSET B
    BY Zenon, <1>1
  <2> HIDE DEF T
  <2> QED BY Zenon, <1>6, <2>1, FS_Subset DEF c
<1>8. \A x \in B : \E i \in 1 .. c : a[i] = x
  BY Zenon, <1>7
<1> QED BY Zenon, <1>1, <1>8 DEF a, c

LEMMA EntriesListed ==
  ASSUME NEW B \in SUBSET Nat, IsFiniteSet(B)
  PROVE  Listing(EntriesOf(B), B \cup Dots)
<1> DEFINE a == Ascending(B)
           c == Cardinality(B)
           e == EntriesOf(B)
           S == B \cup Dots
<1>1. /\ a \in [1 .. c -> B] /\ \A x \in B : \E i \in 1 .. c : a[i] = x
      /\ \A i, j \in 1 .. c : i < j => a[i] < a[j]
      /\ c \in Nat
  BY Zenon, AscendingIs, FS_CardinalityType DEF Increasing
<1> HIDE DEF a, c
<1>2. a \in Seq(B) /\ Len(a) = c
  BY <1>1
<1>3. /\ e \in Seq(S) /\ Len(e) = c + 2 /\ e[1] = -2 /\ e[2] = -1
      /\ \A i \in 1 .. c : e[i + 2] = a[i]
  <2>1. e = <<Dot, DotDot>> \o a
    BY Zenon DEF EntriesOf, a
  <2>2. a \in Seq(S) /\ <<Dot, DotDot>> \in Seq(S)
    BY <1>2 DEF Dots
  <2> QED BY <1>1, <1>2, <2>1, <2>2 DEF Dot, DotDot
<1> HIDE DEF e
<1>4. DOMAIN e = 1 .. c + 2
  <2> HIDE DEF S
  <2> QED BY <1>3
<1>5. ASSUME NEW i \in 1 .. c + 2, NEW j \in 1 .. c + 2, i < j PROVE e[i] < e[j]
  <2>a. \A k \in 1 .. c : a[k] \in Nat
    <3>1. \A k \in 1 .. c : a[k] \in B
      BY ONLY Zenon, <1>1
    <3> QED BY Zenon, <3>1
  <2>b. ASSUME NEW k \in 1 .. c + 2, k - 2 \in 1 .. c PROVE e[k] = a[k - 2] /\ a[k - 2] \in Nat
    <3>1. (k - 2) + 2 = k
      BY ONLY SMTT(20), <1>1, k \in 1 .. c + 2
    <3> QED BY Zenon, <1>3, <2>a, <2>b, <3>1
  <2>1. i - 2 \in 1 .. c => e[i] = a[i - 2] /\ a[i - 2] \in Nat
    BY Zenon, <2>b
  <2>2. j - 2 \in 1 .. c => e[j] = a[j - 2] /\ a[j - 2] \in Nat
    BY Zenon, <2>b
  <2>3. CASE i = 1
    BY <1>1, <1>3, <1>5, <2>2, <2>3
  <2>4. CASE i = 2
    BY <1>1, <1>3, <1>5, <2>2, <2>4
  <2>5. CASE i > 2
    <3>1. i - 2 \in 1 .. c /\ j - 2 \in 1 .. c /\ i - 2 < j - 2
      BY <1>1, <1>5, <2>5
    <3>2. a[i - 2] < a[j - 2]
      BY Zenon, <1>1, <3>1
    <3> QED BY Zenon, <2>1, <2>2, <3>1, <3>2
  <2> QED BY <1>1, <2>3, <2>4, <2>5
<1>6. ASSUME NEW x \in S PROVE \E i \in 1 .. c + 2 : e[i] = x
  <2>1. CASE x = Dot
    BY <1>1, <1>3, <2>1 DEF Dot
  <2>2. CASE x = DotDot
    BY <1>1, <1>3, <2>2 DEF DotDot
  <2>3. CASE x \in B
    <3>1. PICK i \in 1 .. c : a[i] = x
      BY Zenon, <1>1, <2>3
    <3>2. i + 2 \in 1 .. c + 2 /\ e[i + 2] = x
      BY <1>1, <1>3, <3>1
    <3> QED BY Zenon, <3>2
  <2> QED BY Zenon, <2>1, <2>2, <2>3 DEF Dots
<1> HIDE DEF S
<1>7. Increasing(e)
  BY Zenon, <1>4, <1>5 DEF Increasing
<1>8. Listing(e, S)
  BY Zenon, <1>3, <1>4, <1>6, <1>7 DEF Listing
<1> QED BY Zenon, <1>8 DEF e, S

(* A replay binds finitely many names.                                      *)
LEMMA ReplayFinite ==
  ASSUME NEW s \in Seq(MetaOps)
  PROVE  IsFiniteSet(Bound(ReplayOf(s)))
<1> DEFINE Fine(r) == ReplayOf(r) \in Shaped /\ IsFiniteSet(Bound(ReplayOf(r)))
           I == {k \in Nat : \A r \in Seq(MetaOps) : Len(r) = k => Fine(r)}
<1>1. 0 \in I
  <2>1. Bound(EmptyTables) = {}
    BY Zenon DEF Bound, EmptyTables
  <2>2. Fine(<<>>)
    BY Zenon, <2>1, ReplayNil, EmptyShaped, FS_EmptySet
  <2>3. \A r \in Seq(MetaOps) : Len(r) = 0 => r = <<>>
    BY Zenon, EmptySeq
  <2> HIDE DEF Fine
  <2> QED BY Zenon, <2>2, <2>3
<1>2. ASSUME NEW k \in Nat, k \in I PROVE k + 1 \in I
  <2> SUFFICES ASSUME NEW r \in Seq(MetaOps), Len(r) = k + 1 PROVE Fine(r)
    BY DEF I
  <2> DEFINE q == SubSeq(r, 1, k)
             o == r[k + 1]
             t == ReplayOf(q)
             u == ReplayOf(r)
  <2>1. q \in Seq(MetaOps) /\ Len(q) = k /\ o \in MetaOps /\ r = Append(q, o)
    OBVIOUS
  <2>2. t \in Shaped /\ IsFiniteSet(Bound(t))
    <3> HIDE DEF q
    <3> QED BY Zenon, <1>2, <2>1
  <2> HIDE DEF q, o
  <2>3. u = ApplyLocally(t, o)
    BY ONLY Zenon, <2>1, ReplayAppend
  <2> HIDE DEF t, u
  <2>4. Does(o, t, u)
    BY Zenon, <2>1, <2>2, <2>3, ApplyDoes
  <2>5. IsFiniteSet(NamesOf(o))
    BY Zenon, FS_EmptySet, FS_Singleton DEF NamesOf
  <2>6. Bound(u) \in SUBSET (Bound(t) \cup NamesOf(o))
    BY Zenon, <2>4 DEF Does, Bound
  <2>7. IsFiniteSet(Bound(t) \cup NamesOf(o))
    BY Zenon, <2>2, <2>5, FS_Union
  <2>8. IsFiniteSet(Bound(u)) /\ u \in Shaped
    BY Zenon, <2>4, <2>6, <2>7, FS_Subset DEF Does
  <2> QED BY Zenon, <2>8 DEF u
<1>3. Len(s) \in Nat
  OBVIOUS
<1>4. Len(s) \in I
  <2> HIDE DEF I
  <2> QED BY Zenon, <1>1, <1>2, <1>3, SetInduction
<1> QED BY Zenon, <1>4

(* The entries of a mounted pool's directory.                               *)
Listed == Bound(tables) \cup Dots

LEMMA ServedEntries ==
  ASSUME RInv, pc = "serve"
  PROVE  /\ IsFiniteSet(Listed) /\ Listed \in SUBSET Int /\ Bound(tables) \in SUBSET Nat
         /\ Listing(Entries, Listed)
<1>1. Bound(tables) = Bound(ReplayOf(log))
  BY Zenon DEF RInv, ViewInv, Shows, Bound
<1>2. IsFiniteSet(Bound(tables))
  BY Zenon, <1>1, ReplayFinite DEF RInv, MInv, TypeOK
<1>3. Bound(tables) \in SUBSET Nat
  BY Zenon, MountAssumption DEF Bound
<1>4. IsFiniteSet(Dots) /\ Dots \in SUBSET Int
  <2>1. IsFiniteSet({Dot} \cup {DotDot})
    BY Zenon, FS_Singleton, FS_AddElement
  <2>2. {Dot} \cup {DotDot} = Dots
    BY Zenon DEF Dots
  <2> QED BY <2>1, <2>2 DEF Dots, Dot, DotDot
<1>5. IsFiniteSet(Listed)
  BY Zenon, <1>2, <1>4, FS_Union DEF Listed
<1>6. Listed \in SUBSET Int
  <2>1. \A n \in Nat : n \in Int
    OBVIOUS
  <2> QED BY Zenon, <1>3, <1>4, <2>1 DEF Listed
<1>7. Listing(Entries, Listed)
  BY Zenon, <1>2, <1>3, EntriesListed DEF Entries, EntriesOf, Listed
<1> QED BY Zenon, <1>3, <1>5, <1>6, <1>7

(* What a stream has returned of n.                                         *)
Has(g, n)   == \E i \in DOMAIN g : g[i] = n
Twice(g, n) == \E i, j \in DOMAIN g : i # j /\ g[i] = n /\ g[j] = n

(* h is g and a page with the entries from a to u: it returns n when n's    *)
(* place p is among them.                                                   *)
Paged(g, h, a, u, p, n) ==
    /\ h \in Seq(Int) /\ p \in Nat
    /\ Has(h, n) <=> (Has(g, n) \/ (a <= p /\ p < u))
    /\ Twice(h, n) => Twice(g, n) \/ (Has(g, n) /\ a <= p)

LEMMA Page ==
  ASSUME NEW S \in SUBSET Int, NEW e, Listing(e, S), NEW n \in S, NEW g \in Seq(Int),
         NEW a \in Nat, NEW u \in Nat, a < u, u <= Len(e)
  PROVE  Paged(g, g \o SubSeq(e, a + 1, u), a, u, Place(S, n), n)
<1> DEFINE h == g \o SubSeq(e, a + 1, u)
           p == Place(S, n)
           s == SubSeq(e, a + 1, u)
           l == Len(g)
           k == u - a
<1>1. DOMAIN e = 1 .. Len(e) /\ Len(e) \in Nat /\ \A i \in 1 .. Len(e) : e[i] \in S
  <2>1. e \in Seq(S)
    BY Zenon DEF Listing
  <2> QED BY ONLY SMTT(20), <2>1
<1>2. PICK i \in 1 .. Len(e) : e[i] = n
  BY Zenon, <1>1 DEF Listing
<1>3. \A j \in 1 .. Len(e) : e[j] = n => j = p + 1
  <2> SUFFICES ASSUME NEW j \in 1 .. Len(e), e[j] = n PROVE j = p + 1
    BY Zenon
  <2>1. Place(S, e[j]) = j - 1
    BY Zenon, PlaceIs
  <2> QED BY <1>1, <2>1
<1>4. p \in Nat /\ p + 1 \in 1 .. Len(e) /\ e[p + 1] = n
  <2>1. i = p + 1
    BY Zenon, <1>2, <1>3
  <2>2. Place(S, e[i]) = i - 1
    BY Zenon, PlaceIs
  <2>3. p = i - 1
    BY Zenon, <1>2, <2>2
  <2> HIDE DEF p
  <2> QED BY <1>1, <1>2, <2>1, <2>3
<1> HIDE DEF p
<1>5. s \in Seq(Int) /\ Len(s) = k /\ \A j \in 1 .. k : s[j] = e[a + j]
  <2>1. \A j \in a + 1 .. u : e[j] \in Int
    <3>1. \A j \in a + 1 .. u : j \in 1 .. Len(e)
      BY <1>1
    <3> QED BY Zenon, <1>1, <3>1
  <2>2. /\ s \in Seq(Int) /\ Len(s) = (IF a + 1 <= u THEN u - (a + 1) + 1 ELSE 0)
        /\ \A j \in 1 .. u - (a + 1) + 1 : s[j] = e[(a + 1) + j - 1]
    <3>1. a + 1 \in Int /\ u \in Int
      OBVIOUS
    <3> QED BY ONLY SMTT(20), <2>1, <3>1, SubSeqProperties
  <2>3. a + 1 <= u /\ u - (a + 1) + 1 = k /\ \A j \in 1 .. k : (a + 1) + j - 1 = a + j
    OBVIOUS
  <2> HIDE DEF s, k
  <2> QED BY Zenon, <2>2, <2>3
<1> HIDE DEF s
<1>6. l \in Nat /\ k \in Nat /\ DOMAIN g = 1 .. l
  OBVIOUS
<1>7. /\ h \in Seq(Int) /\ DOMAIN h = 1 .. l + k
      /\ \A j \in 1 .. l : h[j] = g[j]
      /\ \A j \in 1 .. k : h[l + j] = e[a + j]
  <2>1. h = g \o s
    BY Zenon DEF s
  <2> HIDE DEF h, k
  <2>a. /\ h \in Seq(Int) /\ Len(h) = Len(g) + Len(s)
        /\ \A j \in 1 .. Len(g) + Len(s) : h[j] = IF j <= Len(g) THEN g[j] ELSE s[j - Len(g)]
    BY ONLY Zenon, g \in Seq(Int), <1>5, <2>1, ConcatProperties
  <2>2. h \in Seq(Int) /\ Len(h) = l + k
    BY ONLY Zenon, <1>5, <2>a
  <2>3. \A j \in 1 .. l + k : h[j] = IF j <= l THEN g[j] ELSE s[j - l]
    BY ONLY Zenon, <1>5, <2>a
  <2>4. \A j \in 1 .. k : l + j \in 1 .. l + k /\ ~(l + j <= l) /\ (l + j) - l = j
    BY <1>6
  <2>5. \A j \in 1 .. l : j \in 1 .. l + k /\ j <= l
    BY <1>6
  <2>6. DOMAIN h = 1 .. l + k
    BY ONLY SMTT(20), <2>2
  <2> HIDE DEF l
  <2>7. \A j \in 1 .. l : h[j] = g[j]
    BY ONLY Zenon, <2>3, <2>5
  <2>8. ASSUME NEW j \in 1 .. k PROVE h[l + j] = e[a + j]
    <3>1. h[l + j] = s[(l + j) - l] /\ (l + j) - l = j
      BY ONLY Zenon, j \in 1 .. k, <2>3, <2>4
    <3> QED BY ONLY Zenon, j \in 1 .. k, <1>5, <3>1
  <2> QED BY Zenon, <2>2, <2>6, <2>7, <2>8
<1> HIDE DEF h, l
<1>8. ASSUME NEW j \in 1 .. l + k, h[j] = n
      PROVE  \/ j \in 1 .. l /\ g[j] = n
             \/ j > l /\ j = l + (p + 1 - a) /\ a <= p /\ p < u
  <2>1. CASE j <= l
    BY <1>6, <1>7, <1>8, <2>1
  <2>2. CASE j > l
    <3>1. j - l \in 1 .. k /\ a + (j - l) \in 1 .. Len(e) /\ l + (j - l) = j
      BY <1>1, <1>6, <2>2
    <3>2. e[a + (j - l)] = n
      BY Zenon, <1>7, <1>8, <3>1
    <3>3. a + (j - l) = p + 1
      BY Zenon, <1>3, <3>1, <3>2
    <3> QED BY <1>4, <1>6, <2>2, <3>1, <3>3
  <2> QED BY <1>6, <2>1, <2>2
<1>9. Has(h, n) => Has(g, n) \/ (a <= p /\ p < u)
  BY Zenon, <1>6, <1>7, <1>8 DEF Has
<1>10. Has(g, n) => Has(h, n)
  <2>1. \A j \in 1 .. l : j \in 1 .. l + k
    BY <1>6
  <2> QED BY Zenon, <1>6, <1>7, <2>1 DEF Has
<1>11. a <= p /\ p < u => Has(h, n)
  <2> SUFFICES ASSUME a <= p, p < u PROVE Has(h, n)
    BY Zenon
  <2>1. p + 1 - a \in 1 .. k /\ l + (p + 1 - a) \in 1 .. l + k /\ a + (p + 1 - a) = p + 1
    BY <1>4, <1>6
  <2>2. h[l + (p + 1 - a)] = n
    BY Zenon, <1>4, <1>7, <2>1
  <2> QED BY Zenon, <1>7, <2>1, <2>2 DEF Has
<1>12. Twice(h, n) => Twice(g, n) \/ (Has(g, n) /\ a <= p)
  <2> SUFFICES ASSUME NEW x \in 1 .. l + k, NEW y \in 1 .. l + k, x # y, h[x] = n, h[y] = n
               PROVE  Twice(g, n) \/ (Has(g, n) /\ a <= p)
    BY Zenon, <1>7 DEF Twice
  <2> DEFINE In(j)   == j \in 1 .. l /\ g[j] = n
             Late(j) == j = l + (p + 1 - a) /\ a <= p
  <2>1. (In(x) \/ Late(x)) /\ (In(y) \/ Late(y))
    BY Zenon, <1>8
  <2>2. CASE In(x) /\ In(y)
    BY Zenon, <1>6, <2>2 DEF Twice
  <2>3. CASE In(x) /\ Late(y)
    BY Zenon, <1>6, <2>3 DEF Has
  <2>4. CASE Late(x) /\ In(y)
    BY Zenon, <1>6, <2>4 DEF Has
  <2>5. ~(Late(x) /\ Late(y))
    BY Zenon
  <2> HIDE DEF In, Late
  <2> QED BY Zenon, <2>1, <2>2, <2>3, <2>4, <2>5
<1>13. h \in Seq(Int)
  BY Zenon, <1>7
<1>14. Paged(g, h, a, u, p, n)
  BY Zenon, <1>4, <1>9, <1>10, <1>11, <1>12, <1>13 DEF Paged
<1> QED BY Zenon, <1>14 DEF h, p

-----------------------------------------------------------------------------
(* A directory stream.                                                      *)
Stream == [open : {TRUE}, at : Nat, got : Seq(Int), end : BOOLEAN,
           stayed : SUBSET Names, went : SUBSET Names, came : SUBSET Names]

(* The stream d of a directory that now lists S has n behind its offset     *)
(* just when it has returned n, as far as the names that went and came do   *)
(* not disturb it.                                                          *)
Judged(d, S, n) ==
    /\ (\A m \in d.went : ~(m < n)) => /\ ~Has(d.got, n) => d.at <= Place(S, n)
                                       /\ d.end => Has(d.got, n)
    /\ (\A m \in d.came : ~(m < n)) => /\ ~Twice(d.got, n)
                                       /\ Has(d.got, n) => Place(S, n) < d.at

StreamInv ==
    \/ dir = Closed
    \/ /\ dir \in Stream /\ pc = "serve" /\ dir.stayed \subseteq Bound(tables)
       /\ \A n \in dir.stayed \cup Dots : Judged(dir, Listed, n)

SInv == RInv /\ StreamInv

LEMMA PlaceGrows ==
  ASSUME NEW S, IsFiniteSet(S), NEW T \in SUBSET S, NEW n
  PROVE  Place(T, n) \in Nat /\ Place(S, n) \in Nat /\ Place(T, n) <= Place(S, n)
<1>1. Below(S, n) \in SUBSET S /\ Below(T, n) \in SUBSET Below(S, n)
  BY Zenon DEF Below
<1>2. IsFiniteSet(Below(S, n))
  BY Zenon, <1>1, FS_Subset
<1>3. IsFiniteSet(Below(T, n)) /\ Cardinality(Below(T, n)) <= Cardinality(Below(S, n))
  BY Zenon, <1>1, <1>2, FS_Subset
<1> QED BY Zenon, <1>2, <1>3, FS_CardinalityType DEF Place

(* What an operation does to the names that are bound.                      *)
LEMMA Binds ==
  ASSUME NEW t \in Shaped, NEW o \in MetaOps
  PROVE  LET B == Bound(ApplyLocally(t, o))
         IN  /\ o.type = "Link" => o.name \in Names /\ B = Bound(t) \cup {o.name}
             /\ o.type = "Unlink" => o.name \in Names /\ B = Bound(t) \ {o.name}
             /\ o.type \notin {"Link", "Unlink"} => B = Bound(t)
<1> DEFINE u == ApplyLocally(t, o)
<1>1. ASSUME NEW i, NEW rec, o = CreateInode(i, rec)
      PROVE  o.type = "CreateInode" /\ Bound(u) = Bound(t)
  <2>1. o.type = "CreateInode" /\ u.dirs = t.dirs
    BY Zenon, <1>1 DEF CreateInode, ApplyLocally, PutInode, Shaped
  <2> QED BY Zenon, <2>1 DEF Bound
<1>2. ASSUME NEW n \in Names, NEW i \in Inode, o = Link(n, i)
      PROVE  o.type = "Link" /\ o.name = n /\ Bound(u) = Bound(t) \cup {n}
  <2>1. o.type = "Link" /\ o.name = n /\ o.inode = i
    BY Zenon, <1>2 DEF Link
  <2>2. u.dirs = [t.dirs EXCEPT ![n] = i]
    BY Zenon, <2>1 DEF ApplyLocally, Shaped
  <2>3. i # NoInode
    BY ViewAssumption DEF Inode, NoInode
  <2> HIDE DEF u
  <2> QED BY <2>1, <2>2, <2>3 DEF Bound, Shaped
<1>3. ASSUME NEW n \in Names, o = Unlink(n)
      PROVE  o.type = "Unlink" /\ o.name = n /\ Bound(u) = Bound(t) \ {n}
  <2>1. o.type = "Unlink" /\ o.name = n
    BY Zenon, <1>3 DEF Unlink
  <2>2. u.dirs = [t.dirs EXCEPT ![n] = NoInode]
    BY Zenon, <2>1 DEF ApplyLocally, Shaped
  <2> HIDE DEF u
  <2> QED BY <2>1, <2>2 DEF Bound, Shaped
<1> HIDE DEF u
<1>4. CASE \E i, rec : o = CreateInode(i, rec)
  BY Zenon, <1>1, <1>4 DEF u
<1>5. CASE \E n \in Names, i \in Inode : o = Link(n, i)
  BY Zenon, <1>2, <1>5 DEF u
<1>6. CASE \E n \in Names : o = Unlink(n)
  BY Zenon, <1>3, <1>6 DEF u
<1> QED BY <1>4, <1>5, <1>6 DEF MetaOps

(* The stream d once a page has returned the entries up to u; and that c is *)
(* a stream like d, to be judged by the same names.                         *)
PageTo(d, e, u) == [d EXCEPT !.at = u, !.got = @ \o SubSeq(e, d.at + 1, u)]

StillJudged(d, c, S) ==
    /\ \A n \in S : Judged(d, S, n) => Judged(c, S, n)
    /\ c.stayed = d.stayed
    /\ S # {} => c \in Stream

LEMMA JudgedPage ==
  ASSUME NEW S \in SUBSET Int, NEW e, Listing(e, S), NEW d \in Stream, ~d.end,
         NEW u \in Nat, d.at < u, u <= Len(e)
  PROVE  StillJudged(d, PageTo(d, e, u), S)
<1> DEFINE c == PageTo(d, e, u)
           g == d.got
           h == c.got
<1>0. c = [d EXCEPT !.at = u, !.got = @ \o SubSeq(e, d.at + 1, u)]
  BY Zenon DEF PageTo
<1> HIDE DEF c
<1>1. /\ c.at = u /\ h = g \o SubSeq(e, d.at + 1, u) /\ c.end = d.end
      /\ c.stayed = d.stayed /\ c.went = d.went /\ c.came = d.came /\ c.open = TRUE
      /\ c = [open |-> c.open, at |-> c.at, got |-> c.got, end |-> c.end,
              stayed |-> c.stayed, went |-> c.went, came |-> c.came]
  BY Zenon, <1>0 DEF Stream
<1>2. d.at \in Nat /\ g \in Seq(Int)
  BY Zenon DEF Stream
<1>3. ASSUME NEW n \in S PROVE Paged(g, h, d.at, u, Place(S, n), n)
  <2>1. h = g \o SubSeq(e, d.at + 1, u)
    BY Zenon, <1>1
  <2> HIDE DEF g, h
  <2>2. Paged(g, g \o SubSeq(e, d.at + 1, u), d.at, u, Place(S, n), n)
    BY Zenon, <1>2, Page
  <2> QED BY Zenon, <2>1, <2>2
<1>4. ASSUME NEW n \in S, Judged(d, S, n) PROVE Judged(c, S, n)
  <2> DEFINE p == Place(S, n)
             W == \A m \in d.went : ~(m < n)
             C == \A m \in d.came : ~(m < n)
  <2>1. p \in Nat /\ (Has(h, n) <=> (Has(g, n) \/ (d.at <= p /\ p < u)))
    BY Zenon, <1>3 DEF Paged
  <2>2. Twice(h, n) => Twice(g, n) \/ (Has(g, n) /\ d.at <= p)
    BY Zenon, <1>3 DEF Paged
  <2>3. (W => (~Has(g, n) => d.at <= p)) /\ (C => ~Twice(g, n) /\ (Has(g, n) => p < d.at))
    BY Zenon, <1>4 DEF Judged
  <2>4. ~c.end
    BY Zenon, <1>1
  <2> HIDE DEF p, W, C, g, h
  <2>5. W => (~Has(h, n) => u <= p)
    BY <1>2, <2>1, <2>3
  <2>6. C => ~Twice(h, n) /\ (Has(h, n) => p < u)
    BY <1>2, <2>1, <2>2, <2>3
  <2> QED BY Zenon, <1>1, <2>4, <2>5, <2>6 DEF Judged, p, W, C, h
<1>5. S # {} => c \in Stream
  <2> SUFFICES ASSUME S # {} PROVE c \in Stream
    BY Zenon
  <2>1. h \in Seq(Int)
    BY Zenon, <1>3 DEF Paged
  <2> HIDE DEF g
  <2>2. /\ c.open \in {TRUE} /\ c.at \in Nat /\ c.end \in BOOLEAN /\ c.stayed \in SUBSET Names
        /\ c.went \in SUBSET Names /\ c.came \in SUBSET Names
    BY Zenon, <1>1 DEF Stream
  <2> HIDE DEF h
  <2> QED BY Zenon, <1>1, <2>1, <2>2 DEF Stream, h
<1>6. StillJudged(d, c, S)
  BY Zenon, <1>1, <1>4, <1>5 DEF StillJudged
<1> QED BY Zenon, <1>6 DEF c

LEMMA JudgedEnd ==
  ASSUME NEW S \in SUBSET Int, NEW e, Listing(e, S), NEW d \in Stream, d.at >= Len(e),
         NEW c, c = [d EXCEPT !.end = TRUE]
  PROVE  /\ \A n \in S : Judged(d, S, n) => Judged(c, S, n)
         /\ c.stayed = d.stayed /\ c \in Stream
<1>1. /\ c.at = d.at /\ c.got = d.got /\ c.end = TRUE
      /\ c.stayed = d.stayed /\ c.went = d.went /\ c.came = d.came
      /\ c \in Stream
  BY Zenon DEF Stream
<1>2. ASSUME NEW n \in S PROVE Place(S, n) \in Int /\ Place(S, n) < d.at
  <2>1. e \in Seq(S) /\ \E i \in DOMAIN e : e[i] = n
    BY Zenon DEF Listing
  <2>2. Len(e) \in Nat /\ DOMAIN e = 1 .. Len(e)
    BY ONLY SMTT(20), <2>1
  <2>3. PICK i \in 1 .. Len(e) : e[i] = n
    BY Zenon, <2>1, <2>2
  <2>4. Place(S, e[i]) = i - 1
    BY Zenon, PlaceIs
  <2>5. d.at \in Nat
    BY Zenon DEF Stream
  <2> QED BY <2>2, <2>3, <2>4, <2>5
<1>3. ASSUME NEW n \in S, Judged(d, S, n) PROVE Judged(c, S, n)
  <2>1. d.at \in Nat
    BY Zenon DEF Stream
  <2>2. ~(d.at <= Place(S, n))
    BY <1>2, <2>1
  <2> QED BY Zenon, <1>1, <1>3, <2>2 DEF Judged
<1> QED BY Zenon, <1>1, <1>3

LEMMA JudgedLink ==
  ASSUME NEW S \in SUBSET Int, IsFiniteSet(S), NEW d \in Stream, NEW m \in Names,
         NEW c, c = [d EXCEPT !.came = @ \cup {m}]
  PROVE  /\ \A n \in S : Judged(d, S, n) => Judged(c, S \cup {m}, n)
         /\ c.stayed = d.stayed /\ c \in Stream
<1>1. /\ c.at = d.at /\ c.got = d.got /\ c.end = d.end
      /\ c.stayed = d.stayed /\ c.went = d.went /\ c.came = d.came \cup {m}
      /\ c \in Stream
  BY Zenon DEF Stream
<1>2. ASSUME NEW n \in S, Judged(d, S, n) PROVE Judged(c, S \cup {m}, n)
  <2> DEFINE p == Place(S, n)
             q == Place(S \cup {m}, n)
  <2>1. IsFiniteSet(S \cup {m}) /\ S \in SUBSET (S \cup {m})
    BY Zenon, FS_AddElement
  <2>2. p \in Nat /\ q \in Nat /\ p <= q
    BY Zenon, <2>1, PlaceGrows
  <2>3. ~(m < n) => p = q
    <3>1. ~(m < n) => Below(S, n) = Below(S \cup {m}, n)
      BY Zenon DEF Below
    <3> QED BY Zenon, <3>1 DEF Place
  <2>4. d.at \in Nat
    BY Zenon DEF Stream
  <2> HIDE DEF p, q
  <2>5. d.at <= p => d.at <= q
    BY <2>2, <2>4
  <2>6. (\A x \in c.came : ~(x < n)) => (\A x \in d.came : ~(x < n)) /\ p = q
    BY Zenon, <1>1, <2>3
  <2> QED BY Zenon, <1>1, <1>2, <2>5, <2>6 DEF Judged, p, q
<1> QED BY Zenon, <1>1, <1>2

LEMMA JudgedUnlink ==
  ASSUME NEW S \in SUBSET Int, IsFiniteSet(S), NEW d \in Stream, NEW m \in Names,
         NEW c, c = [d EXCEPT !.stayed = @ \ {m}, !.went = @ \cup {m}]
  PROVE  /\ \A n \in S : Judged(d, S, n) => Judged(c, S \ {m}, n)
         /\ c.stayed = d.stayed \ {m} /\ c \in Stream
<1>1. /\ c.at = d.at /\ c.got = d.got /\ c.end = d.end
      /\ c.stayed = d.stayed \ {m} /\ c.went = d.went \cup {m} /\ c.came = d.came
      /\ c \in Stream
  BY Zenon DEF Stream
<1>2. ASSUME NEW n \in S, Judged(d, S, n) PROVE Judged(c, S \ {m}, n)
  <2> DEFINE p == Place(S, n)
             q == Place(S \ {m}, n)
  <2>1. S \ {m} \in SUBSET S
    BY Zenon
  <2>2. p \in Nat /\ q \in Nat /\ q <= p
    BY Zenon, <2>1, PlaceGrows
  <2>3. ~(m < n) => p = q
    <3>1. ~(m < n) => Below(S, n) = Below(S \ {m}, n)
      BY Zenon DEF Below
    <3> QED BY Zenon, <3>1 DEF Place
  <2>4. d.at \in Nat
    BY Zenon DEF Stream
  <2> HIDE DEF p, q
  <2>5. p < d.at => q < d.at
    BY <2>2, <2>4
  <2>6. (\A x \in c.went : ~(x < n)) => (\A x \in d.went : ~(x < n)) /\ p = q
    BY Zenon, <1>1, <2>3
  <2> QED BY Zenon, <1>1, <1>2, <2>5, <2>6 DEF Judged, p, q
<1> QED BY Zenon, <1>1, <1>2

LEMMA OpenDirStream ==
  ASSUME SInv, OpenDir
  PROVE  StreamInv'
<1>1. /\ dir' = [open |-> TRUE, at |-> 0, got |-> <<>>, end |-> FALSE,
                 stayed |-> Bound(tables), went |-> {}, came |-> {}]
      /\ pc = "serve" /\ UNCHANGED <<pc, tables>>
  BY Zenon DEF OpenDir, daemon
<1>2. dir' \in Stream
  <2>1. Bound(tables) \in SUBSET Names /\ <<>> \in Seq(Int)
    BY DEF Bound
  <2> QED BY Zenon, <1>1, <2>1 DEF Stream
<1>3. IsFiniteSet(Listed)
  BY Zenon, <1>1, ServedEntries DEF SInv
<1>4. ASSUME NEW n PROVE Judged(dir', Listed, n)
  <2>1. Place(Listed, n) \in Nat
    BY Zenon, <1>3, PlaceGrows
  <2>2. dir'.at <= Place(Listed, n)
    BY <1>1, <2>1
  <2>3. ~Has(dir'.got, n) /\ ~Twice(dir'.got, n) /\ ~dir'.end
    BY <1>1 DEF Has, Twice
  <2> QED BY Zenon, <2>2, <2>3 DEF Judged
<1>5. Listed' = Listed /\ Bound(tables)' = Bound(tables) /\ dir'.stayed = Bound(tables)
  BY Zenon, <1>1 DEF Listed, Bound
<1> QED BY Zenon, <1>1, <1>2, <1>4, <1>5 DEF StreamInv

LEMMA ReadDirStream ==
  ASSUME SInv, NEW room \in 1 .. MaxPage, ReadDir(room)
  PROVE  StreamInv'
<1> DEFINE u == IF dir.at + room < Len(Entries) THEN dir.at + room ELSE Len(Entries)
<1>1. /\ dir' = IF dir.at >= Len(Entries) THEN [dir EXCEPT !.end = TRUE]
                ELSE [dir EXCEPT !.at = Cookie(u - 1),
                                 !.got = @ \o SubSeq(Entries, dir.at + 1, u)]
      /\ pc = "serve" /\ dir.open /\ ~dir.end /\ UNCHANGED <<pc, tables>>
  BY Zenon DEF ReadDir, Idle, daemon
<1>2. /\ dir \in Stream /\ dir.stayed \subseteq Bound(tables)
      /\ \A n \in dir.stayed \cup Dots : Judged(dir, Listed, n)
  BY <1>1 DEF SInv, StreamInv, Closed
<1>3. Listing(Entries, Listed) /\ Listed \in SUBSET Int
  BY Zenon, <1>1, ServedEntries DEF SInv
<1>4. Listed' = Listed /\ Bound(tables)' = Bound(tables) /\ dir.stayed \cup Dots \subseteq Listed
      /\ Listed # {}
  BY Zenon, <1>1, <1>2 DEF Listed, Bound, Dots
<1>5. /\ dir' \in Stream /\ dir'.stayed = dir.stayed
      /\ \A n \in Listed : Judged(dir, Listed, n) => Judged(dir', Listed, n)
  <2>1. CASE dir.at >= Len(Entries)
    <3>1. dir' = [dir EXCEPT !.end = TRUE]
      BY Zenon, <1>1, <2>1
    <3> QED BY Zenon, <1>2, <1>3, <2>1, <3>1, JudgedEnd
  <2>2. CASE ~(dir.at >= Len(Entries))
    <3>1. dir.at \in Nat /\ Len(Entries) \in Nat /\ room \in Nat /\ room > 0
      <4>1. Entries \in Seq(Listed)
        BY Zenon, <1>3 DEF Listing
      <4>2. Len(Entries) \in Nat
        BY ONLY SMTT(20), <4>1
      <4> QED BY <1>2, <4>2, MountAssumption DEF Stream
    <3>2. u \in Nat /\ dir.at < u /\ u <= Len(Entries) /\ Cookie(u - 1) = u
      BY <2>2, <3>1 DEF Cookie
    <3> HIDE DEF u
    <3>3. dir' = PageTo(dir, Entries, u)
      BY Zenon, <1>1, <2>2, <3>2 DEF PageTo
    <3>4. StillJudged(dir, PageTo(dir, Entries, u), Listed)
      BY Zenon, <1>1, <1>2, <1>3, <3>2, JudgedPage
    <3> QED BY Zenon, <1>4, <3>3, <3>4 DEF StillJudged
  <2> QED BY Zenon, <2>1, <2>2
<1> QED BY Zenon, <1>1, <1>2, <1>4, <1>5 DEF StreamInv

LEMMA CommitStream ==
  ASSUME SInv, Commit
  PROVE  StreamInv'
<1>1. op \in MetaOps /\ tables' = ApplyLocally(tables, op) /\ pc' = "serve" /\ dir' = Watch(op)
  BY Zenon DEF SInv, RInv, MInv, Commit, TypeOK
<1>2. CASE dir = Closed
  BY Zenon, <1>1, <1>2 DEF Watch, Closed, StreamInv
<1>3. CASE dir # Closed
  <2>1. /\ dir \in Stream /\ pc = "serve" /\ dir.stayed \subseteq Bound(tables)
        /\ \A n \in dir.stayed \cup Dots : Judged(dir, Listed, n)
    BY Zenon, <1>3 DEF SInv, StreamInv
  <2>2. dir.open
    BY Zenon, <2>1 DEF Stream
  <2>3. tables \in Shaped
    BY Zenon, <2>1 DEF SInv, RInv, ViewInv
  <2>4. IsFiniteSet(Listed) /\ Listed \in SUBSET Int /\ Bound(tables) \in SUBSET Nat
    BY Zenon, <2>1, ServedEntries DEF SInv
  <2>5. dir.stayed \cup Dots \subseteq Listed
    BY Zenon, <2>1 DEF Listed
  <2> DEFINE m == op.name
  <2>6. CASE op.type = "Link"
    <3>1. m \in Names /\ Bound(tables)' = Bound(tables) \cup {m}
      BY <1>1, <2>3, <2>6, Binds DEF Bound
    <3>2. dir' = [dir EXCEPT !.came = @ \cup {m}]
      BY Zenon, <1>1, <2>2, <2>6 DEF Watch
    <3>3. Listed' = Listed \cup {m}
      BY Zenon, <3>1 DEF Listed, Dots
    <3> HIDE DEF m
    <3>4. /\ dir' \in Stream /\ dir'.stayed = dir.stayed
          /\ \A n \in Listed : Judged(dir, Listed, n) => Judged(dir', Listed', n)
      BY Zenon, <2>1, <2>4, <3>1, <3>2, <3>3, JudgedLink
    <3> QED BY Zenon, <1>1, <2>1, <2>5, <3>1, <3>4 DEF StreamInv
  <2>7. CASE op.type = "Unlink" /\ m \in Bound(tables)
    <3>1. m \in Names /\ Bound(tables)' = Bound(tables) \ {m}
      BY <1>1, <2>3, <2>7, Binds DEF Bound
    <3>2. dir' = [dir EXCEPT !.stayed = @ \ {m}, !.went = @ \cup {m}]
      BY Zenon, <1>1, <2>2, <2>7 DEF Watch
    <3>3. Listed' = Listed \ {m}
      <4>1. m \in Nat
        BY Zenon, <2>4, <2>7
      <4>2. m \notin Dots
        BY <4>1 DEF Dots, Dot, DotDot
      <4> QED BY Zenon, <3>1, <4>2 DEF Listed, Dots
    <3> HIDE DEF m
    <3>4. /\ dir' \in Stream /\ dir'.stayed = dir.stayed \ {m}
          /\ \A n \in Listed : Judged(dir, Listed, n) => Judged(dir', Listed', n)
      BY Zenon, <2>1, <2>4, <3>1, <3>2, <3>3, JudgedUnlink
    <3> QED BY Zenon, <1>1, <2>1, <2>5, <3>1, <3>4 DEF StreamInv
  <2>8. CASE op.type # "Link" /\ ~(op.type = "Unlink" /\ m \in Bound(tables))
    <3>1. Bound(tables)' = Bound(tables)
      BY <1>1, <2>3, <2>8, Binds DEF Bound
    <3>2. dir' = dir
      BY Zenon, <1>1, <2>8 DEF Watch
    <3>3. Listed' = Listed
      BY Zenon, <3>1 DEF Listed, Dots
    <3> QED BY Zenon, <1>1, <2>1, <3>1, <3>2, <3>3 DEF StreamInv
  <2> QED BY Zenon, <2>6, <2>7, <2>8
<1> QED BY Zenon, <1>2, <1>3

(* The other steps close the stream, or leave it and the names alone.       *)
LEMMA OtherStream ==
  ASSUME SInv,
         \/ dir' = Closed
         \/ pc # "serve" /\ dir' = dir
         \/ pc' = pc /\ dir' = dir /\ tables'.dirs = tables.dirs
  PROVE  StreamInv'
<1>1. CASE dir' = Closed
  BY Zenon, <1>1 DEF StreamInv
<1>2. CASE pc # "serve" /\ dir' = dir
  BY Zenon, <1>2 DEF SInv, StreamInv
<1>3. CASE pc' = pc /\ dir' = dir /\ tables'.dirs = tables.dirs
  <2>1. Bound(tables)' = Bound(tables)
    BY Zenon, <1>3 DEF Bound
  <2>2. Listed' = Listed
    BY Zenon, <2>1 DEF Listed, Dots
  <2> QED BY Zenon, <1>3, <2>1, <2>2 DEF SInv, StreamInv
<1> QED BY Zenon, <1>1, <1>2, <1>3

LEMMA StreamStep == SInv /\ [Next]_vars => SInv'
<1> SUFFICES ASSUME SInv, [Next]_vars PROVE SInv'
  BY Zenon
<1>1. RInv'
  BY Zenon, ReplayStep DEF SInv
<1>2. StreamInv'
  <2>1. CASE Start \/ CreateDisk \/ FormatRoot \/ Open
    <3>1. pc # "serve" /\ dir' = dir
      BY Zenon, <2>1 DEF Start, CreateDisk, FormatRoot, Open
    <3> QED BY Zenon, <3>1, OtherStream
  <2>2. CASE CreateFails \/ OpenFails \/ CloseDir \/ Kill \/ PowerLoss
    <3>1. dir' = Closed
      BY Zenon, <2>2 DEF CreateFails, OpenFails, CloseDir, Kill, PowerLoss, Down, Stopped
    <3> QED BY Zenon, <3>1, OtherStream
  <2>3. CASE CommitFails
    <3>1. dir' = Closed \/ (pc' = pc /\ dir' = dir /\ tables' = tables)
      BY Zenon, <2>3 DEF CommitFails, Down, Stopped
    <3> QED BY Zenon, <3>1, OtherStream
  <2>4. ASSUME NEW n \in Names, Create(n) \/ UnlinkName(n) PROVE StreamInv'
    <3>1. pc = "serve" /\ pc' = pc /\ dir' = dir
      BY Zenon, <2>4 DEF Create, UnlinkName, Apply, Idle
    <3>2. tables \in Shaped
      BY Zenon, <3>1 DEF SInv, RInv, ViewInv
    <3>3. tables'.dirs = tables.dirs
      BY Zenon, <2>4, <3>2 DEF Create, UnlinkName, Shaped
    <3> QED BY Zenon, <3>1, <3>3, OtherStream
  <2>5. CASE CreateLink \/ UNCHANGED vars
    <3>1. pc' = pc /\ dir' = dir /\ tables' = tables
      BY Zenon, <2>5 DEF CreateLink, Apply, vars, daemon
    <3> QED BY Zenon, <3>1, OtherStream
  <2>6. ASSUME NEW d \in Disk, Disappear(d) PROVE StreamInv'
    <3>1. pc # "serve" /\ dir' = dir
      BY Zenon, <2>6 DEF Disappear
    <3> QED BY Zenon, <3>1, OtherStream
  <2>7. CASE Commit
    BY Zenon, <2>7, CommitStream
  <2>8. CASE OpenDir
    BY Zenon, <2>8, OpenDirStream
  <2>9. ASSUME NEW room \in 1 .. MaxPage, ReadDir(room) PROVE StreamInv'
    BY Zenon, <2>9, ReadDirStream
  <2> QED BY Zenon, <2>1, <2>2, <2>3, <2>4, <2>5, <2>6, <2>7, <2>8, <2>9 DEF Next
<1> QED BY Zenon, <1>1, <1>2 DEF SInv

(* How often a sequence has n.                                              *)
LEMMA Counted ==
  ASSUME NEW g \in Seq(Int), NEW n
  PROVE  LET T == {i \in DOMAIN g : g[i] = n}
         IN  (Cardinality(T) = 0 => ~Has(g, n)) /\ (Cardinality(T) > 1 => Twice(g, n))
<1> DEFINE T == {i \in DOMAIN g : g[i] = n}
<1>1. IsFiniteSet(T)
  <2>1. IsFiniteSet(1 .. Len(g))
    BY FS_Interval
  <2>2. T \in SUBSET (1 .. Len(g))
    OBVIOUS
  <2> QED BY Zenon, <2>1, <2>2, FS_Subset
<1>2. Cardinality(T) = 0 => ~Has(g, n)
  <2>1. T = {} => ~Has(g, n)
    BY Zenon DEF Has
  <2> HIDE DEF T
  <2> QED BY Zenon, <1>1, <2>1, FS_EmptySet
<1>3. ~Twice(g, n) => ~(Cardinality(T) > 1)
  <2> SUFFICES ASSUME ~Twice(g, n) PROVE ~(Cardinality(T) > 1)
    BY Zenon
  <2>1. \A i, j \in T : i = j
    BY Zenon DEF Twice
  <2> HIDE DEF T
  <2>2. CASE T = {}
    BY <2>2, FS_EmptySet
  <2>3. CASE T # {}
    <3>1. PICK i : T = {i}
      BY <2>1, <2>3
    <3>2. Cardinality(T) = 1
      BY Zenon, <3>1, FS_Singleton
    <3> QED BY <3>2
  <2> QED BY Zenon, <2>2, <2>3
<1> QED BY Zenon, <1>2, <1>3

(* A directory stream returns a name that is there all the time, exactly    *)
(* once, for any names, pages and calls between them, unless a name sorted  *)
(* before it went or came meanwhile.  readdir counts entries, so a name is  *)
(* behind the stream's offset just when it has been returned; a name that   *)
(* goes moves it back by one, and one that comes moves it on.               *)
THEOREM ListedOnce == Spec => []ListsOnce
<1>1. Init => SInv
  BY Zenon, InitRInv DEF Init, SInv, StreamInv
<1>2. SInv => ListsOnce
  <2> SUFFICES ASSUME SInv, dir.open, NEW n \in dir.stayed \cup Dots
               PROVE  /\ dir.end /\ Times(n) = 0 => \E m \in dir.went : m < n
                      /\ Times(n) > 1 => \E m \in dir.came : m < n
    BY Zenon DEF ListsOnce, Dots
  <2>1. dir \in Stream /\ Judged(dir, Listed, n)
    BY DEF SInv, StreamInv, Closed
  <2>2. dir.got \in Seq(Int)
    BY Zenon, <2>1 DEF Stream
  <2>3. (Times(n) = 0 => ~Has(dir.got, n)) /\ (Times(n) > 1 => Twice(dir.got, n))
    BY Zenon, <2>2, Counted DEF Times
  <2> QED BY Zenon, <2>1, <2>3 DEF Judged
<1> QED BY <1>1, <1>2, StreamStep, PTL DEF Spec
=============================================================================
