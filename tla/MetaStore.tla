------------------------------ MODULE MetaStore ------------------------------
(***************************************************************************)
(* The metadata store as the file system uses it: MetaWal's log with the   *)
(* meaning MetaView gives its operations, and the calls of Pool (pool.rs)  *)
(* and TartineFs (tartine-fuse/lib.rs) that issue them.                    *)
(*                                                                         *)
(* MetaWal's operations are numbers; payload has the MetaOp behind each.   *)
(* A call that needs two operations (create_file; MAKE_WRITABLE with WAIT) *)
(* keeps its place in call, so that a crash or a refusal can come between  *)
(* them.  TartineFs holds one mutex over Pool during a call.               *)
(***************************************************************************)
EXTENDS MetaWal, MetaView

CONSTANTS
    NameLen,   \* NameLen[n]: bytes of a name
    Replicas   \* slots of every redundancy scheme, none of which asks for a class

(* The log has room for the root directory's operation.                     *)
ASSUME StoreAssumption == WalCapacity # 0 /\ MaxSlots # 0 /\ MaxOps # 0

VARIABLES
    payload,   \* payload[o]: the MetaOp of operation o
    behind,    \* behind[o]: the operation whose frame o's frame was written behind
    tables,    \* the materialized view
    call,      \* what the caller of apply does next
    known,     \* inodes the kernel can name: Root and what lookup or create returned
    promise,   \* history: the tables when an operation was last acknowledged
    touched,   \* history: names linked or unlinked by calls since then
    misused,   \* history: apply was given an operation the tables do not allow
    openFails  \* history: how MetaStore::open has ended so far, other than well

ghosts == <<promise, touched, misused, openFails>>
store  == <<payload, behind>>
svars  == <<vars, store, tables, call, known, ghosts>>

NoCall   == [kind |-> "none"]
NoOp     == [type |-> "none"]
Serving  == pc \in Running

(* format_with_classes has committed the root directory's CreateInode, which *)
(* is operation 1 in slot 0 of both metadata disks.                         *)
StoreInit ==
    /\ cache = [d \in Disk |-> [s \in Slot |->
                   IF s = 0 /\ d \in {Primary, ConfiguredBackup} THEN 1 ELSE Empty]]
    /\ stable = cache
    /\ pc = "idle" /\ op = 0 /\ cursor = 1 /\ view = <<1>>
    /\ backup = ConfiguredBackup /\ epoch = 0 /\ fenced = {}
    /\ issued = 1
    /\ acked = {[slot |-> 0, op |-> 1,
                 members |-> {Primary, ConfiguredBackup} \ {NoDisk}]}
    /\ kills = 0 /\ losses = 0 /\ faults = 0 /\ readFaults = 0 /\ promotes = 0
    /\ payload = [o \in Op |-> IF o = 1 THEN CreateInode(Root, RootDir) ELSE NoOp]
    /\ behind = [o \in Op |-> 0]
    /\ tables = ApplyLocally(EmptyTables, CreateInode(Root, RootDir))
    /\ call = NoCall /\ known = {Root}
    /\ promise = tables /\ touched = {} /\ misused = FALSE /\ openFails = {}

-----------------------------------------------------------------------------
(* Bound: a call starts only if there is room for all its operations.       *)
Room(n) == issued + n <= MaxOps /\ cursor + n <= MaxSlots

(* What the log holds in front of the cursor.                               *)
Before == IF cursor = 0 THEN Empty ELSE cache[Primary][cursor - 1]

(* apply hands o to commit; next is where the call goes on if it succeeds.  *)
(* A write that fails ends the call.                                        *)
Issue(o, next) ==
    /\ \/ /\ PrimaryWrite
          /\ payload' = [payload EXCEPT ![issued + 1] = o]
          /\ behind' = [behind EXCEPT ![issued + 1] = Before]
          /\ call' = next
       \/ /\ PrimaryWriteFails
          /\ UNCHANGED store
          /\ call' = NoCall
    /\ touched' = IF o.type \in {"Link", "Unlink"} THEN touched \cup {o.name} ELSE touched
    /\ misused' = (misused \/ ~Valid(tables, o))
    /\ UNCHANGED <<known, promise, openFails>>

(* Mutant of Create: the entry is logged before the inode.                  *)
CreateEntryFirst(n) ==
    /\ call = NoCall /\ Room(2)
    /\ tables.dirs[n] = NoInode
    /\ tables.next \in Inode
    /\ tables' = [tables EXCEPT !.next = @ + 1]
    /\ Issue(Link(n, tables.next), NoCall)

(* TartineFs::create: lookup, then Pool::create_file, whose alloc_inode     *)
(* takes a number even if the operation is then refused.                    *)
Create(n) ==
    /\ call = NoCall /\ Room(2)
    /\ tables.dirs[n] = NoInode
    /\ tables.next \in Inode
    /\ tables' = [tables EXCEPT !.next = @ + 1]
    /\ Issue(CreateInode(tables.next, NewFile),
             [kind |-> "link", name |-> n, inode |-> tables.next])

(* The second half of create_file.                                          *)
CreateLink ==
    /\ call.kind = "link"
    /\ Issue(Link(call.name, call.inode), NoCall)
    /\ UNCHANGED tables

(* Pool::unlink does not look whether the name exists.                      *)
UnlinkFile(n) ==
    /\ call = NoCall
    /\ Issue(Unlink(n), NoCall)
    /\ UNCHANGED tables

SetRedundancy(i, s) ==
    /\ call = NoCall
    /\ Issue(SetRedundancyScheme(i, s), NoCall)
    /\ UNCHANGED tables

(* TartineFs::write of one byte at an offset: classify_write, then          *)
(* Pool::append or Pool::write, which ends in one operation.                *)
Write(i, offset) ==
    /\ call = NoCall /\ i # Root /\ i \in Files(tables)
    /\ LET rec  == tables.inodes[i]
           kind == ClassifyWrite(rec.mode, rec.size, offset)
           end  == IF offset + 1 > rec.size THEN offset + 1 ELSE rec.size
       IN /\ end <= MaxSize
          /\ \/ kind = "Append" /\ Issue(AppendChunk(i, 1), NoCall)
             \/ kind = "RandomWrite" /\ Issue(UpdateExtents(i, end), NoCall)
    /\ UNCHANGED tables

(* TARTINE_IOC_MAKE_WRITABLE, which logs BeginConvert before anything looks *)
(* at the file's mode.                                                      *)
MakeWritable(i, wait) ==
    /\ call = NoCall /\ Room(2)
    /\ Issue(BeginConvert(i), IF wait THEN [kind |-> "complete", inode |-> i] ELSE NoCall)
    /\ UNCHANGED tables

(* With WAIT: Pool::complete_convert, which copies the content read now.    *)
CompleteConversion ==
    /\ call.kind = "complete"
    /\ tables.inodes[call.inode].mode = "Converting"
    /\ Issue(CompleteConvert(call.inode, tables.inodes[call.inode].stored), NoCall)
    /\ UNCHANGED tables

(* The copy fails (no placement, a full or failing data disk).              *)
CompleteConversionFails ==
    /\ pc = "idle" /\ call.kind = "complete"
    /\ Fault
    /\ call' = NoCall
    /\ UNCHANGED <<disks, pc, op, cursor, view, group, history, store, tables, known, ghosts>>

(* What apply does once commit is done: apply_locally, whose error goes to  *)
(* the caller and ends the call.                                            *)
Materialize ==
    /\ tables' = ApplyLocally(tables, payload[op])
    /\ promise' = tables' /\ touched' = {}
    /\ call' = IF Valid(tables, payload[op]) THEN call ELSE NoCall
    /\ known' = known \cup (IF payload[op].type = "Link" THEN {payload[op].inode} ELSE {})
    /\ UNCHANGED <<store, misused, openFails>>

(* A step of commit, with or without a fault, and the end of apply.         *)
LogStep ==
    /\ Commit \/ Fail
    /\ \/ acked' # acked /\ Materialize
       \/ /\ acked' = acked
          /\ call' = IF pc' = "idle" THEN NoCall ELSE call
          /\ UNCHANGED <<store, tables, known, ghosts>>

-----------------------------------------------------------------------------
StoreCrash ==
    /\ ProcessCrash \/ PowerLoss
    /\ tables' = EmptyTables /\ call' = NoCall /\ known' = {}
    /\ UNCHANGED <<store, ghosts>>

(* Bytes of an operation's payload.  A conversion of an empty file writes   *)
(* no extent.                                                               *)
FrameLen(o) ==
    CASE o.type = "CreateInode"         -> 48 + Replicas
      [] o.type = "Link"                -> 21 + NameLen[o.name]
      [] o.type = "Unlink"              -> 13 + NameLen[o.name]
      [] o.type = "AppendChunk"         -> 29 + 24 * Replicas
      [] o.type = "BeginConvert"        -> 9
      [] o.type = "SetRedundancyScheme" -> 14 + Replicas
      [] OTHER -> IF o.len = 0 THEN 13 ELSE 33 + 24 * Replicas

(* The frame in slot s begins where the one before it ends.  This can fail  *)
(* for a frame left over from before a crash: the slot before it has since  *)
(* been given to an operation with a frame of another size.                 *)
Aligned(s) ==
    LET o == cache[Primary][s] IN
    s > 0 => FrameLen(payload[cache[Primary][s - 1]]) = FrameLen(payload[behind[o]])

(* MetaStore::open with an empty database, one replayed frame at a time.    *)
StoreOpen == Open /\ UNCHANGED <<store, tables, call, known, ghosts>>

ReplayFrame ==
    /\ ScanFrame /\ Aligned(cursor)
    /\ Valid(tables, payload[cache[Primary][cursor]])
    /\ tables' = ApplyLocally(tables, payload[cache[Primary][cursor]])
    /\ UNCHANGED <<store, call, known, ghosts>>

(* A replayed operation that apply_locally refuses makes open fail: the     *)
(* daemon exits.                                                            *)
ReplayFails ==
    /\ pc = "scan" /\ cursor \in Slot /\ cursor < WalCapacity
    /\ cache[Primary][cursor] \in Op /\ Aligned(cursor)
    /\ ~Valid(tables, payload[cache[Primary][cursor]])
    /\ pc' = "down" /\ cursor' = 0 /\ view' = <<>>
    /\ tables' = EmptyTables
    /\ openFails' = openFails \cup {"refused"}
    /\ UNCHANGED <<disks, op, group, history, bounds, store, call, known, promise, touched, misused>>

(* The scan also ends where it finds the middle of a leftover frame.        *)
ScanMisaligned ==
    /\ pc = "scan" /\ cursor \in Slot /\ cursor < WalCapacity
    /\ cache[Primary][cursor] \in Op /\ ~Aligned(cursor)
    /\ pc' = "idle"
    /\ UNCHANGED <<disks, op, cursor, view, group, history, bounds>>

Looked == {Root} \cup ({tables.dirs[n] : n \in Names} \ {NoInode})

StoreScanEnd ==
    /\ ScanEnd \/ ScanMisaligned
    /\ known' = Looked
    /\ UNCHANGED <<store, tables, call, ghosts>>

(* read_at fails in the scan: open succeeds with what was read before.      *)
StoreReadError ==
    /\ ScanReadError
    /\ known' = Looked
    /\ UNCHANGED <<store, tables, call, ghosts>>

(* decode_op panics on a stub, which ends the daemon.                       *)
StorePanics ==
    /\ ScanPanics
    /\ tables' = EmptyTables
    /\ openFails' = openFails \cup {"panicked"}
    /\ UNCHANGED <<store, call, known, promise, touched, misused>>

-----------------------------------------------------------------------------
(* The steps in which no read fails.                                        *)
StoreMove ==
    \/ \E n \in Names : Create(n)
    \/ CreateLink
    \/ \E n \in Names : UnlinkFile(n)
    \/ \E i \in known, s \in Schemes : SetRedundancy(i, s)
    \/ \E i \in known, offset \in Size : Write(i, offset)
    \/ \E i \in known, wait \in BOOLEAN : MakeWritable(i, wait)
    \/ CompleteConversion
    \/ CompleteConversionFails
    \/ LogStep
    \/ StoreCrash
    \/ StoreOpen
    \/ ReplayFrame
    \/ ReplayFails
    \/ StoreScanEnd
    \/ StorePanics

StoreNext == StoreMove \/ StoreReadError

StoreSpec == StoreInit /\ [][StoreNext]_svars

-----------------------------------------------------------------------------
StoreTypeOK ==
    /\ TypeOK
    /\ tables \in Tables /\ promise \in Tables
    /\ touched \subseteq Names /\ known \subseteq Inode
    /\ misused \in BOOLEAN /\ openFails \subseteq {"refused", "panicked"}
    /\ call.kind \in {"none", "link", "complete"}

(* Every directory entry leads to an inode, whatever was interrupted:       *)
(* create_file logs the inode before the entry.  TartineFs::lookup answers  *)
(* EIO for an entry that does not.  Like all that follows it holds until a  *)
(* read of the recovery scan fails.                                         *)
NoDanglingEntry ==
    AllRead /\ Serving => \A n \in Names : tables.dirs[n] # NoInode => tables.dirs[n] \in Files(tables)

(* A file's size is what its locator covers, after every write, conversion  *)
(* and replay; read_full_content sizes its buffer by one and copies the     *)
(* other into it.                                                           *)
SizeIsStored ==
    AllRead => \A i \in Files(tables) : tables.inodes[i].size = tables.inodes[i].stored

AtLeast(new, old) ==
    \A i \in Files(old) :
        /\ i \in Files(new)
        /\ Rank[new.inodes[i].mode] >= Rank[old.inodes[i].mode]
        /\ new.inodes[i].size >= old.inodes[i].size

(* What callers were told has happened is still so: files exist, are at     *)
(* least as long and as far converted, and names are bound as they were     *)
(* unless a later call has touched them.                                    *)
TablesKeep ==
    Serving =>
        /\ AtLeast(tables, promise)
        /\ \A n \in Names \ touched : tables.dirs[n] = promise.dirs[n]

(* A frame that a kill left unsynced behind the end of the log can outlive  *)
(* a later power loss and be replayed behind newer ones.  It takes both.    *)
NoLeftovers == kills = 0 \/ losses = 0

(* After any number of kills, or of power losses, the store that comes up   *)
(* keeps every promise apply made.                                          *)
PromisesKept == AllRead /\ NoLeftovers => TablesKeep

(* No file is reached through two names: alloc_inode never hands out the    *)
(* number of a file that exists, before or after a restart.                 *)
OneNamePerFile ==
    AllRead /\ Serving /\ NoLeftovers => \A m, n \in Names :
        m # n /\ tables.dirs[m] # NoInode => tables.dirs[m] # tables.dirs[n]

(* While the store serves, a file is never replaced, shortened or converted *)
(* back.                                                                    *)
FilesOnlyGrow == [][AllRead' /\ Serving /\ Serving' => AtLeast(tables', tables)]_svars

(* MetaStore::open has two ways not to return a store from a log of its own *)
(* making.  It returns an error only if some caller gave apply an operation *)
(* that the tables did not allow at the time, which apply logs before       *)
(* apply_locally looks; and it panics only after a power loss or a failing  *)
(* write has cut a frame off, never after kills alone.                      *)
OpenFailsForAReason ==
    AllRead /\ NoLeftovers =>
        /\ "refused" \in openFails => misused
        /\ "panicked" \in openFails => losses > 0 \/ faults > 0

-----------------------------------------------------------------------------
(* Statements of the documentation that the code does not live up to.       *)

(* "WAL replay-at-open is always correct, just unboundedly slow" (store.rs) *)
ReplayAlwaysWorks == openFails = {}

(* "Replaying whichever disk comes back reconstructs a valid, causally-     *)
(* consistent state containing every acknowledged mutation" (DESIGN.md, 6). *)
ReplayIsConsistent == ("refused" \in openFails => misused) /\ TablesKeep

(* "A torn final record is caught by the WAL's checksum framing and treated *)
(* as absent" (DESIGN.md, 6): open comes to its end on such a log.  The     *)
(* checksum of a frame that was cut off behind its magic is right.          *)
TornIsAbsent == "panicked" \notin openFails
=============================================================================
