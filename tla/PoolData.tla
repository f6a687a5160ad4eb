------------------------------ MODULE PoolData -------------------------------
(***************************************************************************)
(* Where file content goes: Pool::append, complete_convert, write, read    *)
(* and the data half of open_with_classes (tartine-meta/pool.rs), and the  *)
(* segment format and recovery scan below them (tartine-core/segment.rs,   *)
(* disk.rs).                                                               *)
(*                                                                         *)
(* A disk's data region is a row of cells.  A chunk is a record: a header  *)
(* cell and its payload.  An extent is raw bytes without a header.  Both   *)
(* go where the disk's cursor stands; a restart finds the cursor again by  *)
(* scanning records.  A byte is the number of the call that wrote it.      *)
(*                                                                         *)
(* The metadata store is taken at what MetaWal shows of it: an operation   *)
(* that commit refused, or that a crash interrupted, turns up after the    *)
(* restart or does not, unless a later one took its place in the log.      *)
(* That is followed until a power loss comes after a kill whose frame was  *)
(* not synced since: it may take that frame out of the log and bring up    *)
(* others from behind it (MetaStore's run store_stale), and history logEnd *)
(* notes it.                                                               *)
(***************************************************************************)
EXTENDS Integers, Sequences, FiniteSetsExt

CONSTANTS
    Disks, Files,
    Convertible,     \* files somebody asks to convert
    Replicas,        \* slots of every file's redundancy scheme, which may have none
    SegmentCells,    \* SEGMENT_SIZE_BYTES
    MaxCells,        \* bound: cells of a disk the model tells apart
    MaxWrites,       \* bound: append and write calls
    MaxPayload,      \* bound: bytes of one append
    MaxSize,         \* bound: bytes of a file
    MaxKills, MaxPowerLosses, MaxFaults, MaxReadFaults   \* bounds

ASSUME PoolAssumption ==
    /\ Convertible \subseteq Files
    /\ {Replicas, SegmentCells, MaxCells, MaxWrites, MaxPayload, MaxSize} \subseteq Nat
    /\ {MaxKills, MaxPowerLosses, MaxFaults, MaxReadFaults} \subseteq Nat
    /\ SegmentCells <= MaxCells

Cell == 0 .. MaxCells - 1

(* Contents of a cell.  A header carries the payload it was computed from,  *)
(* which stands for its checksum and length.  Blank is what a header whose  *)
(* first bytes alone were written looks like: an empty record, whose        *)
(* checksum of nothing is zero.                                             *)
Byte(w)       == [kind |-> "byte", write |-> w]
Header(bytes) == [kind |-> "header", bytes |-> bytes]
Zero    == Byte(0)
Garbage == [kind |-> "garbage"]
Blank   == Header(<<>>)

(* Pool::place, see module Placement: one disk for each slot, all distinct. *)
Places == {p \in [1 .. Replicas -> Disks] : \A i, j \in 1 .. Replicas : p[i] = p[j] => i = j}

VARIABLES
    cells,    \* cells[d][c]: what read_at returns now
    stable,   \* stable[d][c]: what survives a power loss for sure
    up,       \* the pool is open
    cursor,   \* DiskHandle.cursor
    meta,     \* committed InodeRecord of every file
    flight,   \* the call that is writing, NoFlight if none
    limbo,    \* a metadata operation that may turn up after a restart
    content,  \* history: what every file should read as
    dataEnd,  \* history: who knows where the data ends: a "scan" finds it; extents
              \* lie there, only the "memory" of the process knows; it is "lost"
    logEnd,   \* history: the last frame a scan of the log finds is "synced", is only
              \* "cached" for sure, or the power was lost since, and it is "lost"
    writes, kills, losses, faults, readFaults   \* how much of each bound is used

bounds == <<kills, losses, faults, readFaults>>
vars   == <<cells, stable, up, cursor, meta, flight, limbo, content, dataEnd, logEnd, writes, bounds>>

NoFlight == [op |-> "none"]

(* An entry of the DataLocator: a ChunkPointer or an Extent.                *)
Piece(replicas, bytes) == [replicas |-> replicas, bytes |-> bytes]

Init ==
    /\ cells = [d \in Disks |-> [c \in Cell |-> Zero]]
    /\ stable = cells
    /\ up = TRUE /\ cursor = [d \in Disks |-> 0]
    /\ meta = [f \in Files |-> [mode |-> "AppendOnly", pieces |-> <<>>]]
    /\ flight = NoFlight /\ limbo = NoFlight
    /\ content = [f \in Files |-> <<>>] /\ dataEnd = "scan" /\ logEnd = "synced"
    /\ writes = 0 /\ kills = 0 /\ losses = 0 /\ faults = 0 /\ readFaults = 0

-----------------------------------------------------------------------------
(* Mutant of HeaderLen: a header is skipped in extents too.                 *)
HeaderLenAlways(mode) == 1

(* Chunks are framed, extents are not.                                      *)
HeaderLen(mode) == IF mode = "Writable" THEN 0 ELSE 1

(* read_replicated at one replica of a piece.                               *)
ReadReplica(disk, mode, piece, r) ==
    [i \in 1 .. Len(piece.bytes) |-> disk[r[1]][r[2] + HeaderLen(mode) + i - 1]]

(* One sequence after another.                                              *)
FlattenSeq(seqs) ==
    IF seqs = <<>> THEN <<>>
    ELSE LET upto[i \in 1 .. Len(seqs)] == IF i = 1 THEN seqs[i] ELSE upto[i - 1] \o seqs[i]
         IN  upto[Len(seqs)]

(* read_replicated returns an error for a piece without replicas.           *)
Readable(f) == \A i \in 1 .. Len(meta[f].pieces) : meta[f].pieces[i].replicas # <<>>

(* read_full_content, which takes the first replica of every piece.         *)
ReadFull(f) ==
    LET pieces == meta[f].pieces IN
    FlattenSeq([i \in 1 .. Len(pieces) |->
        ReadReplica(cells, meta[f].mode, pieces[i], pieces[i].replicas[1])])

(* The cells a call writes on each of its disks.                            *)
Frame(fl) == IF fl.op = "AppendChunk" THEN <<Header(fl.bytes)>> \o fl.bytes ELSE fl.bytes

WriteAt(disk, d, c, data) ==
    [disk EXCEPT ![d] = [x \in Cell |-> IF x \in c .. c + Len(data) - 1
                                       THEN data[x - c + 1] ELSE @[x]]]

(* What the metadata operation of a finished call makes of a record.        *)
Applied(rec, fl) ==
    IF fl.op = "AppendChunk"
    THEN [rec EXCEPT !.pieces = Append(@, Piece(fl.done, fl.bytes))]
    ELSE [mode |-> "Writable",
          pieces |-> IF fl.bytes = <<>> THEN <<>> ELSE <<Piece(fl.done, fl.bytes)>>]

(* What the file should read as once fl has happened.                       *)
Expected(fl) == [content EXCEPT ![fl.file] = fl.want]

Idle == up /\ flight = NoFlight

(* A call begins to write; without content there is nothing to place, and   *)
(* without slots there is nowhere to write it.                              *)
Start(o, f, bytes, want) ==
    \E p \in Places :
        flight' = [op |-> o, file |-> f, bytes |-> bytes, want |-> want, disks |-> p,
                   done |-> <<>>, stage |-> IF bytes = <<>> \/ Replicas = 0 THEN "commit" ELSE "write"]

(* Bound: extents stay on the cells told apart.  The code has no such check *)
(* and writes on, past the segment.                                         *)
Roomy(n) == \A d \in Disks : cursor[d] + n <= MaxCells

-----------------------------------------------------------------------------
(* Pool::append.                                                            *)
AppendCall(f, n) ==
    /\ Idle /\ writes < MaxWrites /\ Len(content[f]) + n <= MaxSize
    /\ meta[f].mode \in {"AppendOnly", "Converting"}
    /\ writes' = writes + 1
    /\ LET new == [i \in 1 .. n |-> Byte(writes + 1)] IN
       Start("AppendChunk", f, new, content[f] \o new)
    /\ UNCHANGED <<dataEnd, logEnd, cells, stable, up, cursor, meta, limbo, content, bounds>>

(* A commit syncs the whole log.                                            *)
LogSynced == logEnd' = IF logEnd = "cached" THEN "synced" ELSE logEnd

(* Pool::begin_convert on an append-only file; MetaStore has the others.    *)
BeginConvert(f) ==
    /\ Idle /\ f \in Convertible
    /\ meta[f].mode = "AppendOnly"
    /\ meta' = [meta EXCEPT ![f].mode = "Converting"]
    /\ limbo' = NoFlight /\ LogSynced
    /\ UNCHANGED <<dataEnd, cells, stable, up, cursor, flight, content, writes, bounds>>

(* Pool::complete_convert copies what it reads now into an extent.          *)
CompleteConvert(f) ==
    /\ Idle /\ meta[f].mode = "Converting" /\ Readable(f) /\ Roomy(MaxSize)
    /\ Start("CompleteConvert", f, ReadFull(f), content[f])
    /\ UNCHANGED <<dataEnd, logEnd, cells, stable, up, cursor, meta, limbo, content, writes, bounds>>

Patched(bytes, offset, b) ==
    [i \in 1 .. Max({Len(bytes), offset + 1}) |->
        IF i = offset + 1 THEN b ELSE IF i <= Len(bytes) THEN bytes[i] ELSE Zero]

(* Pool::write of one byte: read everything, patch it, write it elsewhere.  *)
WriteCall(f, offset) ==
    /\ Idle /\ writes < MaxWrites /\ Roomy(MaxSize)
    /\ meta[f].mode = "Writable" /\ Readable(f)
    /\ writes' = writes + 1
    /\ Start("UpdateExtents", f, Patched(ReadFull(f), offset, Byte(writes + 1)),
             Patched(content[f], offset, Byte(writes + 1)))
    /\ UNCHANGED <<dataEnd, logEnd, cells, stable, up, cursor, meta, limbo, content, bounds>>

-----------------------------------------------------------------------------
Target == flight.disks[Len(flight.done) + 1]

(* Mutant of Fits: the header is not counted.                               *)
FitsWithoutHeader ==
    flight.op = "AppendChunk" => cursor[Target] + Len(flight.bytes) <= SegmentCells

(* SegmentWriter::append checks what remains of the segment; an extent is   *)
(* written without a check.                                                 *)
Fits == flight.op = "AppendChunk" => cursor[Target] + Len(Frame(flight)) <= SegmentCells

Writing(stage) == flight # NoFlight /\ flight.stage = stage

Fault == faults < MaxFaults /\ faults' = faults + 1 /\ UNCHANGED <<kills, losses, readFaults>>

WriteReplica ==
    /\ Writing("write") /\ Fits
    /\ cells' = WriteAt(cells, Target, cursor[Target], Frame(flight))
    /\ flight' = [flight EXCEPT !.stage = "sync"]
    /\ UNCHANGED <<dataEnd, logEnd, stable, up, cursor, meta, limbo, content, writes, bounds>>

(* write_at fails after some of the cells: the call returns the error, the  *)
(* replicas already written stay where they are.                            *)
WriteFails ==
    /\ Writing("write") /\ Fits /\ Fault
    /\ \E n \in 0 .. Len(Frame(flight)) :
          cells' = WriteAt(cells, Target, cursor[Target], SubSeq(Frame(flight), 1, n))
    /\ flight' = NoFlight
    /\ UNCHANGED <<dataEnd, logEnd, stable, up, cursor, meta, limbo, content, writes>>

SegmentFull ==
    /\ Writing("write") /\ ~Fits
    /\ flight' = NoFlight
    /\ UNCHANGED <<dataEnd, logEnd, cells, stable, up, cursor, meta, limbo, content, writes, bounds>>

NoteExtent ==
    dataEnd' = IF dataEnd = "scan" /\ flight.op # "AppendChunk" THEN "memory" ELSE dataEnd

(* Mutant of SyncReplica: the replica is not synced.                        *)
SyncDropped ==
    /\ Writing("sync")
    /\ cursor' = [cursor EXCEPT ![Target] = @ + Len(Frame(flight))]
    /\ flight' = [flight EXCEPT
          !.done = Append(@, <<Target, cursor[Target]>>),
          !.stage = IF Len(flight.done) + 1 = Replicas THEN "commit" ELSE "write"]
    /\ NoteExtent
    /\ UNCHANGED <<logEnd, cells, stable, up, meta, limbo, content, writes, bounds>>

(* sync succeeds and the disk's cursor moves past what was written.         *)
SyncReplica ==
    /\ Writing("sync")
    /\ stable' = [stable EXCEPT ![Target] = cells[Target]]
    /\ cursor' = [cursor EXCEPT ![Target] = @ + Len(Frame(flight))]
    /\ flight' = [flight EXCEPT
          !.done = Append(@, <<Target, cursor[Target]>>),
          !.stage = IF Len(flight.done) + 1 = Replicas THEN "commit" ELSE "write"]
    /\ NoteExtent
    /\ UNCHANGED <<logEnd, cells, up, meta, limbo, content, writes, bounds>>

(* sync fails: the cursor is not moved, so that the next call writes over   *)
(* the cells.                                                               *)
SyncFails ==
    /\ Writing("sync") /\ Fault
    /\ flight' = NoFlight
    /\ UNCHANGED <<dataEnd, logEnd, cells, stable, up, cursor, meta, limbo, content, writes>>

(* MetaStore::apply of the call's operation.                                *)
CommitCall ==
    /\ Writing("commit")
    /\ meta' = [meta EXCEPT ![flight.file] = Applied(@, flight)]
    /\ content' = Expected(flight)
    /\ flight' = NoFlight /\ limbo' = NoFlight /\ LogSynced
    /\ UNCHANGED <<dataEnd, cells, stable, up, cursor, writes, bounds>>

(* PrimaryUnavailable: the slot of the log keeps what it held, holds the    *)
(* operation or neither.                                                    *)
CommitFails ==
    /\ Writing("commit") /\ Fault
    /\ limbo' \in {limbo, flight, NoFlight}
    /\ flight' = NoFlight
    /\ UNCHANGED <<dataEnd, logEnd, cells, stable, up, cursor, meta, content, writes>>

-----------------------------------------------------------------------------
Down ==
    /\ up' = FALSE /\ flight' = NoFlight
    /\ cursor' = [d \in Disks |-> 0]
    /\ limbo' \in IF Writing("commit") THEN {limbo, flight, NoFlight} ELSE {limbo}
    /\ UNCHANGED <<dataEnd, meta, content, writes>>

(* The process dies; the page cache stays.                                  *)
Kill ==
    /\ up /\ kills < MaxKills
    /\ kills' = kills + 1
    /\ Down
    /\ logEnd' = IF logEnd = "synced" /\ limbo' # NoFlight THEN "cached" ELSE logEnd
    /\ UNCHANGED <<cells, stable, losses, faults, readFaults>>

IsHeader(x) == cells[x[1]][x[2]].kind = "header"
Unsynced    == {x \in Disks \X Cell : cells[x[1]][x[2]] # stable[x[1]][x[2]]}

(* The machine loses power: a cell that was not synced is written or not,   *)
(* and a header may be written in part.                                     *)
PowerLoss ==
    /\ up /\ losses < MaxPowerLosses
    /\ losses' = losses + 1
    /\ \E lost \in SUBSET Unsynced, torn \in SUBSET {x \in Unsynced : IsHeader(x)} :
       \E part \in {Garbage, Blank} :
          stable' = [d \in Disks |-> [c \in Cell |->
              IF <<d, c>> \in torn THEN part
              ELSE IF <<d, c>> \in lost THEN stable[d][c] ELSE cells[d][c]]]
    /\ cells' = stable'
    /\ Down
    /\ logEnd' = IF logEnd = "cached" THEN "lost" ELSE logEnd
    /\ UNCHANGED <<kills, faults, readFaults>>

-----------------------------------------------------------------------------
(* A record starts at cell c of disk d: the header is there, its length     *)
(* stays inside the segment and the checksum matches.                       *)
RecordAt(d, c) ==
    /\ c + 1 <= SegmentCells
    /\ cells[d][c].kind = "header"
    /\ c + 1 + Len(cells[d][c].bytes) <= SegmentCells
    /\ \A i \in 1 .. Len(cells[d][c].bytes) : cells[d][c + i] = cells[d][c].bytes[i]

(* The cells at which segment::scan's loop stands, one round after another. *)
ScanStops(d) ==
    LET from[c \in 0 .. MaxCells] ==
            {c} \cup (IF RecordAt(d, c) THEN from[c + 1 + Len(cells[d][c].bytes)] ELSE {})
    IN from[0]

(* Mutant of ResumeAt: resume at the last record instead of behind it.      *)
ResumeAtLast(d) ==
    Max({0} \cup {c \in ScanStops(d) : RecordAt(d, c)})

(* ScanResult.resume_at.                                                    *)
ResumeAt(d) == Max(ScanStops(d))

(* The metadata the replay finds.                                           *)
Replayed ==
    \/ UNCHANGED <<meta, content>>
    \/ /\ limbo # NoFlight
       /\ meta' = [meta EXCEPT ![limbo.file] = Applied(@, limbo)]
       /\ content' = Expected(limbo)

(* Pool::open_with_classes.                                                 *)
Open ==
    /\ ~up /\ up' = TRUE
    /\ cursor' = [d \in Disks |-> ResumeAt(d)]
    /\ dataEnd' = IF dataEnd = "memory" THEN "lost" ELSE dataEnd
    /\ Replayed /\ limbo' = NoFlight
    /\ UNCHANGED <<logEnd, cells, stable, flight, writes, bounds>>

(* read_at fails in the scan of one disk, which ends the scan there and     *)
(* is no error of open.                                                     *)
OpenReadError(d) ==
    /\ ~up /\ up' = TRUE
    /\ readFaults < MaxReadFaults /\ readFaults' = readFaults + 1
    /\ \E stop \in ScanStops(d) :
          cursor' = [e \in Disks |-> IF e = d THEN stop ELSE ResumeAt(e)]
    /\ dataEnd' = "lost"
    /\ Replayed /\ limbo' = NoFlight
    /\ UNCHANGED <<logEnd, cells, stable, flight, writes, kills, losses, faults>>

-----------------------------------------------------------------------------
Next ==
    \/ \E f \in Files, n \in 1 .. MaxPayload : AppendCall(f, n)
    \/ \E f \in Files : BeginConvert(f)
    \/ \E f \in Files : CompleteConvert(f)
    \/ \E f \in Files, offset \in 0 .. MaxSize - 1 : WriteCall(f, offset)
    \/ WriteReplica
    \/ WriteFails
    \/ SegmentFull
    \/ SyncReplica
    \/ SyncFails
    \/ CommitCall
    \/ CommitFails
    \/ Kill
    \/ PowerLoss
    \/ Open
    \/ \E d \in Disks : OpenReadError(d)

Spec == Init /\ [][Next]_vars

-----------------------------------------------------------------------------
TypeOK ==
    /\ DOMAIN cells = Disks /\ DOMAIN stable = Disks
    /\ up \in BOOLEAN
    /\ cursor \in [Disks -> 0 .. MaxCells]
    /\ \A f \in Files : meta[f].mode \in {"AppendOnly", "Converting", "Writable"}
    /\ dataEnd \in {"scan", "memory", "lost"} /\ logEnd \in {"synced", "cached", "lost"}
    /\ writes \in 0 .. MaxWrites

(* Every replica of every piece a file consists of.                         *)
Live == {x \in Files \X (1 .. MaxWrites) \X (1 .. Replicas) :
            /\ x[2] <= Len(meta[x[1]].pieces)
            /\ x[3] <= Len(meta[x[1]].pieces[x[2]].replicas)}

(* Every file reads as what its finished calls wrote: Pool::read against    *)
(* the history of append and write.  The cursor being "the next free byte   *)
(* on this disk's data region" (pool.rs, DiskHandle) is what it rests on.   *)
ReadsBack == up => \A f \in Files : Readable(f) /\ ReadFull(f) = content[f]

(* No restart has lost the end of the data, and no power loss that of the   *)
(* log.                                                                     *)
EndsKnown == dataEnd # "lost" /\ logEnd # "lost"

(* Every file reads back, whatever failed, was interrupted or was replayed, *)
(* as long as the ends of the data and of the log are known and the scheme  *)
(* has a slot: append acknowledges content for which it has none, and       *)
(* stores it nowhere.                                                       *)
CommittedReadable == EndsKnown /\ 0 < Replicas => ReadsBack

(* All replicas of a committed piece hold its bytes, synced, so that each   *)
(* of them could serve the read and a power loss takes none of them:        *)
(* append and write_whole_file_extent sync every disk before the metadata   *)
(* operation is logged.                                                     *)
ReplicasHold ==
    EndsKnown => \A x \in Live :
        LET f == x[1]  p == meta[f].pieces[x[2]]  r == p.replicas[x[3]] IN
        /\ ReadReplica(stable, meta[f].mode, p, r) = p.bytes
        /\ ReadReplica(cells, meta[f].mode, p, r) = p.bytes

(* No committed piece lies at or behind the cursor, in a running pool and   *)
(* after a restart whose scan could see all there is.                       *)
CursorIsFree ==
    up /\ EndsKnown => \A x \in Live :
        LET f == x[1]  p == meta[f].pieces[x[2]]  r == p.replicas[x[3]] IN
        r[2] + HeaderLen(meta[f].mode) + Len(p.bytes) <= cursor[r[1]]
=============================================================================
