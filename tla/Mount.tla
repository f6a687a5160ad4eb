-------------------------------- MODULE Mount --------------------------------
(***************************************************************************)
(* The daemon from its start to a mounted file system: tartined's choice   *)
(* between formatting and opening (main.rs), Pool::format_with_classes and *)
(* Pool::open_with_classes with the disk files they work on (pool.rs,      *)
(* disk.rs), and the name space TartineFs serves: create, unlink and the   *)
(* paged readdir, which other calls interleave with.                       *)
(*                                                                         *)
(* Of the disks the module keeps which files exist, the frames a scan of   *)
(* the primary's log finds, and the slot behind them, in the page cache    *)
(* and on the disk.  The steps of a commit are MetaWal's; here it          *)
(* succeeds, is refused, or is cut off by a kill or a power loss.  What    *)
(* operations mean is MetaView's.  Names are numbers, ordered as redb      *)
(* orders their bytes.                                                     *)
(*                                                                         *)
(* Frames that survive behind a lost one (MetaStore's run store_stale) are *)
(* not followed here: history lost notes where they could come up.         *)
(***************************************************************************)
EXTENDS MetaView, FiniteSets, Sequences

CONSTANTS
    DiskCount,  \* --disk options; the first disk is the primary
    MaxLog,     \* bound: frames of the log
    MaxPage,    \* bound: entries a reply buffer has room for
    MaxKills,   \* bound: ends of the process alone
    MaxLosses,  \* bound: ends of the machine
    MaxFaults,  \* bound: system calls that fail
    MaxGone     \* bound: disk files that disappear

ASSUME MountAssumption ==
    /\ DiskCount \in Nat \ {0} /\ Names \subseteq Nat
    /\ MaxPage \in Nat \ {0} /\ MaxLog \in Nat
    /\ MaxKills \in Nat /\ MaxLosses \in Nat
    /\ MaxFaults \in Nat /\ MaxGone \in Nat

Disk    == 1 .. DiskCount
Primary == 1

VARIABLES
    exists,   \* the disk files that exist
    log,      \* the operations a scan of the primary's log finds
    sure,     \* how many of them have been synced
    tail,     \* the slot behind them, as the page cache has it
    kept,     \* and as the disk has it
    pc,       \* where the daemon is
    next,     \* the disk file format_with_classes creates next
    op,       \* the operation commit is working on
    link,     \* what create_file does after it
    tables,   \* the materialized view
    dir,      \* an open directory stream: see OpenDir
    promise,  \* history: dirs when an operation was last acknowledged
    touched,  \* history: names that calls have worked on since
    partial,  \* history: a format has ended after its first file and before its end
    lost,     \* history: the primary's file has disappeared, or the power was
              \* lost while a frame that a scan had found was still unsynced
    kills, losses, faults, gone   \* how much of each bound is used

files   == <<exists, log, sure, tail, kept>>
daemon  == <<pc, next, op, link, tables>>
history == <<promise, touched, partial, lost>>
bounds  == <<kills, losses, faults, gone>>
vars    == <<files, daemon, dir, history, bounds>>

NoOp   == [type |-> "none"]
NoLink == [inode |-> NoInode]
Closed == [open |-> FALSE]

Bound(t) == {n \in Names : t.dirs[n] # NoInode}

(* The operations that format, create and unlink log.                       *)
MetaOps == {CreateInode(Root, RootDir)}
           \cup {CreateInode(i, NewFile) : i \in Inode}
           \cup {Link(n, i) : n \in Names, i \in Inode}
           \cup {Unlink(n) : n \in Names}

(* What a slot holds besides a frame, and what is in it when a write over   *)
(* it is cut off, as in MetaWal.                                            *)
Empty == [type |-> "empty"]
Torn  == [type |-> "torn"]
Stub  == [type |-> "stub"]

Content == MetaOps \cup {Empty, Torn, Stub}

Partial(c) == {c, Torn} \cup (IF c = Empty THEN {Stub} ELSE {})

Init ==
    /\ exists = {} /\ log = <<>> /\ sure = 0 /\ tail = Empty /\ kept = Empty
    /\ pc = "down" /\ next = 1 /\ op = NoOp /\ link = NoLink /\ tables = EmptyTables
    /\ dir = Closed
    /\ promise = EmptyTables.dirs /\ touched = {} /\ partial = FALSE /\ lost = FALSE
    /\ kills = 0 /\ losses = 0 /\ faults = 0 /\ gone = 0

Fault == faults < MaxFaults /\ faults' = faults + 1 /\ UNCHANGED <<kills, losses, gone>>

-----------------------------------------------------------------------------
(* Mutant of Start: main does not look for the files.                       *)
StartFormats ==
    /\ pc = "down"
    /\ pc' = "format"
    /\ next' = 1
    /\ UNCHANGED <<files, op, link, tables, dir, history, bounds>>

(* main: reopen if every disk file exists, format otherwise.                *)
Start ==
    /\ pc = "down"
    /\ pc' = IF exists = Disk THEN "open" ELSE "format"
    /\ next' = 1
    /\ UNCHANGED <<files, op, link, tables, dir, history, bounds>>

(* A file that create_new and set_len have made is all zeroes.              *)
NewLog == log' = <<>> /\ sure' = 0 /\ tail' = Empty /\ kept' = Empty

(* Mutant of CreateDisk: FileDisk::create opens a file that exists, and     *)
(* empties it.                                                              *)
CreateDiskTruncates ==
    /\ pc = "format" /\ next \in Disk
    /\ exists' = exists \cup {next}
    /\ IF next = Primary THEN NewLog ELSE UNCHANGED <<log, sure, tail, kept>>
    /\ next' = next + 1
    /\ UNCHANGED <<pc, op, link, tables, dir, history, bounds>>

(* FileDisk::create of the next file.                                       *)
CreateDisk ==
    /\ pc = "format" /\ next \in Disk \ exists
    /\ exists' = exists \cup {next}
    /\ IF next = Primary THEN NewLog ELSE UNCHANGED <<log, sure, tail, kept>>
    /\ next' = next + 1
    /\ UNCHANGED <<pc, op, link, tables, dir, history, bounds>>

(* The process is gone.                                                     *)
Stopped ==
    /\ pc' = "down" /\ op' = NoOp /\ link' = NoLink /\ tables' = EmptyTables /\ dir' = Closed
    /\ UNCHANGED next

(* The process is gone, and the slot behind the log holds c, of which the   *)
(* disk has k.  A scan takes a whole frame there for the log's next one.    *)
Down(c, k) ==
    /\ IF c \in MetaOps
       THEN log' = Append(log, c) /\ tail' = Empty /\ kept' = Empty
       ELSE log' = log /\ tail' = c /\ kept' = k
    /\ Stopped

(* FileDisk::create returns an error, and main exits: the file exists, or a *)
(* system call fails, create_new or the set_len after it.                   *)
CreateFails ==
    /\ pc = "format" /\ next \in Disk
    /\ \/ next \in exists /\ UNCHANGED <<exists, bounds>>
       \/ /\ next \notin exists /\ Fault
          /\ exists' \in {exists, exists \cup {next}}
    /\ partial' = (partial \/ next # 1 \/ exists' # exists)
    /\ Down(tail, kept)
    /\ UNCHANGED <<sure, promise, touched, lost>>

(* MetaStore::open: every frame the scan finds, in order.                   *)
Replay ==
    LET upto[i \in 0 .. Len(log)] ==
            IF i = 0 THEN EmptyTables ELSE ApplyLocally(upto[i - 1], log[i])
    IN  upto[Len(log)]

(* The rest of format_with_classes: the store on the new disks, and the     *)
(* root directory's operation.                                              *)
FormatRoot ==
    /\ pc = "format" /\ next = DiskCount + 1
    /\ tables' = Replay
    /\ pc' = "root" /\ op' = CreateInode(Root, RootDir)
    /\ UNCHANGED <<files, next, link, dir, history, bounds>>

(* Pool::open_with_classes.  A file may have gone since main looked.        *)
Open ==
    /\ pc = "open" /\ exists = Disk /\ tail # Stub
    /\ tables' = Replay
    /\ pc' = "serve"
    /\ UNCHANGED <<files, next, op, link, dir, history, bounds>>

(* A file is not there, a system call fails, or decode_op panics on the     *)
(* empty payload of a stub behind the log.                                  *)
OpenFails ==
    /\ pc = "open"
    /\ \/ (exists # Disk \/ tail = Stub) /\ UNCHANGED bounds
       \/ Fault
    /\ Down(tail, kept)
    /\ UNCHANGED <<exists, sure, history>>

-----------------------------------------------------------------------------
Idle == pc = "serve" /\ op = NoOp /\ link = NoLink

(* MetaStore::apply is given an operation.                                  *)
Apply(o) ==
    /\ op' = o
    /\ touched' = IF o.type \in {"Link", "Unlink"} THEN touched \cup {o.name} ELSE touched
    /\ UNCHANGED <<files, pc, next, dir, promise, partial, lost, bounds>>

(* TartineFs::create: EEXIST, or Pool::create_file, whose first operation   *)
(* is the inode.                                                            *)
Create(n) ==
    /\ Idle /\ Len(log) + 2 <= MaxLog
    /\ n \notin Bound(tables) /\ tables.next \in Inode
    /\ Apply(CreateInode(tables.next, NewFile))
    /\ link' = [inode |-> tables.next, name |-> n]
    /\ tables' = [tables EXCEPT !.next = @ + 1]

CreateLink ==
    /\ pc = "serve" /\ op = NoOp /\ link # NoLink
    /\ Apply(Link(link.name, link.inode))
    /\ link' = NoLink
    /\ UNCHANGED tables

(* TartineFs::unlink.  The kernel asks for it when it has looked the name   *)
(* up, and nobody else changes the directory.                               *)
UnlinkName(n) ==
    /\ Idle /\ Len(log) < MaxLog
    /\ n \in Bound(tables)
    /\ Apply(Unlink(n))
    /\ UNCHANGED <<link, tables>>

(* What an open directory stream is to be judged by: the names that were    *)
(* there all the time, those that went and those that came.                 *)
Watch(o) ==
    CASE dir.open /\ o.type = "Link" ->
           [dir EXCEPT !.came = @ \cup {o.name}]
      [] dir.open /\ o.type = "Unlink" /\ o.name \in Bound(tables) ->
           [dir EXCEPT !.stayed = @ \ {o.name}, !.went = @ \cup {o.name}]
      [] OTHER -> dir

(* The commit succeeds: the file is synced, and apply_locally shows the     *)
(* operation.  With the root directory's, format_with_classes is done and   *)
(* the pool is mounted.                                                     *)
Commit ==
    /\ op # NoOp
    /\ log' = Append(log, op) /\ sure' = Len(log') /\ tail' = Empty /\ kept' = Empty
    /\ tables' = ApplyLocally(tables, op)
    /\ dir' = Watch(op)
    /\ promise' = tables'.dirs /\ touched' = {}
    /\ pc' = "serve" /\ op' = NoOp
    /\ UNCHANGED <<exists, next, link, partial, lost, bounds>>

(* The slot when a commit is refused: the write was cut off, or it was not  *)
(* and the sync failed, with the frame on the disk or not.                  *)
Refused(c, k) == \/ c \in Partial(tail) /\ k = kept
                 \/ c = op /\ k \in {kept, op}

(* Mutant of CommitFails: format_with_classes ignores apply's error.        *)
CommitFailsIgnored ==
    /\ op # NoOp
    /\ Fault
    /\ \E c \in Partial(tail) \cup {op}, k \in {kept, op} :
          Refused(c, k) /\ tail' = c /\ kept' = k
    /\ pc' = "serve" /\ op' = NoOp /\ link' = NoLink
    /\ UNCHANGED <<exists, log, sure, next, tables, dir, history>>

(* The commit is refused: the caller gets an error, and format_with_classes *)
(* and main give up.                                                        *)
CommitFails ==
    /\ op # NoOp
    /\ Fault
    /\ \E c \in Partial(tail) \cup {op}, k \in {kept, op} :
          /\ Refused(c, k)
          /\ IF pc = "root"
             THEN Down(c, k) /\ partial' = TRUE
             ELSE /\ tail' = c /\ kept' = k
                  /\ op' = NoOp /\ link' = NoLink
                  /\ UNCHANGED <<log, pc, next, tables, dir, partial>>
    /\ UNCHANGED <<exists, sure, promise, touched, lost>>

-----------------------------------------------------------------------------
(* A process opens the root directory and reads it to its end.  The kernel  *)
(* keeps the offset of the last entry it was given.                         *)
OpenDir ==
    /\ pc = "serve" /\ ~dir.open
    /\ dir' = [open |-> TRUE, at |-> 0, got |-> <<>>, end |-> FALSE,
               stayed |-> Bound(tables), went |-> {}, came |-> {}]
    /\ UNCHANGED <<files, daemon, history, bounds>>

Dot    == -2
DotDot == -1

(* The order of the store's range scan.                                     *)
Ascending(S) == CHOOSE s \in [1 .. Cardinality(S) -> S] :
                    \A i, j \in DOMAIN s : i < j => s[i] < s[j]

(* "." and ".." and the children.                                           *)
Entries == <<Dot, DotDot>> \o Ascending(Bound(tables))

(* Mutant of Cookie: an entry's offset is its own.                          *)
CookieOfItself(i) == i

(* The offset readdir gives entry number i, counted from 0.                 *)
Cookie(i) == i + 1

(* TartineFs::readdir with a buffer that has room for some more entries; a  *)
(* reply without one is the end.                                            *)
ReadDir(room) ==
    /\ Idle /\ dir.open /\ ~dir.end
    /\ dir' = IF dir.at >= Len(Entries) THEN [dir EXCEPT !.end = TRUE]
              ELSE LET upto == IF dir.at + room < Len(Entries) THEN dir.at + room
                                                             ELSE Len(Entries)
                   IN [dir EXCEPT !.at = Cookie(upto - 1),
                                  !.got = @ \o SubSeq(Entries, dir.at + 1, upto)]
    /\ UNCHANGED <<files, daemon, history, bounds>>

CloseDir ==
    /\ dir.open
    /\ dir' = Closed
    /\ UNCHANGED <<files, daemon, history, bounds>>

-----------------------------------------------------------------------------
(* A format that ends here leaves disk files and no pool.                   *)
CutOff == pc = "root" \/ (pc = "format" /\ next # 1)

InFlight == IF op = NoOp THEN {} ELSE {op}

(* The process stops; the page cache stays.                                 *)
Kill ==
    /\ pc # "down" /\ kills < MaxKills
    /\ kills' = kills + 1
    /\ \E c \in {tail} \cup InFlight : Down(c, kept)
    /\ partial' = (partial \/ CutOff)
    /\ UNCHANGED <<exists, sure, promise, touched, lost, losses, faults, gone>>

(* What an unsynced slot may hold after a power loss.                       *)
Left == IF tail = kept /\ op = NoOp THEN {tail}
        ELSE Partial(kept) \cup {tail} \cup InFlight

(* The machine stops, and the page cache goes.  While all frames of the log *)
(* are synced, only the slot behind them is open; otherwise the log ends    *)
(* anywhere behind the synced ones.                                         *)
PowerLoss ==
    /\ losses < MaxLosses
    /\ losses' = losses + 1
    /\ IF sure = Len(log)
       THEN lost' = lost /\ \E c \in Left : Down(c, c)
       ELSE /\ lost' = TRUE
            /\ \E n \in sure .. Len(log) : log' = SubSeq(log, 1, n)
            /\ tail' \in {Empty, Torn, Stub} /\ kept' = tail'
            /\ Stopped
    /\ sure' = Len(log')
    /\ partial' = (partial \/ CutOff)
    /\ UNCHANGED <<exists, promise, touched, kills, faults, gone>>

(* A path given to the next start leads nowhere: the image was deleted or   *)
(* its volume is not there, or its directory entry, which nothing syncs,    *)
(* was lost with the power.                                                 *)
Disappear(d) ==
    /\ d \in exists /\ pc \in {"down", "open"} /\ gone < MaxGone
    /\ exists' = exists \ {d}
    /\ gone' = gone + 1
    /\ IF d = Primary THEN lost' = TRUE /\ NewLog
       ELSE UNCHANGED <<lost, log, sure, tail, kept>>
    /\ UNCHANGED <<daemon, dir, promise, touched, partial, kills, losses, faults>>

Next ==
    \/ Start \/ CreateDisk \/ CreateFails \/ FormatRoot \/ Open \/ OpenFails
    \/ \E n \in Names : Create(n) \/ UnlinkName(n)
    \/ CreateLink \/ Commit \/ CommitFails
    \/ OpenDir \/ CloseDir
    \/ \E room \in 1 .. MaxPage : ReadDir(room)
    \/ Kill \/ PowerLoss
    \/ \E d \in Disk : Disappear(d)

Spec == Init /\ [][Next]_vars

(* The daemon is started again when it is down, and what it has begun goes  *)
(* on: nothing in it waits for anything but the disks.                      *)
Starting == Start \/ CreateDisk \/ CreateFails \/ FormatRoot \/ Open \/ OpenFails
FairSpec == Spec /\ WF_vars(Starting) /\ WF_vars(Commit \/ CommitFails)

-----------------------------------------------------------------------------
TypeOK ==
    /\ exists \subseteq Disk
    /\ log \in Seq(MetaOps) /\ sure \in 0 .. Len(log)
    /\ tail \in Content /\ kept \in Content
    /\ pc \in {"down", "format", "root", "open", "serve"}
    /\ next \in 1 .. DiskCount + 1
    /\ op \in MetaOps \cup {NoOp} /\ touched \subseteq Names
    /\ partial \in BOOLEAN /\ lost \in BOOLEAN
    /\ kills \in 0 .. MaxKills /\ losses \in 0 .. MaxLosses
    /\ faults \in 0 .. MaxFaults /\ gone \in 0 .. MaxGone

IsPrefix(s, t) == Len(s) <= Len(t) /\ SubSeq(s, 1, Len(s)) = SubSeq(t, 1, Len(s))

(* No start, successful or not, takes a frame out of the log of a disk file *)
(* that is there, and a power loss none that was synced:                    *)
(* format_with_classes runs over existing files whenever one of them is     *)
(* missing, and only create_new keeps it from emptying the others.          *)
LogOnlyGrows ==
    [][(Primary \in exists /\ Primary \in exists') =>
          IsPrefix(IF losses' = losses THEN log ELSE SubSeq(log, 1, sure), log')]_vars

(* The names a mounted pool serves are those its callers were promised,     *)
(* whatever was interrupted, refused or restarted with other disk files     *)
(* missing, as long as the primary's file has never been away and no power  *)
(* loss came while a frame that a scan had found was unsynced.              *)
NamesKept ==
    pc = "serve" /\ ~lost =>
        \A n \in Names \ touched : tables.dirs[n] = promise[n]

(* "Creates the root directory inode as the WAL's first entry" (pool.rs):   *)
(* a mounted pool has its root directory, unless a format was interrupted   *)
(* after it created a file.  The next start then finds all files and opens  *)
(* a pool without one, or goes on failing.                                  *)
RootServed ==
    pc = "serve" /\ ~partial /\ ~lost => tables.inodes[Root] = RootDir

(* A pool whose disk files are all there is mounted by and by, however      *)
(* often the daemon or the machine stops on the way: open does not refuse a *)
(* log that format, create and unlink have left behind.  The one exception  *)
(* is the stub of a frame whose first bytes alone were written, which every *)
(* open panics on.                                                          *)
WholePoolMounts == exists = Disk ~> (pc = "serve" \/ exists # Disk \/ tail = Stub)

Times(n) == Cardinality({i \in DOMAIN dir.got : dir.got[i] = n})

(* A directory stream returns a name that is there all the time, exactly    *)
(* once, also with pages in between and names that come and go: it is left  *)
(* out only if a name sorted before it was unlinked meanwhile, and repeated *)
(* only if one was created.  readdir counts entries and keeps no state.     *)
ListsOnce ==
    dir.open => \A n \in dir.stayed \cup {Dot, DotDot} :
        /\ dir.end /\ Times(n) = 0 => \E m \in dir.went : m < n
        /\ Times(n) > 1 => \E m \in dir.came : m < n
=============================================================================
