# TartineFS: specifications and proofs

TLA+ models of TartineFS, TLC configurations that check them on small
instances, and TLAPS proofs of the central theorems for instances of any size.

## The system

A pool is a set of disks (files, in the prototype). The first two hold the
metadata log as well as data, the others data only.

| part | state | operations that change it |
|---|---|---|
| metadata log (`tartine-meta/lib.rs`, `wal.rs`) | log region of two disks, group (primary, backup, epoch) | `commit`, `fence_backup`, `promote_new_backup`; `scan` at open |
| metadata store (`store.rs`) | log cursor, redb tables (rebuilt at every open), `next_inode` | `open`, `apply`, `alloc_inode` |
| pool (`pool.rs`) | one allocation cursor per disk | `format`, `open`, `create_file`, `unlink`, `set_redundancy`, `append`, `begin_convert`, `complete_convert`, `write` |
| segments (`tartine-core/segment.rs`, `disk.rs`) | data region of a disk | `SegmentWriter::append`, `sync`; `scan` at open |
| placement (`tartine-kcore/placement.rs`, `tartine-core/placement.rs`) | none | `hrw_select_one`, `place_redundancy` |
| file modes (`tartine-kcore/write_path.rs`) | none | `classify_write`, `begin_convert`, `complete_convert` |
| FUSE file system (`tartine-fuse`) | a mutex over the pool | `lookup`, `create`, `unlink`, `read`, `write`, `setattr`, ioctls |
| codec, ioctl buffers, policy syntax (`codec.rs`, `ioctl.rs`, `redundancy_spec.rs`) | none | encoding and decoding |
| kernel module (`kernel/`) | slab cache, registrations, one mount, in-core inodes | init and exit, `fill_super`, `put_super`, `iget`, unlocked ioctls, `write_iter` |
| daemon (`tartined`) | the disk files | format or open, by which of them exist |
| command line tool (`tartinectl`) | none | one ioctl per command |

A write goes through all of it: TartineFs classifies it by the file's mode, the
pool places it, every replica is written and synced on its disk, and one
metadata operation is committed to the log on the primary and then the backup.
After a restart the tables are replayed from the primary's log and the cursors
recomputed from the segments.

What makes this hard is that a process can be killed (the page cache survives)
or the machine can lose power (it does not) between any two system calls, that
each system call can fail, and that what a restart sees is whatever the scans
make of the disks. The hazards are listed, each at its line, in `PROJECT.json`.

## Modules

| module | models | its steps |
|---|---|---|
| `DurableLog` | the promise: an acknowledged operation keeps its position through every crash | (abstract) |
| `MetaWal` | `MetaReplicator`, `wal::scan`, the log half of `MetaStore` | one per system call of `commit`, per round of `scan` |
| `MetaView` | `apply_locally`, the mode state machine | operators on the tables |
| `MetaStore` | `MetaWal` and `MetaView` composed with the calls of `Pool` and `TartineFs` | one per `apply`, so that crashes come between two |
| `PoolData` | chunks, extents, cursors, segment scan, reads | one per system call on a replica |
| `Placement`, `FixedLog` | `hrw_select_one`, `place_redundancy`; `neg_log2_q16` | one per candidate visited; a recursive function, one round per binary place |
| `Mount` | `tartined`'s start, `format_with_classes`, `open_with_classes`, the name space of `TartineFs` with its paged `readdir` | one per disk file, per operation, per page |
| `KernelModule` | `kernel/tartine_main.c` | one per registration, per step of a mount, per access of an ioctl to an inode |
| `Codec`, `MetaCodec` | `codec.rs` | one layout per `encode_x` and `decode_x`, interpreted by `Write` and `Read` |
| `PolicyPath` | `tartinectl file set-redundancy` and `get-redundancy` down to log and record, with `ioctl.rs` and `redundancy_spec.rs` | one per command, and per other operation |
| `*Proofs`, `MetaWalRefinement`, `MetaStoreLog` | theorems | |
| `MC*` | constants for TLC | |

**MetaWal.** `cache` is what `read_at` returns, `stable` what survives a power
loss for certain. A write changes `cache`, a sync copies it to `stable`. A power
loss leaves each unsynced slot old, new or cut off (`Partial`), a failed write
leaves it old or cut off, and a failed sync may have put some slots on the disk,
so that a frame that is overwritten later can still come back. `pc` is the place in `commit` or `scan`; `view` is
the sequence of operations applied to the tables. Frames all have the size of a
slot here; `MetaStore` adds the sizes of frames (`FrameLen`), so that a leftover
frame is only found if the scan arrives at its first byte (`Aligned`). `promote_new_backup` has no caller in the repository; its
precondition (the caller has copied the log) is the operator `Resynced`.

**MetaStore.** The calls that lead to an operation, for inodes the kernel can
name. `create_file` and MAKE_WRITABLE with WAIT are two operations; `call` is
where the call stands between them. `promise` is the tables at the last
acknowledgement. The size of a frame follows from its operation, the length of a
name (`NameLen`) and the number of replicas, which is the same for all files
(`Replicas`); a size that two operations share is one too. `openFails` notes how
opens have failed: replay `"refused"` an operation, or `decode_op` `"panicked"`.
The runs have one metadata disk: replay reads the primary only, and `MetaWal`
shows what the backup adds. Names are a symmetry set.

**PoolData.** A disk is a row of cells. A chunk is a header cell and its bytes;
the header stands for the checksum by carrying the payload it was computed from.
An extent has no header. Placement is any choice of distinct disks, which
includes the one `Placement` computes. An operation that the metadata store
refused or that a crash interrupted is kept in `limbo` and replayed or not,
which is what `MetaWal` shows of it. A replayed frame that a kill left unsynced
may go at a later power loss and bring up what lies behind it (`store_stale`);
`logEnd` notes that, and the module follows it no further. A scheme may have no
slot (`Replicas = 0`): an append is then committed without a write, and a read
of it fails (`Readable`), as in `read_replicated`. `Roomy` keeps extents within
the cells, where the code checks nothing; it is a bound.

**Placement, FixedLog.** Hash values and weights are arbitrary, so that ties
occur; in `Placement` the logarithm is an arbitrary function `NegLog2`. The
candidates are visited in any order, because they come from a `HashMap`. After
the first placement a disk leaves and the key is placed again. `FixedLog` is the
logarithm itself, with the widths of hash, mantissa and result as parameters.

**Mount.** `exists` is the set of disk files, `log` what a scan of the primary
finds and `sure` how much of it is synced; `tail` and `kept` are the slot behind
it in the page cache and on the disk. `Start` looks for all files and chooses;
`CreateDisk` is one `FileDisk::create`; a format that fails or is killed leaves
what it has made. A commit succeeds, is refused or is cut off in one step, and
leaves of its frame what `MetaWal` allows: all, nothing, a torn frame or a stub.
`Kill` ends the process, `PowerLoss` the machine. A power loss that takes a frame
which a scan had found unsynced may bring up leftovers behind it (`store_stale`);
it sets `lost`, like the disappearance of the primary's file. A directory stream
(`dir`) keeps what it was given and which names stayed, went and came while it
was open. A disk file may disappear while the daemon is down.

**KernelModule.** `slab[o]` is an object of the slab cache: the inode that uses
it (or `"free"`, or `"rcu"` while its free is deferred) and what its memory
holds, which stays when the object is reused. The ioctls take no lock: every
load and store of the mode, of `n_redundancy_slots` and of a slot is a step, in
any order for the stores of SET_REDUNDANCY and the loads of the `memcpy`. The
file system has no `lookup` yet, so that `Open` stands for the caller of
`tartine_iget`.

**Codec, MetaCodec, PolicyPath.** Bytes are numbers, integers keep their width,
and no integer above 255 is written. What an encode function writes and what its
counterpart reads are two layouts, listed statement by statement, since nothing
in the code ties one to the other; the same goes for `disk_class_to_wire` and
`disk_class_from_wire`, and for `format_slot` and `parse_slot`. Text is a sequence
of terms, splitting and trimming it is left out; the digits of a disk id are in
it, since it is parsed with dashes and without leading zeroes and printed with 32
digits. `ops` and `asked` record
what the bytes should mean. Operations that `apply_locally` refuses are in
`MetaStore`, crashes inside `commit` in `MetaWal`; here an operation is one step
and the daemon may stop between two.

## Runs

Passing runs:

| run | instance | shows |
|---|---|---|
| `wal` | 2 disks, 4 operations in a region for 3, a kill, 2 power losses, 2 faults, a failing read of the scan, a promotion | acknowledged operations survive on the primary and on all members, and stay visible; no replica runs ahead; nothing unsynced is shown before the first kill; members of the group are complete and a fenced backup is out, up to the first restart; a restart replays what the store shows, and one frame more at most; every call returns; `DurableLog` is implemented |
| `store_crash` | 6 operations, 2 names, a kill, a power loss, a fault, a failing read of the scan | files are never lost, shortened, converted back or shared by two names; no entry without inode and no size that differs from the stored bytes, even when leftover frames are replayed; open is refused only after a refused operation and panics only after a power loss or a failing disk call, unless there are leftovers |
| `pool` | 2 disks, 2 files, one of which is converted and written at random, 2 writes, a kill, a power loss, a fault, a failing read at the restart | committed content reads back from every replica and cursors stand behind it, until a restart loses the end of the data or a power loss that of the log |
| `placement` | every pool of 3 disks, up to 3 slots; hashes of 5 bits | best disk per slot, no disk twice, minimal movement; a higher hash wins |
| `mount` | 3 disk files, 2 names, a kill, a power loss, a fault, a file that disappears, pages of 1 and 2 entries | no start takes a frame out of a log; names and root directory are kept; a complete pool is mounted by and by, unless a stub stands behind its log; `readdir` returns what stayed exactly once |
| `kernel` | 2 files and the root in 2 slab objects, 2 threads, 2 slots | the cache outlives inodes and their grace periods; failed loads and mounts are unwound; conversions begin once and are not taken back unless calls overlap; GET_REDUNDANCY without overlap returns what was set |
| `policy_path` | 4 operations, 2 slots in an ioctl buffer, texts of up to 3 terms | every payload decodes to its operation and no shorter one decodes at all; a policy reaches the record whole, survives other operations and restarts, and prints as text that sets it again |

Several statements of the documentation hold up to a point. The passing
properties say up to which, in their condition:

| property | condition | what happens beyond it |
|---|---|---|
| `GroupComplete` | no restart yet | an interrupted commit leaves a hole on the backup (`wal_backup_gap`); a fenced backup is a member again, because the group is built from the command line |
| `VisibleIsDurable` | no kill yet | the unsynced frame of a killed process is replayed from the page cache |
| `AckedSurvives`, `AckedVisible`, `MembersHoldAck`, `ReplicaBehindPrimary`, `RestartReplaysView` | slot inside the region (`InWal`), no failed read yet (`AllRead`) | `apply` does not check the region's capacity, `scan` does; a read error ends the scan, and the next operation overwrites what it missed |
| the properties of `store_crash` | no failed read yet (`AllRead`) | as above; the run does not go on behind one (`UpToReadError`) |
| `PromisesKept`, `OneNamePerFile`, `OpenFailsForAReason`, second half of `RestartReplaysView` | not both kinds of crash (`NoLeftovers`) | a leftover frame is replayed behind newer ones (`store_stale`) |
| `CommittedReadable`, `ReplicasHold`, `CursorIsFree` | `dataEnd # "lost"` | after a restart with extents on the disk, or with a read error, the cursor stands on committed data (`pool_reopen`) |
| the same | `logEnd # "lost"` | a power loss takes a replayed unsynced frame, and leftovers can come up (`store_stale`) |
| `CommittedReadable` | at least one slot | the policy `0` is accepted; appends to such a file are acknowledged and stored nowhere |
| `RootServed` | no format cut off after its first file (`partial`), as for `NamesKept` | the next start finds all files and opens a pool without a root directory |
| `NamesKept` | primary never away, no power loss with a replayed unsynced frame (`lost`) | with its file gone the next start formats a new one; leftovers can come up |
| `WholePoolMounts` | no stub behind the log | every open panics (`store_torn`) |
| `ListsOnce` | no name sorted before it went or came | `readdir` counts entries: a name that goes shifts the next one out of the page |
| `BeginsOnce` | no overlap (`raced`) | two unlocked MAKE_WRITABLE calls both begin the conversion |
| `QuietGet` | no overlap (`alone`, `mixed`) | a GET_REDUNDANCY beside a SET_REDUNDANCY returns a mixture, and two of the latter leave one |
| `ShownParses` | at least one slot | `0` is accepted as a policy, is printed as the empty text, and that is refused; the comment on `format` (`redundancy_spec.rs:130`) says that it round-trips |
| `SlotsGetBest` | (none) | it implies that an unconstrained slot can take the disk a later slot is pinned to |

`ScanPanics` is part of the models: a frame cut off after its magic has length and
checksum zero, passes the scan, and makes `decode_op` panic at every open. The
safety properties hold with it, and `OpenFailsForAReason` says when it can happen;
`store_torn` is the run about it.

Not under a run: a comment on `neg_log2_q16` (`placement.rs:86`) says "exact to the
last bit". A hash just above a step of the logarithm comes out one unit higher,
because the mantissa is truncated. It takes the code's widths to say so of the
code, and those are beyond TLC's integers; `HigherHashWins` does not depend on it.
A conversion begun without WAIT is never completed, which `tartined`'s
`main.rs:26-30` says itself.

Runs that refute a statement of the repository (the quotations are under
"findings" in `PROJECT.json`):

| run | statement | what happens |
|---|---|---|
| `wal_backup_gap` | either disk alone has everything | kill between primary and backup leaves a hole on the backup for good |
| `store_misuse` | replay-at-open is always correct | a refused operation is in the log and fails every open |
| `store_stale` | replay gives a causally consistent state | a leftover frame is replayed behind newer ones |
| `store_torn` | a torn final record is treated as absent | a power loss leaves a header with its magic alone, and every open panics |
| `pool_reopen` | the cursor is the next free byte | the scan does not see extents, the next write overwrites one |

**Bounds.** Names, files, disks, threads and slots are as many as a violation
needs two of. Crashes and faults are counted, because a scenario is a particular
combination of them; two crashes are needed to replay something the first one
left behind. In `wal` the log is one slot longer than its region. The kernel has
one object less than there are inodes, so that objects are reused. Ioctl buffers
have room for 2 slots instead of 16, so that a text one slot too long is tried;
four operations take a file from creation to a random write. Hashes have 5 bits
and results 2 binary places, which gives scores that tie. Deadlock is checked in `kernel` and `mount`, where something can always
happen; the other instances stop when their bounds are used up.

**Fairness.** `FairSpec` of `MetaWal`: the steps inside `commit` and inside
`scan` are weakly fair, since both are straight-line code that waits for nothing
but disk calls, which return or fail. Nothing is assumed about calls being made
or the process being started. `FairSpec` of `Mount` adds that a daemon that is
down is started again, without which nothing can be said of a mount; the steps
of a start and of a commit are fair for the same reason as above.

## Proofs

All theorems are for every value of the constants that the named assumptions of
the modules allow (`DiskAssumption`, `BoundAssumption`, `StoreAssumption`, ...):
any disks, names, files, threads, crashes and faults. TLC evaluates the
assumptions in the runs of these modules, and the inductive invariants were
checked with TLC before they were proved. The type invariants of `MetaWal`,
`Placement`, `KernelModule` and `Mount` are proved and not run.

**MetaWalProofs.** `TypeCorrect`; `Durability` (`AckedSurvives`),
`MemberDurability` (`MembersHoldAck`), `ReplicaPrefix` (`ReplicaBehindPrimary`)
and `Recovery` (`AckedVisible`). None of the properties is inductive alone.
`IInv` adds that acknowledged slots and the frames on replicas lie below the
cursor of a running process, that the slots below the cursor are readable, that
the frame in flight is in the primary's slot under the cursor at each stage of
`commit`, and that the scan's view is the log as far as it has read. One lemma
(`DurabilityStep`) shows that whatever touches no synced slot below the cursor
keeps all durability properties; each action is then shown to be such a step, or
to add only frames and acknowledgements that are durable by then. `IInv` holds
until a read of the scan fails, which is as far as the properties go.

**MetaWalRefinement.** `Refinement`: `MetaWal` implements `DurableLog`, with
failing reads. The additional invariant says that
no operation is in two slots of the primary, in the cache or on the disk
(`OncePerSlot`), and none that was not issued (`OnlyIssued`): an operation is
written once, and a crash only chooses between what a slot holds and held.
`Visibility` (`VisibleIsDurable`) and `GroupIsComplete` (`GroupComplete`), from
what is synced at each stage before the first kill (`SyncedBelow`) and what each
member holds (`GroupInv`). `RestartShowsView` (`RestartReplaysView`): below the
cursor the log is what was applied, and while kills and power losses do not both
happen nothing but the slot under the cursor is ever written and not applied.

**MetaStoreLog, MetaStoreProofs.** The first has what every step does to the
store's log, the second what that means for the tables.

- `StoreDurability`: `AckedSurvives` for the whole store. `MetaStore` is not an
  instance of `MetaWal`, because a scan may also end in the middle of a leftover
  frame (`ScanMisaligned`), and the next operation is then written there. That
  nothing acknowledged lies beyond is `AlignedSettled`: every frame up to an
  acknowledged one, or up to one that a replica holds, begins where the one before
  it ends, since it was written behind it and neither has moved.
- `NoDangling`: `NoDanglingEntry`. A `Link` is in the log, leftover or not, only
  if the `CreateInode` of its inode was acknowledged in a slot below (`LinksOK`);
  that one is durable, so that a scan has passed it and has created the inode
  (`ScanOK`). `Growth`: `FilesOnlyGrow`, from what an operation in flight takes
  for granted of the tables (`FlightOK`).
- The other properties compare the tables before a crash with those a replay
  makes. A replay is a sequence of tables, each made from the one before by
  `apply_locally` and the frame of its slot (`ReplaysTo`), and the invariant
  `ReplayOK` says that what a running process shows is where the frames below its
  cursor lead. `Sizes`
  (`SizeIsStored`) needs of the one operation that takes a size from the tables,
  `CompleteConvert`, that every replay meets it with the size it was issued with
  (`CompleteOK`), leftover or not.
- Without leftovers the log has no frame but those written behind one another
  (`TightLog`), so that every frame is replayed on the tables it was issued
  against (`FramesOK`). `OneName` (`OneNamePerFile`) and `OpenFailures`
  (`OpenFailsForAReason`) follow from it, the latter with `StubInv`: a stub is
  found only after a power loss or a failing disk call. `Promises` (`PromisesKept`): the
  frames up to the last acknowledged one stand for the promised tables
  (`PromiseOK`), and what follows only adds to them, but for touched names
  (`KeepOK`). Its hypothesis `MaxSlots <= WalCapacity` says that the log stays
  inside its region, which `apply` does not check.

**PoolDataProofs.** `ContentReadable` (`CommittedReadable`), `Replicated`
(`ReplicasHold`), `FreeCursor` (`CursorIsFree`) and `TypeCorrect` (`TypeOK`), for
any disks, files, redundancy and writes (for `ContentReadable`, at least one
slot). The invariant is about every piece that
is committed, finished by the call under way, or in `limbo`: on each of its disks
it is synced, lies before the cursor of a running pool, and, as long as only
chunks were written, ends where the recovery scan stops (`Ended`, `Placed`). So a
new write lies behind all of them, and a recomputed cursor does too. The scan is
the least set of cells closed under "what lies behind a record that starts here"
(`Stops`); that a crash or a new record changes no stop before it is proved of
that set. `ContentOK` relates the concatenation of a file's pieces to what was
written to it, with lemmas on concatenations of any number of pieces.

**PlacementProofs.** `BestPlacement` (`SlotsGetBest`), from the loop invariant
that `best` beats all visited eligible candidates and that `excluded` is what
earlier slots took; `DistinctReplicas`; `MinimalMovement`
(`LeavingMovesNothing`), because `Beats` is a strict total order, so that a slot
has one best disk and removing another does not change it; `OrderKept`
(`OthersKeepTheirOrder`): by the same argument slot after slot, the second
placement chooses what the first one did, one place earlier behind the disk that
left (`KInv`); `HashOrder` (`HigherHashWins`) for any logarithm that is antitone,
which TLC checks of `FixedLog`.

**KernelModuleProofs.** `TypeCorrect`. `CacheHeld` (`CacheOutlivesInodes`) and
`NothingHeld` (`Unwound`), because what the module and a mount hold is a function
of how far they have come (`MountInv`), and an open file is in core in exactly
one object (`CoreInv`). `BegunOnce` (`BeginsOnce`) and `AnswersHold`
(`SeenHolds`): a file is converting exactly if a conversion was begun, a second
time only by a call that met another one (`ConvInv`). `PolicyRead` (`QuietGet`):
the slots of an object in use are the file's own or still to be stored by a call
(`PolInv`), and a GET_REDUNDANCY that met no SET_REDUNDANCY has read the slots of
the policy that was last set, in whatever order.

**MountProofs.** `TypeCorrect`; `LogKept` (`LogOnlyGrows`); `RootFirst`: the
first frame of a mounted pool's log is the root directory's, unless a format was
cut off or the end of the log `lost`. `FirstInv` says where in a start the
primary's file exists and what its log begins with. `RootThere` (`RootServed`)
and `NamesThere` (`NamesKept`) are about the replay, a fold over the log. By
induction over its length one more frame is one more `apply_locally`
(`ReplayAppend`), and a stop of either kind changes the log by at most the frame
in flight (`DownReplay`, `LossReplay`), so that the tables of a mounted pool are the replay of its log
(`ViewInv`), the root is in it and its number given out (`RootInv`), and the
names are the promised ones but for those being worked on (`NamesInv`).
`ListedOnce` (`ListsOnce`): in a directory that finitely many operations have
filled, the entry at position `i` is the one with `i - 1` entries sorted below
it (`PlaceIs`), so that a stream that no name below `n` has disturbed has
returned `n` just when `n` lies before its offset (`StreamInv`).

Induction over sequences and sets is done with sets of numbers
(`SetInduction`, from the well-foundedness of `<`), since the provers cannot
instantiate an operator parameter. It reaches functions and folds, not RECURSIVE
operators.

Only model-checked:

- liveness (`CallsReturn`, `WholePoolMounts`), which the proof system does not do
  under fairness;
- the codec and `PolicyPath` (`LogDecodes`, `NoShorterReading`, `ShownParses`,
  `PolicyKept`), which interpret layouts with RECURSIVE operators;
- the types of the store (`StoreTypeOK`), though the invariants above contain them.

## Not modelled

| part | reason |
|---|---|
| hash, checksum | 64-bit arithmetic without state; replaced by arbitrary values and by a checksum without collisions |
| failures of redb, a poisoned mutex | the database is a cache of the log; a panic ends the process in effect |
| arguments of `tartined` and `tartinectl` | text, without state |
| `setattr`, `statfs`, the control device's ioctl | change no state |
| fixed fields of MAKE_WRITABLE and GET_STATE | two integers at constant offsets |
| `SuperBlock` (`tartine-proto`) | a type that nothing writes or reads |
| rebalancer, scrubber, checkpointing, erasure coding | described in `DESIGN.md`, not in the code |
