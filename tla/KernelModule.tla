---------------------------- MODULE KernelModule -----------------------------
(***************************************************************************)
(* The kernel module, kernel/tartine_main.c: loading and unloading it,     *)
(* mounting and unmounting one disk, the life of an in-core inode in the   *)
(* slab cache, and the ioctls that change an inode.                        *)
(*                                                                         *)
(* The ioctls are unlocked_ioctl handlers and take no lock: two threads    *)
(* that hold the same file open run them at the same time, one access to   *)
(* the inode after another.  Neither C nor the processor orders the stores *)
(* of SET_REDUNDANCY or the loads of GET_REDUNDANCY's memcpy.  One word    *)
(* stands for one slot of a policy.                                        *)
(*                                                                         *)
(* tartine_dir_iops has no lookup yet.  Open stands for the call of        *)
(* tartine_iget it will make.                                              *)
(***************************************************************************)
EXTENDS Integers, Sequences, FiniteSets

CONSTANTS
    Root,      \* TARTINE_ROOT_INO
    Files,     \* inode numbers of regular files
    Objs,      \* objects of the slab cache
    Threads,   \* threads with open files
    MaxSlots,  \* TARTINE_MAX_REDUNDANCY_SLOTS
    Marks,     \* what tells two slots of a file apart
    Schemes    \* the sequences of slots SET_REDUNDANCY is called with

ASSUME KernelAssumption ==
    /\ Root \notin Files /\ (Files \cup {Root}) \cap {"free", "rcu", "none"} = {}
    /\ MaxSlots \in Nat /\ Schemes \subseteq Seq(Marks)

(* What SET_REDUNDANCY of a file may put into a slot, and 0 of a cleared    *)
(* buffer.                                                                  *)
Words == Files \X Marks
Zeros == [i \in 1 .. MaxSlots |-> <<>>]
Slots == [1 .. MaxSlots -> Words \cup {<<>>}]

VARIABLES
    stage,   \* how far tartine_init or tartine_exit has come
    cache,   \* tartine_inode_cache exists
    ctl,     \* /dev/tartine-ctl is registered
    fs,      \* the file system type is registered
    sb,      \* how far tartine_fill_super has come, "up" when mounted
    bh,      \* the superblock's buffer is held
    sbi,     \* the tartine_sb_info: "none", "live", "bad" if freed twice or lost
    slab,    \* slab[o]: who uses the object, and what its memory holds
    open,    \* open[t]: the file a thread has open
    call,    \* call[t]: the ioctl it is in
    policy,  \* history: slots the last finished SET_REDUNDANCY gave a file
    mixed,   \* history: files whose last SET_REDUNDANCY overlapped another one
    began,   \* history: calls that began a conversion of a file
    raced,   \* history: files on which two such calls overlapped
    seen     \* history: the mode the last answer a thread got told it of

module  == <<stage, cache, ctl, fs>>
mount   == <<sb, bh, sbi>>
threads == <<open, call, seen>>
history == <<policy, mixed, began, raced>>
vars    == <<module, mount, slab, threads, history>>

Inos   == Files \cup {Root}
Unused == {"free", "rcu"}
Modes  == {"AppendOnly", "Converting", "Writable"}
NoFile == "none"
NoCall == [pc |-> "none"]

(* The object of an in-core inode, and the calls running on it.             *)
InCore(f)   == \E o \in Objs : slab[o].ino = f
Obj(f)      == CHOOSE o \in Objs : slab[o].ino = f
Doing(f, p) == {t \in Threads : open[t] = f /\ call[t].pc \in p}

Init ==
    /\ stage = "out" /\ cache = FALSE /\ ctl = FALSE /\ fs = FALSE
    /\ sb = "none" /\ bh = FALSE /\ sbi = "none"
    /\ slab = [o \in Objs |-> [ino |-> "free", mode |-> "AppendOnly", n |-> 0,
                               slots |-> Zeros]]
    /\ open = [t \in Threads |-> NoFile] /\ call = [t \in Threads |-> NoCall]
    /\ seen = [t \in Threads |-> "nothing"]
    /\ policy = [f \in Files |-> <<>>] /\ mixed = {}
    /\ began = [f \in Files |-> 0] /\ raced = {}

-----------------------------------------------------------------------------
(* tartine_init.  A cache that cannot be created leaves everything as it    *)
(* was.                                                                     *)
CreateCache ==
    /\ stage = "out"
    /\ cache' = TRUE /\ stage' = "init_ctl"
    /\ UNCHANGED <<ctl, fs, mount, slab, threads, history>>

RegisterCtl ==
    /\ stage = "init_ctl"
    /\ \/ ctl' = TRUE /\ stage' = "init_fs"
       \/ ctl' = ctl /\ stage' = "destroy"
    /\ UNCHANGED <<cache, fs, mount, slab, threads, history>>

(* Mutant of RegisterFs: the failure jumps to the wrong label.              *)
RegisterFsKeepsCtl ==
    /\ stage = "init_fs"
    /\ \/ fs' = TRUE /\ stage' = "in"
       \/ fs' = fs /\ stage' = "destroy"
    /\ UNCHANGED <<cache, ctl, mount, slab, threads, history>>

RegisterFs ==
    /\ stage = "init_fs"
    /\ \/ fs' = TRUE /\ stage' = "in"
       \/ fs' = fs /\ stage' = "deregister"
    /\ UNCHANGED <<cache, ctl, mount, slab, threads, history>>

(* tartine_exit, which the kernel calls when nothing of the module is in    *)
(* use: no mount and no open file.                                          *)
UnregisterFs ==
    /\ stage = "in" /\ sb = "none"
    /\ fs' = FALSE /\ stage' = "exit_ctl"
    /\ UNCHANGED <<cache, ctl, mount, slab, threads, history>>

(* Mutant of DeregisterCtl: tartine_exit has no rcu_barrier.                *)
DeregisterCtlNoBarrier ==
    /\ stage \in {"deregister", "exit_ctl"}
    /\ ctl' = FALSE
    /\ stage' = "destroy"
    /\ UNCHANGED <<cache, fs, mount, slab, threads, history>>

DeregisterCtl ==
    /\ stage \in {"deregister", "exit_ctl"}
    /\ ctl' = FALSE
    /\ stage' = IF stage = "exit_ctl" THEN "barrier" ELSE "destroy"
    /\ UNCHANGED <<cache, fs, mount, slab, threads, history>>

RcuBarrier ==
    /\ stage = "barrier"
    /\ \A o \in Objs : slab[o].ino # "rcu"
    /\ stage' = "destroy"
    /\ UNCHANGED <<cache, ctl, fs, mount, slab, threads, history>>

DestroyCache ==
    /\ stage = "destroy"
    /\ cache' = FALSE /\ stage' = "out"
    /\ UNCHANGED <<ctl, fs, mount, slab, threads, history>>

-----------------------------------------------------------------------------
(* Mutant of AllocInode: the previous occupant's policy stays.              *)
AllocInodeKeepsPolicy(o, i) ==
    slab' = [slab EXCEPT ![o] =
        [@ EXCEPT !.ino = i, !.mode = IF i = Root THEN "Writable" ELSE "AppendOnly"]]

(* tartine_alloc_inode, and tartine_iget for a new inode: a mode, no        *)
(* policy, and the slots as they were left.                                 *)
AllocInode(o, i) ==
    slab' = [slab EXCEPT ![o] =
        [@ EXCEPT !.ino = i, !.mode = IF i = Root THEN "Writable" ELSE "AppendOnly",
                  !.n = 0]]

Free(o) == slab[o].ino = "free"

(* The VFS drops inodes: their memory is freed after a grace period.  What  *)
(* was set in core does not outlive them, and the history starts anew.      *)
Drop(is) ==
    /\ slab' = [o \in Objs |-> IF slab[o].ino \in is THEN [slab[o] EXCEPT !.ino = "rcu"]
                               ELSE slab[o]]
    /\ policy' = [f \in Files |-> IF f \in is THEN <<>> ELSE policy[f]]
    /\ mixed' = mixed \ is
    /\ began' = [f \in Files |-> IF f \in is THEN 0 ELSE began[f]]
    /\ raced' = raced \ is

Kfree == sbi' = IF sbi = "live" THEN "none" ELSE "bad"

(* sb_bread in tartine_fill_super.  If it fails nothing has happened.       *)
ReadSuper ==
    /\ fs /\ sb = "none"
    /\ bh' = TRUE /\ sb' = "read"
    /\ UNCHANGED <<sbi, module, slab, threads, history>>

(* Bad magic, bad checksum or no memory for the tartine_sb_info.            *)
RejectSuper ==
    /\ sb = "read"
    /\ bh' = FALSE /\ sb' = "none"
    /\ UNCHANGED <<sbi, module, slab, threads, history>>

AcceptSuper ==
    /\ sb = "read"
    /\ sbi' = IF sbi = "none" THEN "live" ELSE "bad"
    /\ bh' = FALSE /\ sb' = "info"
    /\ UNCHANGED <<module, slab, threads, history>>

RootInode ==
    /\ sb = "info"
    /\ \E o \in Objs : Free(o) /\ AllocInode(o, Root)
    /\ sb' = "root"
    /\ UNCHANGED <<bh, sbi, module, threads, history>>

(* out_free_sbi: no inode, or no dentry, in which case d_make_root has      *)
(* dropped the inode.                                                       *)
MountFails ==
    /\ sb \in {"info", "root"}
    /\ Drop({Root})
    /\ Kfree /\ sb' = "none"
    /\ UNCHANGED <<bh, module, threads>>

MakeRoot ==
    /\ sb = "root"
    /\ sb' = "up"
    /\ UNCHANGED <<bh, sbi, module, slab, threads, history>>

(* tartine_kill_sb: no file is open, the inodes are dropped, and then       *)
(* tartine_put_super runs.                                                  *)
Unmount ==
    /\ sb = "up" /\ \A t \in Threads : open[t] = NoFile
    /\ Drop(Inos)
    /\ Kfree /\ sb' = "none"
    /\ UNCHANGED <<bh, module, threads>>

-----------------------------------------------------------------------------
(* Mutant of IgetFile: an inode that is in core already is set up again.    *)
IgetFileAgain(f) ==
    IF InCore(f) THEN AllocInode(Obj(f), f)
    ELSE \E o \in Objs : Free(o) /\ AllocInode(o, f)

(* tartine_iget: an inode that is in core already is returned as it is.     *)
IgetFile(f) ==
    IF InCore(f) THEN UNCHANGED slab
    ELSE \E o \in Objs : Free(o) /\ AllocInode(o, f)

Open(t, f) ==
    /\ sb = "up" /\ open[t] = NoFile
    /\ IgetFile(f)
    /\ open' = [open EXCEPT ![t] = f]
    /\ UNCHANGED <<module, mount, call, seen, history>>

Close(t) ==
    /\ open[t] # NoFile /\ call[t] = NoCall
    /\ open' = [open EXCEPT ![t] = NoFile]
    /\ seen' = [seen EXCEPT ![t] = "nothing"]
    /\ UNCHANGED <<module, mount, slab, call, history>>

(* An inode nobody has open may leave the core.                             *)
Evict(f) ==
    /\ sb = "up" /\ InCore(f) /\ \A t \in Threads : open[t] # f
    /\ Drop({f})
    /\ UNCHANGED <<module, mount, threads>>

(* tartine_free_inode, run by RCU.                                          *)
FreeInode(o) ==
    /\ slab[o].ino = "rcu"
    /\ slab' = [slab EXCEPT ![o].ino = "free"]
    /\ UNCHANGED <<module, mount, threads, history>>

-----------------------------------------------------------------------------
Ready(t) == open[t] # NoFile /\ call[t] = NoCall
Mine(t)  == slab[Obj(open[t])]

(* tartine_file_write_iter on an empty file: what tartine_classify_write    *)
(* says, and no data path yet.                                              *)
WriteIter(mode, offset) ==
    CASE mode = "Writable" \/ offset = 0 -> "EOPNOTSUPP"
      [] mode = "AppendOnly" /\ offset # 0 -> "EPERM"
      [] mode = "Converting" /\ offset # 0 -> "EAGAIN"

(* tartine_file_setattr of the size: tartine_truncate_allowed.              *)
Setattr(mode) == IF mode = "Writable" THEN "EOPNOTSUPP" ELSE "EPERM"

(* TARTINE_IOC_GET_STATE; the sizes are 0.                                  *)
GetState(mode) == mode

Answers(mode) ==
    [write |-> WriteIter(mode, 0), pwrite |-> WriteIter(mode, 1),
     truncate |-> Setattr(mode), state |-> GetState(mode)]

(* A thread makes one of these calls, and learns the mode of its file if    *)
(* no other mode would have been answered like that.                        *)
Ask(t, q) ==
    /\ Ready(t)
    /\ LET mode == Mine(t).mode IN
       seen' = [seen EXCEPT ![t] =
           IF \A m \in Modes \ {mode} : Answers(m)[q] # Answers(mode)[q] THEN mode ELSE @]
    /\ UNCHANGED <<module, mount, slab, open, call, history>>

(* Mutant of MayBegin: a conversion may begin twice.                        *)
MayBeginAgain(mode) == mode \in {"AppendOnly", "Converting"}

(* tartine_begin_convert accepts the mode.                                  *)
MayBegin(mode) == mode = "AppendOnly"

(* MAKE_WRITABLE reads the mode.  It may have answered EPERM or EFAULT      *)
(* before, and it answers EALREADY if the mode is not the right one.        *)
BeginConvert(t) ==
    /\ Ready(t)
    /\ IF MayBegin(Mine(t).mode)
       THEN /\ call' = [call EXCEPT ![t] = [pc |-> "begin"]]
            /\ raced' = raced \cup (IF Doing(open[t], {"begin"}) = {} THEN {} ELSE {open[t]})
            /\ UNCHANGED seen
       ELSE /\ seen' = [seen EXCEPT ![t] = "Converting"]
            /\ UNCHANGED <<call, raced>>
    /\ UNCHANGED <<module, mount, slab, open, policy, mixed, began>>

(* It stores the new mode.  It has done so when it answers EOPNOTSUPP to a  *)
(* caller who asked it to wait.                                             *)
StoreMode(t) ==
    /\ call[t].pc = "begin"
    /\ slab' = [slab EXCEPT ![Obj(open[t])].mode = "Converting"]
    /\ began' = [began EXCEPT ![open[t]] = @ + 1]
    /\ seen' = [seen EXCEPT ![t] = "Converting"]
    /\ call' = [call EXCEPT ![t] = NoCall]
    /\ UNCHANGED <<module, mount, open, policy, mixed, raced>>

(* Calls that overlap a SET_REDUNDANCY that begins on their file learn it.  *)
Disturb(f) ==
    [t \in Threads |-> IF t \in Doing(f, {"set", "get_n", "get"})
                       THEN [call[t] EXCEPT !.alone = FALSE] ELSE call[t]]

(* The checks of SET_REDUNDANCY on a scheme of the replicated kind; the     *)
(* reserved kind and unknown ones are refused.                              *)
ValidPolicy(req) == Len(req) # 0 /\ Len(req) <= MaxSlots

SetRedundancy(t, req) ==
    /\ Ready(t)
    /\ ValidPolicy(req)
    /\ call' = [Disturb(open[t]) EXCEPT ![t] =
          [pc |-> "set", req |-> req, todo |-> 0 .. Len(req),
           alone |-> Doing(open[t], {"set"}) = {}]]
    /\ UNCHANGED <<module, mount, slab, open, seen, history>>

(* One store: n_redundancy_slots, or one slot.  After the last one the call *)
(* returns.                                                                 *)
SetStore(t, i) ==
    /\ call[t].pc = "set" /\ i \in call[t].todo
    /\ LET c == call[t]  f == open[t] IN
       /\ slab' = [slab EXCEPT ![Obj(f)] =
             IF i = 0 THEN [@ EXCEPT !.n = Len(c.req)]
                      ELSE [@ EXCEPT !.slots[i] = c.req[i]]]
       /\ IF c.todo = {i}
          THEN /\ call' = [call EXCEPT ![t] = NoCall]
               /\ policy' = [policy EXCEPT ![f] = c.req]
               /\ mixed' = IF c.alone THEN mixed \ {f} ELSE mixed \cup {f}
          ELSE /\ call' = [call EXCEPT ![t].todo = @ \ {i}]
               /\ UNCHANGED <<policy, mixed>>
    /\ UNCHANGED <<module, mount, open, seen, began, raced>>

(* GET_REDUNDANCY clears its buffer and reads n_redundancy_slots for the    *)
(* answer,                                                                  *)
GetRedundancy(t) ==
    /\ Ready(t)
    /\ call' = [call EXCEPT ![t] =
          [pc |-> "get_n", n |-> Mine(t).n, slots |-> Zeros,
           alone |-> Doing(open[t], {"set"}) = {}]]
    /\ UNCHANGED <<module, mount, slab, open, seen, history>>

(* reads it again for the length of the memcpy,                             *)
GetLength(t) ==
    /\ call[t].pc = "get_n"
    /\ call' = [call EXCEPT ![t] =
          [pc |-> "get", n |-> @.n, slots |-> @.slots, alone |-> @.alone,
           todo |-> 1 .. Mine(t).n]]
    /\ UNCHANGED <<module, mount, slab, open, seen, history>>

(* and copies the slots.                                                    *)
GetSlot(t, i) ==
    /\ call[t].pc = "get" /\ i \in call[t].todo
    /\ call' = [call EXCEPT ![t].todo = @ \ {i}, ![t].slots[i] = Mine(t).slots[i]]
    /\ UNCHANGED <<module, mount, slab, open, seen, history>>

Got(t) == call[t].pc = "get" /\ call[t].todo = {}

GetReturns(t) ==
    /\ Got(t)
    /\ call' = [call EXCEPT ![t] = NoCall]
    /\ UNCHANGED <<module, mount, slab, open, seen, history>>

-----------------------------------------------------------------------------
(* Slots carry the file they were set for, to be told from leftovers.       *)
Requests(f) == {[i \in 1 .. Len(s) |-> <<f, s[i]>>] : s \in Schemes}

Module == \/ CreateCache \/ RegisterCtl \/ RegisterFs \/ UnregisterFs
          \/ DeregisterCtl \/ RcuBarrier \/ DestroyCache

Mount == ReadSuper \/ RejectSuper \/ AcceptSuper \/ RootInode \/ MountFails \/ MakeRoot \/ Unmount

Inode == \/ \E f \in Files : (\E t \in Threads : Open(t, f)) \/ Evict(f)
         \/ \E t \in Threads : Close(t)
         \/ \E o \in Objs : FreeInode(o)

Ioctl == \E t \in Threads :
    \/ \E q \in {"write", "pwrite", "truncate", "state"} : Ask(t, q)
    \/ BeginConvert(t)
    \/ StoreMode(t)
    \/ \E req \in Requests(open[t]) : SetRedundancy(t, req)
    \/ GetRedundancy(t)
    \/ GetLength(t)
    \/ \E i \in 0 .. MaxSlots : SetStore(t, i) \/ GetSlot(t, i)
    \/ GetReturns(t)

Next == Module \/ Mount \/ Inode \/ Ioctl

Spec == Init /\ [][Next]_vars

-----------------------------------------------------------------------------
TypeOK ==
    /\ stage \in {"out", "init_ctl", "init_fs", "in", "deregister", "exit_ctl",
                  "barrier", "destroy"}
    /\ cache \in BOOLEAN /\ ctl \in BOOLEAN /\ fs \in BOOLEAN
    /\ sb \in {"none", "read", "info", "root", "up"}
    /\ bh \in BOOLEAN /\ sbi \in {"none", "live"}
    /\ slab \in [Objs -> [ino : Inos \cup Unused,
                          mode : Modes,
                          n : 0 .. MaxSlots, slots : Slots]]
    /\ open \in [Threads -> Files \cup {NoFile}]
    /\ DOMAIN call = Threads
    /\ seen \in [Threads -> Modes \cup {"nothing"}]
    /\ policy \in [Files -> Seq(Words)] /\ mixed \subseteq Files
    /\ began \in [Files -> Nat] /\ raced \subseteq Files

(* "Make sure every inode's RCU-delayed free has actually happened before   *)
(* the slab cache they came from goes away" (tartine_exit): as long as an   *)
(* object is in use, or waits for its grace period, the cache is there,     *)
(* through every mount, failed mount, unmount and reload.                   *)
CacheOutlivesInodes == (\E o \in Objs : ~Free(o)) => cache

(* A module that is not loaded, because tartine_init failed half way or     *)
(* tartine_exit is through, has nothing registered; a disk that is not      *)
(* mounted, whichever step of tartine_fill_super failed, holds no buffer    *)
(* and no tartine_sb_info, and the latter is never freed twice.             *)
Unwound ==
    /\ stage = "out" => ~cache /\ ~ctl /\ ~fs /\ sb = "none"
    /\ sb = "none" => ~bh /\ sbi = "none"
    /\ sbi # "bad"

(* A file that is in core is converting if and only if a call has begun its *)
(* conversion, and a second call has begun it again only if the two         *)
(* overlapped: MAKE_WRITABLE reads and stores the mode without a lock.      *)
BeginsOnce ==
    \A o \in Objs : slab[o].ino \in Files =>
        LET f == slab[o].ino IN
        /\ slab[o].mode = "Converting" <=> began[f] # 0
        /\ began[f] > 1 => f \in raced

(* An answer is not taken back while the file stays open: a thread that was *)
(* told of a conversion (by MAKE_WRITABLE, whether it answered 0,           *)
(* EOPNOTSUPP or EALREADY, by GET_STATE, or by a write refused with EAGAIN) *)
(* is never told later that the file is append-only, whatever other threads *)
(* open, close and ask for.                                                 *)
SeenHolds ==
    \A t \in Threads : seen[t] = "Converting" =>
        InCore(open[t]) /\ Mine(t).mode = "Converting"

(* GET_REDUNDANCY, unless a SET_REDUNDANCY runs at the same time, answers   *)
(* with the policy last set since the file came into core, and with none if *)
(* none was set; "not whatever was left in this slab object by its previous *)
(* occupant" (tartine_alloc_inode).  After two SET_REDUNDANCYs that         *)
(* overlapped it may be a mixture of the two, but of this file.             *)
QuietGet ==
    \A t \in Threads : Got(t) /\ call[t].alone =>
        LET c == call[t]  p == policy[open[t]] IN
        IF open[t] \in mixed
        THEN \A i \in 1 .. c.n : c.slots[i] \in {open[t]} \X Marks
        ELSE /\ c.n = Len(p)
             /\ \A i \in 1 .. MaxSlots : c.slots[i] = IF i <= c.n THEN p[i] ELSE <<>>
=============================================================================
