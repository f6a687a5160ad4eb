-------------------------- MODULE KernelModuleProofs --------------------------
(***************************************************************************)
(* KernelModule for any number of files, slab objects, threads and slots.  *)
(*                                                                         *)
(* What the module and a mount hold is a function of how far they have     *)
(* come (MountInv).  An inode is in core in one object only, and an open   *)
(* file is in core (CoreInv): this is what the unlocked ioctls stand on.   *)
(* On it rest what holds of a file's mode and of the answers about it      *)
(* (ConvInv), and of its policy while calls store and read it (PolInv).    *)
(***************************************************************************)
EXTENDS KernelModule, TLAPS

(* The clock of a prover also runs while the next obligation is prepared.   *)
USE SMTT(20)

Objects == [ino : Inos \cup Unused, mode : Modes, n : 0 .. MaxSlots, slots : Slots]

(* The frames of the ioctls.                                                *)
Begins == [pc : {"begin"}]
Sets   == [pc : {"set"}, req : Seq(Words), todo : SUBSET (0 .. MaxSlots), alone : BOOLEAN]
GetNs  == [pc : {"get_n"}, n : 0 .. MaxSlots, slots : Slots, alone : BOOLEAN]
Gets   == [pc : {"get"}, n : 0 .. MaxSlots, slots : Slots, alone : BOOLEAN,
           todo : SUBSET (1 .. MaxSlots)]
Calls  == {NoCall} \cup Begins \cup Sets \cup GetNs \cup Gets

CallOK ==
    /\ call \in [Threads -> Calls]
    /\ \A t \in Threads :
          /\ call[t].pc = "set" => /\ Len(call[t].req) <= MaxSlots
                                  /\ call[t].todo \subseteq 0 .. Len(call[t].req)
          /\ call[t].pc # "none" => open[t] \in Files

(* What is registered and held at each stage of the module and of a mount.  *)
Quiet == {"out", "init_ctl", "init_fs", "deregister", "destroy"}

MountInv ==
    /\ cache <=> stage # "out"
    /\ ctl <=> stage \in {"init_fs", "in", "deregister", "exit_ctl"}
    /\ fs <=> stage = "in"
    /\ sb # "none" => stage = "in"
    /\ bh <=> sb = "read"
    /\ sbi = IF sb \in {"info", "root", "up"} THEN "live" ELSE "none"
    /\ stage \in Quiet => \A o \in Objs : Free(o)
    /\ \A o \in Objs : /\ slab[o].ino = Root => sb \in {"root", "up"}
                       /\ slab[o].ino \in Files => sb = "up"

(* Inodes and objects.                                                      *)
CoreInv ==
    /\ \A o, p \in Objs : slab[o].ino = slab[p].ino /\ slab[o].ino \in Inos => o = p
    /\ \A t \in Threads : open[t] \in Files => sb = "up" /\ InCore(open[t])

KInv == TypeOK /\ CallOK /\ MountInv /\ CoreInv

-----------------------------------------------------------------------------
LEMMA Names == /\ "free" \notin Inos /\ "rcu" \notin Inos /\ NoFile \notin Inos
               /\ Root \notin Files /\ Files \subseteq Inos /\ Root \in Inos
  BY Zenon, KernelAssumption DEF Inos, NoFile

(* The object of an inode that is in core.                                  *)
LEMMA ObjIs ==
    ASSUME NEW f, InCore(f)
    PROVE  Obj(f) \in Objs /\ slab[Obj(f)].ino = f
  BY Zenon DEF InCore, Obj

(* What becomes of the slab.                                                *)
LEMMA AllocFacts ==
    ASSUME slab \in [Objs -> Objects], NEW o \in Objs, NEW i \in Inos, AllocInode(o, i)
    PROVE  /\ slab' \in [Objs -> Objects]
           /\ slab'[o].ino = i /\ slab'[o].n = 0 /\ slab'[o].slots = slab[o].slots
           /\ slab'[o].mode = IF i = Root THEN "Writable" ELSE "AppendOnly"
           /\ \A p \in Objs \ {o} : slab'[p] = slab[p]
<1>1. 0 \in 0 .. MaxSlots
  BY KernelAssumption
<1> DEFINE new == [slab[o] EXCEPT !.ino = i,
                       !.mode = IF i = Root THEN "Writable" ELSE "AppendOnly", !.n = 0]
<1>2. slab[o] \in Objects
  BY Zenon
<1>3. /\ new \in Objects /\ new.ino = i /\ new.n = 0 /\ new.slots = slab[o].slots
      /\ new.mode = IF i = Root THEN "Writable" ELSE "AppendOnly"
  BY ONLY Zenon, <1>1, <1>2, i \in Inos DEF Objects, Modes
<1>4. slab' = [slab EXCEPT ![o] = new]
  BY Zenon DEF AllocInode
<1> HIDE DEF new
<1> QED BY Zenon, <1>3, <1>4

LEMMA DropFacts ==
    ASSUME TypeOK, NEW is \in SUBSET Inos, Drop(is)
    PROVE  /\ slab' \in [Objs -> Objects]
           /\ \A o \in Objs : /\ slab'[o].ino = IF slab[o].ino \in is THEN "rcu" ELSE slab[o].ino
                              /\ slab'[o].mode = slab[o].mode
                              /\ slab[o].ino \notin is => slab'[o] = slab[o]
           /\ policy' \in [Files -> Seq(Words)] /\ mixed' \subseteq Files
           /\ began' \in [Files -> Nat] /\ raced' \subseteq Files
<1>1. slab \in [Objs -> Objects]
  BY Zenon DEF TypeOK, Objects
<1>2. ASSUME NEW o \in Objs
      PROVE  /\ [slab[o] EXCEPT !.ino = "rcu"] \in Objects
             /\ [slab[o] EXCEPT !.ino = "rcu"].ino = "rcu"
             /\ [slab[o] EXCEPT !.ino = "rcu"].mode = slab[o].mode
  <2>1. slab[o] \in Objects
    BY Zenon, <1>1
  <2> QED BY ONLY Zenon, <2>1 DEF Objects, Unused
<1>3. slab' = [o \in Objs |-> IF slab[o].ino \in is THEN [slab[o] EXCEPT !.ino = "rcu"]
                              ELSE slab[o]]
  BY Zenon DEF Drop
<1>4. <<>> \in Seq(Words) /\ 0 \in Nat
  OBVIOUS
<1>5. /\ policy' \in [Files -> Seq(Words)] /\ mixed' \subseteq Files
      /\ began' \in [Files -> Nat] /\ raced' \subseteq Files
  BY Zenon, <1>4 DEF Drop, TypeOK
<1> QED BY Zenon, <1>1, <1>2, <1>3, <1>5

-----------------------------------------------------------------------------
LEMMA InitKInv == Init => KInv
<1> SUFFICES ASSUME Init PROVE KInv
  BY Zenon
<1>1. Zeros \in Slots /\ 0 \in 0 .. MaxSlots
  BY KernelAssumption DEF Zeros, Slots
<1>2. slab \in [Objs -> Objects]
  BY Zenon, <1>1 DEF Init, Objects, Unused, Modes
<1>3. policy \in [Files -> Seq(Words)] /\ began \in [Files -> Nat]
  BY DEF Init
<1>4. TypeOK
  BY Zenon, <1>2, <1>3 DEF Init, TypeOK, Objects
<1>5. CallOK
  BY Zenon DEF Init, CallOK, Calls, NoCall
<1>6. \A o \in Objs : Free(o) /\ slab[o].ino \notin Inos
  BY Zenon, Names DEF Init, Free
<1>7. MountInv
  BY Zenon, <1>6, Names DEF Init, MountInv, Quiet
<1>8. CoreInv
  BY Zenon, <1>6, Names DEF Init, CoreInv
<1> QED BY Zenon, <1>4, <1>5, <1>7, <1>8 DEF KInv

(* Loading and unloading.                                                   *)
LEMMA ModuleStep ==
    ASSUME KInv, Module
    PROVE  KInv'
<1>f. UNCHANGED <<mount, slab, threads, history>>
  BY Zenon DEF Module, CreateCache, RegisterCtl, RegisterFs, UnregisterFs,
     DeregisterCtl, RcuBarrier, DestroyCache
<1>u. /\ sb' = sb /\ bh' = bh /\ sbi' = sbi /\ slab' = slab /\ open' = open /\ call' = call
      /\ seen' = seen /\ policy' = policy /\ mixed' = mixed /\ began' = began /\ raced' = raced
  BY Zenon, <1>f DEF mount, threads, history
<1>t. TypeOK /\ MountInv
  BY Zenon DEF KInv
<1>1. /\ stage' \in {"out", "init_ctl", "init_fs", "in", "deregister", "exit_ctl",
                     "barrier", "destroy"}
      /\ cache' \in BOOLEAN /\ ctl' \in BOOLEAN /\ fs' \in BOOLEAN
      /\ cache' <=> stage' # "out"
      /\ ctl' <=> stage' \in {"init_fs", "in", "deregister", "exit_ctl"}
      /\ fs' <=> stage' = "in"
      /\ sb # "none" => stage' = "in"
  <2>t. /\ cache \in BOOLEAN /\ ctl \in BOOLEAN /\ fs \in BOOLEAN
        /\ cache <=> stage # "out"
        /\ ctl <=> stage \in {"init_fs", "in", "deregister", "exit_ctl"}
        /\ fs <=> stage = "in"
        /\ sb # "none" => stage = "in"
    BY Zenon, <1>t DEF TypeOK, MountInv
  <2>1. CASE CreateCache
    BY ONLY Zenon, <2>t, <2>1 DEF CreateCache
  <2>2. CASE RegisterCtl
    <3>1. stage = "init_ctl" /\ cache' = cache /\ fs' = fs
      BY Zenon, <2>2 DEF RegisterCtl
    <3>2. CASE ctl' = TRUE /\ stage' = "init_fs"
      BY ONLY Zenon, <2>t, <3>1, <3>2
    <3>3. CASE ctl' = ctl /\ stage' = "destroy"
      BY ONLY Zenon, <2>t, <3>1, <3>3
    <3> QED BY Zenon, <2>2, <3>2, <3>3 DEF RegisterCtl
  <2>3. CASE RegisterFs
    <3>1. stage = "init_fs" /\ cache' = cache /\ ctl' = ctl
      BY Zenon, <2>3 DEF RegisterFs
    <3>2. CASE fs' = TRUE /\ stage' = "in"
      BY ONLY Zenon, <2>t, <3>1, <3>2
    <3>3. CASE fs' = fs /\ stage' = "deregister"
      BY ONLY Zenon, <2>t, <3>1, <3>3
    <3> QED BY Zenon, <2>3, <3>2, <3>3 DEF RegisterFs
  <2>4. CASE UnregisterFs
    BY ONLY Zenon, <2>t, <2>4 DEF UnregisterFs
  <2>5. CASE DeregisterCtl
    BY ONLY Zenon, <2>t, <2>5 DEF DeregisterCtl
  <2>6. CASE RcuBarrier
    BY ONLY Zenon, <2>t, <2>6 DEF RcuBarrier
  <2>7. CASE DestroyCache
    BY ONLY Zenon, <2>t, <2>7 DEF DestroyCache
  <2> QED BY Zenon, <2>1, <2>2, <2>3, <2>4, <2>5, <2>6, <2>7 DEF Module
<1>2. stage' \in Quiet => \A o \in Objs : Free(o)
  <2>1. CASE stage \in Quiet
    BY Zenon, <2>1, <1>t DEF MountInv
  <2>2. CASE stage \notin Quiet /\ stage' \in Quiet
    <3>1. RcuBarrier
      BY Zenon, <2>2 DEF Module, CreateCache, RegisterCtl, RegisterFs, UnregisterFs,
         DeregisterCtl, RcuBarrier, DestroyCache, Quiet
    <3>2. sb = "none" /\ \A o \in Objs : slab[o].ino # "rcu"
      BY Zenon, <3>1, <1>t DEF RcuBarrier, MountInv
    <3>3. ASSUME NEW o \in Objs PROVE slab[o].ino \in Inos \cup Unused
      BY Zenon, <1>t DEF TypeOK
    <3> QED BY Zenon, <3>2, <3>3, <1>t DEF MountInv, Inos, Unused, Free
  <2> QED BY Zenon, <2>1, <2>2
<1>3. TypeOK'
  BY Zenon, <1>u, <1>t, <1>1 DEF TypeOK, Slots, Words, Inos, Unused, Modes
<1>4. MountInv'
  BY Zenon, <1>u, <1>t, <1>1, <1>2 DEF MountInv, Free, Quiet
<1>5. CallOK'
  BY Zenon, <1>u DEF KInv, CallOK, Calls, Begins, Sets, GetNs, Gets, NoCall, Slots,
     Words
<1>6. CoreInv'
  BY Zenon, <1>u DEF KInv, CoreInv, InCore, Inos
<1> QED BY Zenon, <1>3, <1>4, <1>5, <1>6 DEF KInv

(* Mounting and unmounting.                                                 *)
LEMMA MountStep ==
    ASSUME KInv, Mount
    PROVE  KInv'
<1>f. /\ stage' = stage /\ cache' = cache /\ ctl' = ctl /\ fs' = fs
      /\ open' = open /\ call' = call /\ seen' = seen
  BY Zenon DEF Mount, ReadSuper, RejectSuper, AcceptSuper, RootInode, MountFails,
     MakeRoot, Unmount, module, threads
<1>t. TypeOK /\ MountInv /\ CoreInv /\ slab \in [Objs -> Objects]
  BY Zenon DEF KInv, TypeOK, Objects
<1>c. CallOK'
  BY Zenon, <1>f DEF KInv, CallOK, Calls, Begins, Sets, GetNs, Gets, NoCall, Slots,
     Words
<1>k. ASSUME slab' \in [Objs -> Objects], policy' \in [Files -> Seq(Words)], mixed' \subseteq Files,
             began' \in [Files -> Nat], raced' \subseteq Files,
             sb' \in {"none", "read", "info", "root", "up"},
             bh' \in BOOLEAN, bh' <=> sb' = "read",
             sbi' = IF sb' \in {"info", "root", "up"} THEN "live" ELSE "none",
             stage = "in",
             \A o \in Objs : /\ slab'[o].ino = Root => sb' \in {"root", "up"}
                             /\ slab'[o].ino \in Files => sb' = "up",
             CoreInv'
      PROVE  KInv'
  <2>1. TypeOK'
    BY Zenon, <1>k, <1>f, <1>t DEF TypeOK, Objects, Slots, Words, Inos, Unused, Modes
  <2>2. MountInv'
    BY Zenon, <1>k, <1>f, <1>t DEF MountInv, Quiet
  <2> QED BY Zenon, <2>1, <2>2, <1>k, <1>c DEF KInv
<1>s. ASSUME slab' = slab, sb # "up" PROVE CoreInv'
  BY Zenon, <1>s, <1>f, <1>t DEF CoreInv, InCore, Inos
<1>1. CASE ReadSuper \/ RejectSuper \/ AcceptSuper
  <2>1. /\ slab' = slab /\ policy' = policy /\ mixed' = mixed /\ began' = began /\ raced' = raced
        /\ sb \in {"none", "read"}
    BY Zenon, <1>1 DEF ReadSuper, RejectSuper, AcceptSuper, history
  <2>2. \A o \in Objs : slab[o].ino # Root /\ slab[o].ino \notin Files
    BY Zenon, <2>1, <1>t DEF MountInv
  <2>3. stage = "in"
    BY Zenon, <1>1, <1>t DEF ReadSuper, RejectSuper, AcceptSuper, MountInv
  <2>4. /\ sb' \in {"none", "read", "info"} /\ bh' \in BOOLEAN /\ (bh' <=> sb' = "read")
        /\ sbi' = IF sb' \in {"info", "root", "up"} THEN "live" ELSE "none"
    BY Zenon, <1>1, <1>t DEF ReadSuper, RejectSuper, AcceptSuper, MountInv
  <2>5. CoreInv'
    BY ONLY Zenon, <2>1, <1>s
  <2>6. /\ policy' \in [Files -> Seq(Words)] /\ mixed' \subseteq Files
        /\ began' \in [Files -> Nat] /\ raced' \subseteq Files /\ slab' \in [Objs -> Objects]
    BY Zenon, <2>1, <1>t DEF TypeOK
  <2>7. \A o \in Objs : slab'[o].ino # Root /\ slab'[o].ino \notin Files
    BY ONLY Zenon, <2>1, <2>2
  <2> QED BY ONLY Zenon, <2>3, <2>4, <2>5, <2>6, <2>7, <1>k
<1>2. CASE RootInode
  <2>1. PICK o \in Objs : Free(o) /\ AllocInode(o, Root)
    BY Zenon, <1>2 DEF RootInode
  <2>2. /\ sb = "info" /\ sb' = "root" /\ bh' = bh /\ sbi' = sbi
        /\ policy' = policy /\ mixed' = mixed /\ began' = began /\ raced' = raced
    BY Zenon, <1>2 DEF RootInode, history
  <2>3. /\ slab' \in [Objs -> Objects] /\ slab'[o].ino = Root
        /\ \A p \in Objs \ {o} : slab'[p] = slab[p]
    BY Zenon, <2>1, <1>t, AllocFacts, Names
  <2>4. \A p \in Objs : slab[p].ino \notin Inos
    BY Zenon, <2>2, <1>t DEF MountInv, Inos
  <2>5. \A p \in Objs : slab'[p].ino \in Inos => p = o
    BY Zenon, <2>3, <2>4
  <2>6. \A p \in Objs : slab'[p].ino \notin Files
    BY Zenon, <2>3, <2>4, Names
  <2>7. \A t \in Threads : open[t] \notin Files
    BY Zenon, <2>2, <1>t DEF CoreInv
  <2>8. CoreInv'
    BY Zenon, <2>5, <2>7, <1>f DEF CoreInv, Inos
  <2>9. stage = "in" /\ ~bh /\ sbi = "live"
    BY Zenon, <2>2, <1>t DEF MountInv
  <2> QED BY Zenon, <2>2, <2>3, <2>6, <2>8, <2>9, <1>k, <1>t DEF TypeOK
<1>3. CASE MakeRoot
  <2>1. /\ sb = "root" /\ sb' = "up" /\ bh' = bh /\ sbi' = sbi /\ slab' = slab
        /\ policy' = policy /\ mixed' = mixed /\ began' = began /\ raced' = raced
    BY Zenon, <1>3 DEF MakeRoot, history
  <2>2. stage = "in" /\ ~bh /\ sbi = "live"
    BY Zenon, <2>1, <1>t DEF MountInv
  <2> QED BY Zenon, <2>1, <2>2, <1>k, <1>s, <1>t DEF TypeOK
<1>4. CASE MountFails \/ Unmount
  <2>1. /\ sb \in {"info", "root", "up"} /\ sb' = "none" /\ bh' = bh /\ Kfree
        /\ \E is \in {{Root}, Inos} : Drop(is) /\ (sb = "up" => is = Inos)
    BY Zenon, <1>4 DEF MountFails, Unmount
  <2>2. PICK is \in {{Root}, Inos} : Drop(is) /\ (sb = "up" => is = Inos)
    BY Zenon, <2>1
  <2>3. /\ slab' \in [Objs -> Objects]
        /\ \A o \in Objs : slab'[o].ino = IF slab[o].ino \in is THEN "rcu" ELSE slab[o].ino
        /\ policy' \in [Files -> Seq(Words)] /\ mixed' \subseteq Files
        /\ began' \in [Files -> Nat] /\ raced' \subseteq Files
    BY Zenon, <2>2, <1>t, Names, DropFacts
  <2>4. \A o \in Objs : slab[o].ino \in Inos => slab[o].ino \in is
    BY Zenon, <2>2, <1>t DEF MountInv, Inos
  <2>5. \A o \in Objs : slab'[o].ino \notin Inos
    BY Zenon, <2>3, <2>4, Names
  <2>6. stage = "in" /\ ~bh /\ sbi = "live"
    BY Zenon, <2>1, <1>t DEF MountInv
  <2>7. \A t \in Threads : open[t] \notin Files
    BY Zenon, <1>4, <1>t, Names DEF CoreInv, MountFails, Unmount, TypeOK
  <2>8. CoreInv'
    BY Zenon, <2>5, <2>7, <1>f DEF CoreInv, Inos
  <2>9. sbi' = "none"
    BY Zenon, <2>1, <2>6 DEF Kfree
  <2> QED BY Zenon, <2>1, <2>3, <2>5, <2>6, <2>8, <2>9, <1>k, <1>t, Names DEF TypeOK
<1> QED BY Zenon, <1>1, <1>2, <1>3, <1>4 DEF Mount

-----------------------------------------------------------------------------
(* A thread in a call, or ready for one, has a file open that is in core.   *)
LEMMA MineFacts ==
    ASSUME KInv, NEW t \in Threads, Ready(t) \/ call[t].pc # "none"
    PROVE  /\ open[t] \in Files /\ sb = "up" /\ InCore(open[t])
           /\ Obj(open[t]) \in Objs /\ slab[Obj(open[t])].ino = open[t]
           /\ Mine(t) \in Objects /\ Mine(t) = slab[Obj(open[t])]
<1>1. open[t] \in Files
  BY Zenon DEF KInv, TypeOK, CallOK, Ready, NoFile
<1>2. sb = "up" /\ InCore(open[t])
  BY Zenon, <1>1 DEF KInv, CoreInv
<1>3. Obj(open[t]) \in Objs /\ slab[Obj(open[t])].ino = open[t]
  BY Zenon, <1>2 DEF InCore, Obj
<1>4. slab \in [Objs -> Objects]
  BY Zenon DEF KInv, TypeOK, Objects
<1> QED BY Zenon, <1>1, <1>2, <1>3, <1>4 DEF Mine

(* An ioctl moves no inode.                                                 *)
LEMMA IoctlFrame ==
    ASSUME KInv, slab' \in [Objs -> Objects], \A o \in Objs : slab'[o].ino = slab[o].ino,
           UNCHANGED <<module, mount, open>>, CallOK',
           seen' \in [Threads -> Modes \cup {"nothing"}],
           policy' \in [Files -> Seq(Words)], mixed' \subseteq Files,
           began' \in [Files -> Nat], raced' \subseteq Files
    PROVE  KInv'
<1>u. /\ stage' = stage /\ cache' = cache /\ ctl' = ctl /\ fs' = fs
      /\ sb' = sb /\ bh' = bh /\ sbi' = sbi /\ open' = open
  BY Zenon DEF module, mount
<1>1. TypeOK'
  BY <1>u DEF KInv, TypeOK, CallOK, Objects, Slots, Words, Inos, Unused, Modes
<1>2. MountInv'
  BY Zenon, <1>u DEF KInv, MountInv, Free, Quiet
<1>3. CoreInv'
  BY Zenon, <1>u DEF KInv, CoreInv, InCore, Inos
<1> QED BY Zenon, <1>1, <1>2, <1>3 DEF KInv

(* One thread's call changes.                                               *)
LEMMA CallPut ==
    ASSUME CallOK, open' = open, NEW t \in Threads, call' = [call EXCEPT ![t] = call'[t]],
           call'[t] \in Calls,
           call'[t].pc = "set" => /\ Len(call'[t].req) <= MaxSlots
                                  /\ call'[t].todo \subseteq 0 .. Len(call'[t].req),
           call'[t].pc # "none" => open[t] \in Files
    PROVE  CallOK'
<1>1. Calls' = Calls
  BY Zenon DEF Calls, NoCall, Begins, Sets, GetNs, Gets, Slots, Words
<1>2. call' \in [Threads -> Calls] /\ \A u \in Threads \ {t} : call'[u] = call[u]
  BY Zenon DEF CallOK
<1> QED BY Zenon, <1>1, <1>2 DEF CallOK

(* Calls that change nothing but their own frame.                           *)
LEMMA SilentStep ==
    ASSUME KInv, UNCHANGED <<module, mount, slab, open, seen, history>>, CallOK'
    PROVE  KInv'
  BY Zenon, IoctlFrame DEF KInv, TypeOK, Objects, history

LEMMA AskStep ==
    ASSUME KInv, NEW t \in Threads, NEW q, Ask(t, q)
    PROVE  KInv'
<1>1. Mine(t).mode \in Modes
  BY Zenon, MineFacts DEF Ask, Objects
<1>2. seen' \in [Threads -> Modes \cup {"nothing"}]
  BY Zenon, <1>1 DEF KInv, TypeOK, Ask
<1>3. UNCHANGED <<module, mount, slab, open, call, history>>
  BY Zenon DEF Ask
<1>4. CallOK'
  BY Zenon, <1>3 DEF KInv, CallOK, Calls, Begins, Sets, GetNs, Gets, NoCall, Slots,
     Words
<1> QED BY Zenon, <1>2, <1>3, <1>4, IoctlFrame DEF KInv, TypeOK, Objects, history

LEMMA BeginConvertStep ==
    ASSUME KInv, NEW t \in Threads, BeginConvert(t)
    PROVE  KInv'
<1>1. UNCHANGED <<module, mount, slab, open, policy, mixed, began>> /\ open[t] \in Files
  BY Zenon, MineFacts DEF BeginConvert
<1>2. raced' \subseteq Files
  BY Zenon, <1>1 DEF BeginConvert, KInv, TypeOK
<1>3. seen' \in [Threads -> Modes \cup {"nothing"}]
  BY Zenon DEF BeginConvert, KInv, TypeOK, Modes
<1>4. CallOK'
  <2>1. CASE call' = [call EXCEPT ![t] = [pc |-> "begin"]]
    <3>1. call'[t] = [pc |-> "begin"]
      BY Zenon, <2>1 DEF KInv, CallOK
    <3>2. call'[t] \in Calls /\ call'[t].pc = "begin"
      BY <3>1 DEF Calls, Begins
    <3> QED BY Zenon, <2>1, <3>1, <3>2, <1>1, CallPut DEF KInv
  <2>2. CASE call' = call
    BY Zenon, <2>2, <1>1 DEF KInv, CallOK, Calls, Begins, Sets, GetNs, Gets, NoCall,
       Slots, Words
  <2> QED BY Zenon, <2>1, <2>2 DEF BeginConvert
<1> QED BY Zenon, <1>1, <1>2, <1>3, <1>4, IoctlFrame DEF KInv, TypeOK, Objects

(* A call returns.                                                          *)
LEMMA ReturnOK ==
    ASSUME KInv, NEW t \in Threads, open' = open, call' = [call EXCEPT ![t] = NoCall]
    PROVE  CallOK'
<1>1. call'[t] = NoCall
  BY Zenon DEF KInv, CallOK
<1>2. call'[t] \in Calls /\ call'[t].pc = "none"
  BY <1>1 DEF Calls, NoCall
<1> QED BY Zenon, <1>1, <1>2, CallPut DEF KInv

LEMMA StoreModeFacts ==
    ASSUME KInv, NEW t \in Threads, StoreMode(t)
    PROVE  /\ slab' \in [Objs -> Objects]
           /\ \A o \in Objs : slab'[o].ino = slab[o].ino
           /\ slab'[Obj(open[t])].mode = "Converting"
           /\ \A o \in Objs \ {Obj(open[t])} : slab'[o] = slab[o]
<1>1. Obj(open[t]) \in Objs
  BY Zenon, MineFacts DEF StoreMode
<1>2. slab' = [slab EXCEPT ![Obj(open[t])].mode = "Converting"]
  BY Zenon DEF StoreMode
<1>3. slab \in [Objs -> Objects]
  BY Zenon DEF KInv, TypeOK, Objects
<1> QED BY ONLY Zenon, <1>1, <1>2, <1>3 DEF Objects, Modes

LEMMA StoreModeStep ==
    ASSUME KInv, NEW t \in Threads, StoreMode(t)
    PROVE  KInv'
<1>1. UNCHANGED <<module, mount, open, policy, mixed, raced>> /\ open[t] \in Files
  BY Zenon, MineFacts DEF StoreMode
<1>2. CallOK'
  BY Zenon, <1>1, ReturnOK DEF StoreMode
<1>3. seen' \in [Threads -> Modes \cup {"nothing"}]
  BY Zenon DEF StoreMode, KInv, TypeOK, Modes
<1>4. began' \in [Files -> Nat]
  BY <1>1 DEF StoreMode, KInv, TypeOK
<1> QED BY Zenon, <1>1, <1>2, <1>3, <1>4, StoreModeFacts, IoctlFrame DEF KInv, TypeOK

(* The requests are sequences of slots.                                     *)
LEMMA RequestFacts ==
    ASSUME NEW f \in Files, NEW req \in Requests(f)
    PROVE  req \in Seq(Words) /\ Len(req) \in Nat
<1>1. PICK s \in Schemes : req = [i \in 1 .. Len(s) |-> <<f, s[i]>>]
  BY Zenon DEF Requests
<1>2. s \in Seq(Marks) /\ Len(s) \in Nat
  BY KernelAssumption
<1>3. \A i \in 1 .. Len(s) : <<f, s[i]>> \in Words
  BY <1>2 DEF Words
<1> QED BY <1>1, <1>2, <1>3

LEMMA DisturbFacts ==
    ASSUME KInv, NEW f
    PROVE  /\ Disturb(f) \in [Threads -> Calls]
           /\ \A u \in Threads :
                 /\ Disturb(f)[u].pc = call[u].pc
                 /\ call[u].pc = "set" => /\ Disturb(f)[u].req = call[u].req
                                         /\ Disturb(f)[u].todo = call[u].todo
<1> SUFFICES ASSUME NEW u \in Threads
             PROVE  /\ Disturb(f)[u] \in Calls /\ Disturb(f)[u].pc = call[u].pc
                    /\ call[u].pc = "set" => /\ Disturb(f)[u].req = call[u].req
                                            /\ Disturb(f)[u].todo = call[u].todo
  BY Zenon DEF Disturb
<1>1. call[u] \in Calls
  BY Zenon DEF KInv, CallOK
<1>2. CASE u \notin Doing(f, {"set", "get_n", "get"})
  BY Zenon, <1>1, <1>2 DEF Disturb
<1>3. CASE u \in Doing(f, {"set", "get_n", "get"})
  <2>1. call[u].pc \in {"set", "get_n", "get"}
    BY Zenon, <1>3 DEF Doing
  <2>2. call[u] \in Sets \cup GetNs \cup Gets
    BY ONLY SMTT(20), <2>1, <1>1 DEF Calls, NoCall, Begins
  <2>3. Disturb(f)[u] = [call[u] EXCEPT !.alone = FALSE]
    BY Zenon, <1>3 DEF Disturb
  <2>4. CASE call[u] \in Sets
    BY ONLY Zenon, <2>3, <2>4 DEF Calls, Sets
  <2>5. CASE call[u] \in GetNs
    BY ONLY Zenon, <2>3, <2>5 DEF Calls, GetNs
  <2>6. CASE call[u] \in Gets
    BY ONLY Zenon, <2>3, <2>6 DEF Calls, Gets
  <2> QED BY Zenon, <2>2, <2>4, <2>5, <2>6
<1> QED BY Zenon, <1>2, <1>3

LEMMA SetRedundancyStep ==
    ASSUME KInv, NEW t \in Threads, NEW req \in Requests(open[t]), SetRedundancy(t, req)
    PROVE  KInv'
<1>1. UNCHANGED <<module, mount, slab, open, seen, history>> /\ open[t] \in Files
  BY Zenon, MineFacts DEF SetRedundancy
<1>2. req \in Seq(Words) /\ Len(req) \in Nat /\ Len(req) <= MaxSlots
  BY Zenon, <1>1, RequestFacts DEF SetRedundancy, ValidPolicy
<1> DEFINE c == [pc |-> "set", req |-> req, todo |-> 0 .. Len(req),
                 alone |-> Doing(open[t], {"set"}) = {}]
<1>3. c \in Calls /\ c.pc = "set" /\ c.req = req /\ c.todo = 0 .. Len(req)
  <2>1. 0 .. Len(req) \in SUBSET (0 .. MaxSlots)
    BY <1>2, KernelAssumption
  <2> QED BY Zenon, <1>2, <2>1 DEF Calls, Sets
<1>4. call' = [Disturb(open[t]) EXCEPT ![t] = c]
  BY Zenon DEF SetRedundancy
<1> HIDE DEF c
<1>5. Calls' = Calls
  BY Zenon DEF Calls, NoCall, Begins, Sets, GetNs, Gets, Slots, Words
<1>6. call' \in [Threads -> Calls]
  BY Zenon, <1>3, <1>4, DisturbFacts
<1>7. ASSUME NEW u \in Threads
      PROVE  /\ call'[u].pc = "set" => /\ Len(call'[u].req) <= MaxSlots
                                      /\ call'[u].todo \subseteq 0 .. Len(call'[u].req)
             /\ call'[u].pc # "none" => open[u] \in Files
  <2>1. CASE u = t
    BY Zenon, <2>1, <1>1, <1>2, <1>3, <1>4, DisturbFacts
  <2>2. CASE u # t
    <3>1. call'[u] = Disturb(open[t])[u]
      BY Zenon, <2>2, <1>4, DisturbFacts
    <3> QED BY <3>1, DisturbFacts DEF KInv, CallOK
  <2> QED BY Zenon, <2>1, <2>2
<1>8. CallOK'
  BY Zenon, <1>1, <1>5, <1>6, <1>7 DEF CallOK
<1> QED BY Zenon, <1>1, <1>8, SilentStep

LEMMA SetStoreFacts ==
    ASSUME KInv, NEW t \in Threads, NEW i \in 0 .. MaxSlots, SetStore(t, i)
    PROVE  /\ slab' \in [Objs -> Objects] /\ call[t] \in Sets
           /\ \A o \in Objs : slab'[o].ino = slab[o].ino /\ slab'[o].mode = slab[o].mode
<1>1. Obj(open[t]) \in Objs /\ slab \in [Objs -> Objects] /\ slab[Obj(open[t])] \in Objects
  BY Zenon, MineFacts DEF SetStore, KInv, TypeOK, Objects
<1>2. call[t] \in Sets
  <2>1. call[t] \in Calls /\ call[t].pc = "set"
    BY Zenon DEF KInv, CallOK, SetStore
  <2> QED BY ONLY SMTT(20), <2>1 DEF Calls, NoCall, Begins, GetNs, Gets
<1>3. /\ call[t].req \in Seq(Words) /\ Len(call[t].req) \in 0 .. MaxSlots
      /\ i \in 0 .. Len(call[t].req)
  <2>1. call[t].req \in Seq(Words)
    BY ONLY Zenon, <1>2 DEF Sets
  <2>2. Len(call[t].req) <= MaxSlots /\ i \in 0 .. Len(call[t].req)
    BY Zenon DEF KInv, CallOK, SetStore
  <2> QED BY <2>1, <2>2, KernelAssumption
<1> DEFINE x == slab[Obj(open[t])]
           new == IF i = 0 THEN [x EXCEPT !.n = Len(call[t].req)]
                           ELSE [x EXCEPT !.slots[i] = call[t].req[i]]
<1>4. slab' = [slab EXCEPT ![Obj(open[t])] = new]
  BY Zenon, <1>1 DEF SetStore
<1>5. new \in Objects /\ new.ino = x.ino /\ new.mode = x.mode
  <2>1. CASE i = 0
    BY Zenon, <2>1, <1>1, <1>3 DEF Objects
  <2>2. CASE i # 0
    <3>1. i \in 1 .. MaxSlots /\ call[t].req[i] \in Words
      BY <2>2, <1>3, KernelAssumption
    <3>2. [x.slots EXCEPT ![i] = call[t].req[i]] \in Slots
      BY Zenon, <3>1, <1>1 DEF Objects, Slots
    <3> QED BY Zenon, <2>2, <3>2, <1>1 DEF Objects
  <2> QED BY Zenon, <2>1, <2>2
<1> HIDE DEF new
<1> QED BY Zenon, <1>1, <1>2, <1>4, <1>5 DEF Objects

LEMMA SetStoreStep ==
    ASSUME KInv, NEW t \in Threads, NEW i \in 0 .. MaxSlots, SetStore(t, i)
    PROVE  KInv'
<1>1. UNCHANGED <<module, mount, open, seen, began, raced>> /\ open[t] \in Files
  BY Zenon, MineFacts DEF SetStore
<1>2. call[t] \in Sets
  BY Zenon, SetStoreFacts
<1>3. policy' \in [Files -> Seq(Words)] /\ mixed' \subseteq Files
  <2>1. call[t].req \in Seq(Words)
    BY ONLY Zenon, <1>2 DEF Sets
  <2> QED BY Zenon, <2>1, <1>1 DEF SetStore, KInv, TypeOK
<1>4. CallOK'
  <2>1. CASE call' = [call EXCEPT ![t] = NoCall]
    BY Zenon, <2>1, <1>1, ReturnOK
  <2>2. CASE call' = [call EXCEPT ![t].todo = @ \ {i}]
    <3>1. call'[t] = [call[t] EXCEPT !.todo = @ \ {i}]
      BY Zenon, <2>2 DEF KInv, CallOK
    <3>2. /\ call'[t] \in Sets /\ call'[t].req = call[t].req
          /\ call'[t].todo = call[t].todo \ {i} /\ call[t].pc = "set"
      BY ONLY Zenon, <3>1, <1>2 DEF Sets
    <3>3. Len(call[t].req) <= MaxSlots /\ call[t].todo \subseteq 0 .. Len(call[t].req)
      BY Zenon, <3>2 DEF KInv, CallOK
    <3>4. call' = [call EXCEPT ![t] = call'[t]]
      BY Zenon, <2>2, <3>1 DEF KInv, CallOK
    <3> QED BY Zenon, <3>2, <3>3, <3>4, <1>1, CallPut DEF KInv, Calls
  <2> QED BY Zenon, <2>1, <2>2 DEF SetStore
<1> QED BY Zenon, <1>1, <1>3, <1>4, SetStoreFacts, IoctlFrame DEF KInv, TypeOK

LEMMA GetRedundancyStep ==
    ASSUME KInv, NEW t \in Threads, GetRedundancy(t)
    PROVE  KInv'
<1>1. UNCHANGED <<module, mount, slab, open, seen, history>> /\ open[t] \in Files
      /\ Mine(t) \in Objects
  BY Zenon, MineFacts DEF GetRedundancy
<1>2. Zeros \in Slots /\ Mine(t).n \in 0 .. MaxSlots
  BY Zenon, <1>1 DEF Zeros, Slots, Objects
<1> DEFINE c == [pc |-> "get_n", n |-> Mine(t).n, slots |-> Zeros,
                 alone |-> Doing(open[t], {"set"}) = {}]
<1>3. call' = [call EXCEPT ![t] = c]
  BY Zenon DEF GetRedundancy
<1>4. c \in Calls /\ c.pc = "get_n"
  BY Zenon, <1>2 DEF Calls, GetNs
<1> HIDE DEF c
<1>5. call'[t] = c
  BY Zenon, <1>3 DEF KInv, CallOK
<1>6. CallOK'
  BY Zenon, <1>1, <1>3, <1>4, <1>5, CallPut DEF KInv
<1> QED BY Zenon, <1>1, <1>6, SilentStep

LEMMA GetLengthStep ==
    ASSUME KInv, NEW t \in Threads, GetLength(t)
    PROVE  KInv'
<1>1. UNCHANGED <<module, mount, slab, open, seen, history>> /\ open[t] \in Files
      /\ Mine(t) \in Objects
  BY Zenon, MineFacts DEF GetLength
<1>2. call[t] \in GetNs
  <2>1. call[t] \in Calls /\ call[t].pc = "get_n"
    BY Zenon DEF KInv, CallOK, GetLength
  <2> QED BY ONLY SMTT(20), <2>1 DEF Calls, NoCall, Begins, Sets, Gets
<1>3. 1 .. Mine(t).n \in SUBSET (1 .. MaxSlots)
  BY <1>1, KernelAssumption DEF Objects
<1> DEFINE c == [pc |-> "get", n |-> call[t].n, slots |-> call[t].slots,
                 alone |-> call[t].alone, todo |-> 1 .. Mine(t).n]
<1>4. call' = [call EXCEPT ![t] = c]
  BY Zenon DEF GetLength, KInv, CallOK
<1>5. c \in Calls /\ c.pc = "get"
  BY Zenon, <1>2, <1>3 DEF Calls, GetNs, Gets
<1> HIDE DEF c
<1>6. call'[t] = c
  BY Zenon, <1>4 DEF KInv, CallOK
<1>7. CallOK'
  BY Zenon, <1>1, <1>4, <1>5, <1>6, CallPut DEF KInv
<1> QED BY Zenon, <1>1, <1>7, SilentStep

LEMMA GetSlotStep ==
    ASSUME KInv, NEW t \in Threads, NEW i, GetSlot(t, i)
    PROVE  KInv'
<1>1. UNCHANGED <<module, mount, slab, open, seen, history>> /\ open[t] \in Files
      /\ Mine(t) \in Objects
  BY Zenon, MineFacts DEF GetSlot
<1>2. call[t] \in Gets
  <2>1. call[t] \in Calls /\ call[t].pc = "get"
    BY Zenon DEF KInv, CallOK, GetSlot
  <2> QED BY ONLY SMTT(20), <2>1 DEF Calls, NoCall, Begins, Sets, GetNs
<1>3. i \in 1 .. MaxSlots
  BY Zenon, <1>2 DEF GetSlot, Gets
<1>4. [call[t].slots EXCEPT ![i] = Mine(t).slots[i]] \in Slots
  BY Zenon, <1>1, <1>2, <1>3 DEF Objects, Gets, Slots
<1> DEFINE c == [call[t] EXCEPT !.todo = @ \ {i}, !.slots[i] = Mine(t).slots[i]]
<1>5. call' = [call EXCEPT ![t] = c]
  BY Zenon DEF GetSlot, KInv, CallOK
<1>6. c \in Calls /\ c.pc = "get"
  BY Zenon, <1>2, <1>4 DEF Calls, Gets
<1> HIDE DEF c
<1>7. call'[t] = c
  BY Zenon, <1>5 DEF KInv, CallOK
<1>8. CallOK'
  BY Zenon, <1>1, <1>5, <1>6, <1>7, CallPut DEF KInv
<1> QED BY Zenon, <1>1, <1>8, SilentStep

LEMMA IoctlStep ==
    ASSUME KInv, Ioctl
    PROVE  KInv'
<1>1. ASSUME NEW t \in Threads, GetReturns(t) PROVE KInv'
  BY Zenon, <1>1, ReturnOK, SilentStep DEF GetReturns
<1> QED
  BY Zenon, <1>1, AskStep, BeginConvertStep, StoreModeStep, SetRedundancyStep,
     SetStoreStep, GetRedundancyStep, GetLengthStep, GetSlotStep DEF Ioctl

-----------------------------------------------------------------------------
(* Inodes come into core and leave it.                                      *)
LEMMA IgetFacts ==
    ASSUME KInv, NEW f \in Files, IgetFile(f)
    PROVE  /\ slab' \in [Objs -> Objects] /\ InCore(f)'
           /\ \A o \in Objs : slab[o].ino \in Inos => slab'[o] = slab[o]
           /\ \A o \in Objs : slab'[o] # slab[o] =>
                 /\ ~InCore(f) /\ slab'[o].ino = f
                 /\ slab'[o].mode = "AppendOnly" /\ slab'[o].n = 0
           /\ \A o, p \in Objs : slab'[o] # slab[o] /\ slab'[p] # slab[p] => o = p
<1>t. slab \in [Objs -> Objects]
  BY Zenon DEF KInv, TypeOK, Objects
<1>1. CASE InCore(f)
  BY Zenon, <1>1, <1>t DEF IgetFile, InCore
<1>2. CASE ~InCore(f)
  <2>1. PICK o \in Objs : Free(o) /\ AllocInode(o, f)
    BY Zenon, <1>2 DEF IgetFile
  <2>2. /\ slab' \in [Objs -> Objects] /\ slab'[o].ino = f
        /\ slab'[o].mode = "AppendOnly" /\ slab'[o].n = 0
        /\ \A p \in Objs \ {o} : slab'[p] = slab[p]
    BY <2>1, <1>t, AllocFacts, Names
  <2>3. slab[o].ino \notin Inos
    BY Zenon, <2>1, Names DEF Free
  <2> QED BY Zenon, <1>2, <2>2, <2>3 DEF InCore
<1> QED BY Zenon, <1>1, <1>2

LEMMA OpenStep ==
    ASSUME KInv, NEW t \in Threads, NEW f \in Files, Open(t, f)
    PROVE  KInv'
<1>1. /\ UNCHANGED <<module, mount, call, seen, history>> /\ sb = "up" /\ open[t] = NoFile
      /\ open' = [open EXCEPT ![t] = f] /\ IgetFile(f)
  BY Zenon DEF Open
<1>u. /\ stage' = stage /\ cache' = cache /\ ctl' = ctl /\ fs' = fs
      /\ sb' = sb /\ bh' = bh /\ sbi' = sbi /\ call' = call /\ seen' = seen
      /\ policy' = policy /\ mixed' = mixed /\ began' = began /\ raced' = raced
  BY Zenon, <1>1 DEF module, mount, history
<1>o. /\ open' \in [Threads -> Files \cup {NoFile}] /\ open'[t] = f
      /\ \A u \in Threads \ {t} : open'[u] = open[u]
  BY Zenon, <1>1 DEF KInv, TypeOK
<1>2. TypeOK'
  BY <1>u, <1>o, <1>1, IgetFacts DEF KInv, TypeOK, Objects, Slots, Words, Inos, Unused, Modes
<1>3. CallOK'
  <2>1. Calls' = Calls
    BY Zenon DEF Calls, NoCall, Begins, Sets, GetNs, Gets, Slots, Words
  <2>2. \A u \in Threads : call[u].pc # "none" => open'[u] \in Files
    BY Zenon, <1>o DEF KInv, CallOK
  <2> QED BY Zenon, <1>u, <2>1, <2>2 DEF KInv, CallOK
<1>4. MountInv'
  <2>1. stage = "in" /\ stage \notin Quiet
    BY Zenon, <1>1 DEF KInv, MountInv, Quiet
  <2>2. \A o \in Objs : slab'[o].ino = Root => sb \in {"root", "up"}
    BY Zenon, <1>1
  <2> QED BY Zenon, <1>1, <1>u, <2>1 DEF KInv, MountInv, Quiet
<1>5. CoreInv'
  <2>1. ASSUME NEW o \in Objs, NEW p \in Objs, slab'[o].ino = slab'[p].ino, slab'[o].ino \in Inos
        PROVE  o = p
    <3>1. CASE slab'[o] = slab[o] /\ slab'[p] = slab[p]
      BY Zenon, <2>1, <3>1 DEF KInv, CoreInv
    <3>2. CASE slab'[o] # slab[o] /\ slab'[p] # slab[p]
      BY Zenon, <3>2, <1>1, IgetFacts
    <3>3. CASE slab'[o] # slab[o] /\ slab'[p] = slab[p]
      BY <2>1, <3>3, <1>1, IgetFacts DEF InCore
    <3>4. CASE slab'[o] = slab[o] /\ slab'[p] # slab[p]
      BY <2>1, <3>4, <1>1, IgetFacts DEF InCore
    <3> QED BY Zenon, <3>1, <3>2, <3>3, <3>4
  <2>2. ASSUME NEW u \in Threads, open'[u] \in Files PROVE InCore(open[u])' 
    <3>1. CASE u = t
      BY Zenon, <3>1, <1>o, <1>1, IgetFacts DEF InCore
    <3>2. CASE u # t
      <4>1. open'[u] = open[u] /\ InCore(open[u])
        BY Zenon, <2>2, <3>2, <1>o DEF KInv, CoreInv
      <4>2. PICK o \in Objs : slab[o].ino = open[u]
        BY Zenon, <4>1 DEF InCore
      <4>3. slab'[o] = slab[o]
        BY Zenon, <2>2, <4>1, <4>2, <1>1, IgetFacts, Names
      <4> QED BY Zenon, <4>1, <4>2, <4>3 DEF InCore
    <3> QED BY Zenon, <3>1, <3>2
  <2> QED BY Zenon, <2>1, <2>2, <1>1, <1>u DEF CoreInv, Inos
<1> QED BY Zenon, <1>2, <1>3, <1>4, <1>5 DEF KInv

LEMMA CloseStep ==
    ASSUME KInv, NEW t \in Threads, Close(t)
    PROVE  KInv'
<1>1. /\ UNCHANGED <<module, mount, slab, call, history>> /\ call[t] = NoCall
      /\ open' = [open EXCEPT ![t] = NoFile] /\ seen' = [seen EXCEPT ![t] = "nothing"]
  BY Zenon DEF Close
<1>u. /\ stage' = stage /\ cache' = cache /\ ctl' = ctl /\ fs' = fs
      /\ sb' = sb /\ bh' = bh /\ sbi' = sbi /\ call' = call /\ slab' = slab
      /\ policy' = policy /\ mixed' = mixed /\ began' = began /\ raced' = raced
  BY Zenon, <1>1 DEF module, mount, history
<1>o. /\ open' \in [Threads -> Files \cup {NoFile}] /\ open'[t] = NoFile
      /\ \A u \in Threads \ {t} : open'[u] = open[u]
      /\ seen' \in [Threads -> Modes \cup {"nothing"}]
  BY Zenon, <1>1 DEF KInv, TypeOK
<1>2. TypeOK'
  BY <1>u, <1>o DEF KInv, TypeOK, Objects, Slots, Words, Inos, Unused, Modes
<1>3. CallOK'
  <2>1. Calls' = Calls
    BY Zenon DEF Calls, NoCall, Begins, Sets, GetNs, Gets, Slots, Words
  <2>2. ASSUME NEW u \in Threads, call[u].pc # "none" PROVE open'[u] \in Files
    <3>1. u # t
      BY <2>2, <1>1 DEF NoCall
    <3> QED BY Zenon, <3>1, <2>2, <1>o DEF KInv, CallOK
  <2> QED BY Zenon, <1>u, <2>1, <2>2 DEF KInv, CallOK
<1>4. MountInv'
  BY Zenon, <1>u DEF KInv, MountInv, Free, Quiet
<1>5. CoreInv'
  BY Zenon, <1>u, <1>o, Names DEF KInv, CoreInv, InCore, Inos
<1> QED BY Zenon, <1>2, <1>3, <1>4, <1>5 DEF KInv

LEMMA EvictStep ==
    ASSUME KInv, NEW f \in Files, Evict(f)
    PROVE  KInv'
<1>1. /\ UNCHANGED <<module, mount, threads>> /\ sb = "up" /\ Drop({f})
      /\ \A t \in Threads : open[t] # f
  BY Zenon DEF Evict
<1>u. /\ stage' = stage /\ cache' = cache /\ ctl' = ctl /\ fs' = fs
      /\ sb' = sb /\ bh' = bh /\ sbi' = sbi /\ call' = call /\ open' = open /\ seen' = seen
  BY Zenon, <1>1 DEF module, mount, threads
<1>d. /\ slab' \in [Objs -> Objects]
      /\ \A o \in Objs : slab'[o].ino = IF slab[o].ino = f THEN "rcu" ELSE slab[o].ino
      /\ policy' \in [Files -> Seq(Words)] /\ mixed' \subseteq Files
      /\ began' \in [Files -> Nat] /\ raced' \subseteq Files
  <2>1. {f} \in SUBSET Inos /\ TypeOK
    BY Zenon, Names DEF KInv
  <2> QED BY <2>1, <1>1, DropFacts
<1>2. TypeOK'
  BY <1>u, <1>d DEF KInv, TypeOK, Objects, Slots, Words, Inos, Unused, Modes
<1>3. CallOK'
  BY Zenon, <1>u DEF KInv, CallOK, Calls, NoCall, Begins, Sets, GetNs, Gets, Slots,
     Words
<1>4. MountInv'
  <2>1. stage = "in" /\ stage \notin Quiet
    BY Zenon, <1>1 DEF KInv, MountInv, Quiet
  <2> QED BY Zenon, <1>1, <1>u, <2>1 DEF KInv, MountInv, Quiet
<1>5. CoreInv'
  BY Zenon, <1>1, <1>u, <1>d, Names DEF KInv, CoreInv, InCore, Inos
<1> QED BY Zenon, <1>2, <1>3, <1>4, <1>5 DEF KInv

LEMMA FreeInodeStep ==
    ASSUME KInv, NEW x \in Objs, FreeInode(x)
    PROVE  KInv'
<1>1. /\ UNCHANGED <<module, mount, threads, history>> /\ slab[x].ino = "rcu"
      /\ slab' = [slab EXCEPT ![x].ino = "free"] /\ slab \in [Objs -> Objects]
  BY Zenon DEF FreeInode, KInv, TypeOK, Objects
<1>u. /\ stage' = stage /\ cache' = cache /\ ctl' = ctl /\ fs' = fs
      /\ sb' = sb /\ bh' = bh /\ sbi' = sbi /\ call' = call /\ open' = open /\ seen' = seen
      /\ policy' = policy /\ mixed' = mixed /\ began' = began /\ raced' = raced
  BY Zenon, <1>1 DEF module, mount, threads, history
<1>d. /\ slab' \in [Objs -> Objects] /\ slab'[x].ino = "free"
      /\ \A o \in Objs \ {x} : slab'[o] = slab[o]
  BY ONLY Zenon, <1>1, x \in Objs DEF Objects, Unused
<1>2. TypeOK'
  BY <1>u, <1>d DEF KInv, TypeOK, Objects, Slots, Words, Inos, Unused, Modes
<1>3. CallOK'
  BY Zenon, <1>u DEF KInv, CallOK, Calls, NoCall, Begins, Sets, GetNs, Gets, Slots, Words
<1>4. MountInv'
  BY Zenon, <1>u, <1>d, Names DEF KInv, MountInv, Free, Quiet
<1>5. CoreInv'
  BY <1>1, <1>u, <1>d, Names DEF KInv, CoreInv, InCore, Inos
<1> QED BY Zenon, <1>2, <1>3, <1>4, <1>5 DEF KInv

LEMMA KInvHolds == Spec => []KInv
<1>1. KInv /\ [Next]_vars => KInv'
  <2> SUFFICES ASSUME KInv, [Next]_vars PROVE KInv'
    BY Zenon
  <2>1. CASE Inode
    BY Zenon, <2>1, OpenStep, EvictStep, CloseStep, FreeInodeStep DEF Inode
  <2>2. CASE UNCHANGED vars
    <3>1. UNCHANGED <<module, mount, slab, open, seen, history>> /\ call' = call
      BY Zenon, <2>2 DEF vars, threads
    <3>2. CallOK'
      BY Zenon, <3>1 DEF KInv, CallOK, Calls, NoCall, Begins, Sets, GetNs, Gets, Slots,
         Words
    <3> QED BY Zenon, <3>1, <3>2, SilentStep
  <2> QED BY Zenon, <2>1, <2>2, ModuleStep, MountStep, IoctlStep DEF Next
<1> QED BY InitKInv, <1>1, PTL DEF Spec

(* Module, mount, slab cache and unlocked calls have their types: among     *)
(* them, that n_redundancy_slots never exceeds the slots of an inode,       *)
(* whichever ioctls overlap.                                                *)
THEOREM TypeCorrect == Spec => []TypeOK
  BY KInvHolds, PTL DEF KInv

(* Whatever is loaded, mounted, opened and evicted, and whichever step of   *)
(* tartine_init or tartine_fill_super fails, the slab cache is there as     *)
(* long as an inode or its deferred free is.                                *)
THEOREM CacheHeld == Spec => []CacheOutlivesInodes
<1>1. KInv => CacheOutlivesInodes
  BY Zenon DEF KInv, MountInv, CacheOutlivesInodes, Quiet
<1> QED BY <1>1, KInvHolds, PTL

(* What failed half way, or was unloaded or unmounted, holds nothing.       *)
THEOREM NothingHeld == Spec => []Unwound
<1>1. KInv => Unwound
  BY Zenon DEF KInv, MountInv, Unwound
<1> QED BY <1>1, KInvHolds, PTL

-----------------------------------------------------------------------------
(* Conversions, in terms of how often one has begun.  A call that is about  *)
(* to store the mode does so a second time only if it has met another one.  *)
ModeInv ==
    \A o \in Objs : slab[o].ino \in Files =>
        /\ slab[o].mode \in {"AppendOnly", "Converting"}
        /\ slab[o].mode = "Converting" <=> began[slab[o].ino] # 0
        /\ began[slab[o].ino] > 1 => slab[o].ino \in raced

OutReset == \A f \in Files : ~InCore(f) => began[f] = 0

BeginInv ==
    \A t \in Threads : call[t].pc = "begin" =>
        /\ began[open[t]] # 0 => open[t] \in raced
        /\ \A u \in Threads \ {t} :
              call[u].pc = "begin" /\ open[u] = open[t] => open[t] \in raced

SeenInv == \A t \in Threads : seen[t] = "Converting" => open[t] \in Files /\ began[open[t]] # 0

ConvInv == ModeInv /\ OutReset /\ BeginInv /\ SeenInv

(* Steps that have nothing to do with it.                                   *)
LEMMA ConvFrame ==
    ASSUME ConvInv, began' = began, raced' = raced, open' = open, seen' = seen,
           \A t \in Threads : call'[t].pc = "begin" => call[t].pc = "begin",
           \A o \in Objs : slab'[o].ino \in Files =>
               slab'[o].ino = slab[o].ino /\ slab'[o].mode = slab[o].mode,
           \A o \in Objs : slab[o].ino \in Files => slab'[o].ino = slab[o].ino
    PROVE  ConvInv'
<1>1. ModeInv'
  BY Zenon DEF ConvInv, ModeInv
<1>2. OutReset'
  BY Zenon DEF ConvInv, OutReset, InCore
<1>3. BeginInv'
  BY Zenon DEF ConvInv, BeginInv
<1>4. SeenInv'
  BY Zenon DEF ConvInv, SeenInv
<1> QED BY Zenon, <1>1, <1>2, <1>3, <1>4 DEF ConvInv

(* Inodes nobody has open are dropped.                                      *)
LEMMA ConvDrop ==
    ASSUME KInv, ConvInv, NEW is \in SUBSET Inos, Drop(is),
           \A t \in Threads : open[t] \notin is,
           open' = open, call' = call, seen' = seen
    PROVE  ConvInv'
<1>1. \A o \in Objs : /\ slab'[o].ino = IF slab[o].ino \in is THEN "rcu" ELSE slab[o].ino
                      /\ slab'[o].mode = slab[o].mode
  BY Zenon, DropFacts DEF KInv
<1>2. \A f \in Files : /\ began'[f] = IF f \in is THEN 0 ELSE began[f]
                       /\ f \notin is => (f \in raced' <=> f \in raced)
  BY Zenon DEF Drop
<1>3. \A t \in Threads : open[t] \in Files \cup {NoFile} /\ (call[t].pc # "none" => open[t] \in Files)
  BY Zenon DEF KInv, TypeOK, CallOK
<1>4. ModeInv'
  <2> SUFFICES ASSUME NEW o \in Objs, slab'[o].ino \in Files
               PROVE  /\ slab'[o].mode \in {"AppendOnly", "Converting"}
                      /\ slab'[o].mode = "Converting" <=> began'[slab'[o].ino] # 0
                      /\ began'[slab'[o].ino] > 1 => slab'[o].ino \in raced'
    BY Zenon DEF ModeInv
  <2>1. slab'[o].ino = slab[o].ino /\ slab[o].ino \notin is /\ slab'[o].mode = slab[o].mode
    BY Zenon, <1>1, Names
  <2> QED BY Zenon, <2>1, <1>2 DEF ConvInv, ModeInv
<1>5. OutReset'
  <2> SUFFICES ASSUME NEW f \in Files, ~InCore(f)' PROVE began'[f] = 0
    BY Zenon DEF OutReset
  <2>1. CASE f \in is
    BY Zenon, <2>1, <1>2
  <2>2. CASE f \notin is
    <3>1. ~InCore(f)
      BY Zenon, <2>2, <1>1 DEF InCore
    <3> QED BY Zenon, <3>1, <2>2, <1>2 DEF ConvInv, OutReset
  <2> QED BY Zenon, <2>1, <2>2
<1>6. BeginInv'
  BY Zenon, <1>2, <1>3 DEF ConvInv, BeginInv
<1>7. SeenInv'
  BY Zenon, <1>2 DEF ConvInv, SeenInv
<1> QED BY Zenon, <1>4, <1>5, <1>6, <1>7 DEF ConvInv

LEMMA ConvModule ==
    ASSUME ConvInv, Module
    PROVE  ConvInv'
<1>1. UNCHANGED <<mount, slab, threads, history>>
  BY Zenon DEF Module, CreateCache, RegisterCtl, RegisterFs, UnregisterFs,
     DeregisterCtl, RcuBarrier, DestroyCache
<1> QED BY Zenon, <1>1, ConvFrame DEF threads, history

LEMMA ConvMount ==
    ASSUME KInv, ConvInv, Mount
    PROVE  ConvInv'
<1>1. CASE ReadSuper \/ RejectSuper \/ AcceptSuper \/ MakeRoot
  <2>1. UNCHANGED <<slab, threads, history>>
    BY Zenon, <1>1 DEF ReadSuper, RejectSuper, AcceptSuper, MakeRoot
  <2> QED BY Zenon, <2>1, ConvFrame DEF threads, history
<1>2. CASE RootInode
  <2>1. PICK o \in Objs : Free(o) /\ AllocInode(o, Root)
    BY Zenon, <1>2 DEF RootInode
  <2>2. UNCHANGED <<threads, history>>
    BY Zenon, <1>2 DEF RootInode
  <2>3. slab'[o].ino = Root /\ \A p \in Objs \ {o} : slab'[p] = slab[p]
    BY Zenon, <2>1, AllocFacts, Names DEF KInv, TypeOK, Objects
  <2>4. slab[o].ino \notin Files
    BY Zenon, <2>1, Names DEF Free
  <2> QED BY Zenon, <2>2, <2>3, <2>4, Names, ConvFrame DEF threads, history
<1>3. CASE MountFails \/ Unmount
  <2>1. \E is \in {{Root}, Inos} : Drop(is) /\ \A t \in Threads : open[t] \notin is
    BY Zenon, <1>3, Names DEF MountFails, Unmount, KInv, TypeOK
  <2>2. {Root} \in SUBSET Inos /\ Inos \in SUBSET Inos
    BY Zenon, Names
  <2>3. UNCHANGED threads
    BY Zenon, <1>3 DEF MountFails, Unmount
  <2> QED BY Zenon, <2>1, <2>2, <2>3, ConvDrop DEF threads
<1> QED BY Zenon, <1>1, <1>2, <1>3 DEF Mount

LEMMA ConvInode ==
    ASSUME KInv, ConvInv, Inode
    PROVE  ConvInv'
<1>t. \A t \in Threads : call[t].pc # "none" => open[t] \in Files
  BY Zenon DEF KInv, CallOK
<1>1. ASSUME NEW t \in Threads, NEW f \in Files, Open(t, f) PROVE ConvInv'
  <2>1. /\ UNCHANGED <<call, seen, history>> /\ open[t] = NoFile
        /\ open' = [open EXCEPT ![t] = f] /\ IgetFile(f)
    BY Zenon, <1>1 DEF Open
  <2>2. open'[t] = f /\ \A u \in Threads \ {t} : open'[u] = open[u]
    BY Zenon, <2>1 DEF KInv, TypeOK
  <2>3. began' = began /\ raced' = raced
    BY Zenon, <2>1 DEF history
  <2>4. ModeInv'
    <3> SUFFICES ASSUME NEW o \in Objs, slab'[o].ino \in Files
                 PROVE  /\ slab'[o].mode \in {"AppendOnly", "Converting"}
                        /\ slab'[o].mode = "Converting" <=> began'[slab'[o].ino] # 0
                        /\ began'[slab'[o].ino] > 1 => slab'[o].ino \in raced'
      BY Zenon DEF ModeInv
    <3>1. CASE slab'[o] = slab[o]
      BY Zenon, <3>1, <2>3 DEF ConvInv, ModeInv
    <3>2. CASE slab'[o] # slab[o]
      <4>1. ~InCore(f) /\ slab'[o].ino = f /\ slab'[o].mode = "AppendOnly"
        BY Zenon, <3>2, <2>1, IgetFacts
      <4>2. began[f] = 0
        BY Zenon, <4>1 DEF ConvInv, OutReset
      <4>3. began'[slab'[o].ino] = 0
        BY Zenon, <4>1, <4>2, <2>3
      <4>4. ~(began'[slab'[o].ino] > 1) /\ "AppendOnly" # "Converting"
        BY ONLY SMTT(20), <4>3
      <4> QED BY ONLY Zenon, <4>1, <4>3, <4>4
    <3> QED BY ONLY Zenon, <3>1, <3>2
  <2>5. OutReset'
    <3> SUFFICES ASSUME NEW g \in Files, ~InCore(g)' PROVE began'[g] = 0
      BY Zenon DEF OutReset
    <3>1. ~InCore(g)
      BY <2>1, IgetFacts, Names DEF InCore
    <3> QED BY Zenon, <3>1, <2>3 DEF ConvInv, OutReset
  <2>6. call[t].pc = "none" /\ seen[t] # "Converting"
    BY Zenon, <2>1, <1>t, Names DEF ConvInv, SeenInv
  <2>7. BeginInv'
    BY <2>1, <2>2, <2>3, <2>6 DEF ConvInv, BeginInv
  <2>8. SeenInv'
    BY Zenon, <2>1, <2>2, <2>3, <2>6 DEF ConvInv, SeenInv
  <2> QED BY Zenon, <2>4, <2>5, <2>7, <2>8 DEF ConvInv
<1>2. ASSUME NEW t \in Threads, Close(t) PROVE ConvInv'
  <2>1. /\ UNCHANGED <<slab, call, history>> /\ call[t] = NoCall
        /\ open' = [open EXCEPT ![t] = NoFile] /\ seen' = [seen EXCEPT ![t] = "nothing"]
    BY Zenon, <1>2 DEF Close
  <2>2. /\ \A u \in Threads \ {t} : open'[u] = open[u] /\ seen'[u] = seen[u]
        /\ seen'[t] = "nothing"
    BY Zenon, <2>1 DEF KInv, TypeOK
  <2>3. began' = began /\ raced' = raced /\ slab' = slab /\ call' = call /\ call[t].pc = "none"
    BY <2>1 DEF history, NoCall
  <2>4. ModeInv' /\ OutReset'
    BY Zenon, <2>3 DEF ConvInv, ModeInv, OutReset, InCore
  <2>5. BeginInv'
    BY Zenon, <2>2, <2>3 DEF ConvInv, BeginInv
  <2>6. SeenInv'
    BY Zenon, <2>2, <2>3 DEF ConvInv, SeenInv
  <2> QED BY Zenon, <2>4, <2>5, <2>6 DEF ConvInv
<1>3. ASSUME NEW f \in Files, Evict(f) PROVE ConvInv'
  <2>1. UNCHANGED threads /\ Drop({f}) /\ \A t \in Threads : open[t] \notin {f}
    BY Zenon, <1>3 DEF Evict
  <2>2. {f} \in SUBSET Inos
    BY Zenon, Names
  <2> QED BY Zenon, <2>1, <2>2, ConvDrop DEF threads
<1>4. ASSUME NEW x \in Objs, FreeInode(x) PROVE ConvInv'
  <2>1. /\ UNCHANGED <<threads, history>> /\ slab[x].ino = "rcu"
        /\ slab' = [slab EXCEPT ![x].ino = "free"] /\ slab \in [Objs -> Objects]
    BY Zenon, <1>4 DEF FreeInode, KInv, TypeOK, Objects
  <2>2. slab'[x].ino = "free" /\ \A o \in Objs \ {x} : slab'[o] = slab[o]
    BY Zenon, <2>1 DEF Objects
  <2> QED BY Zenon, <2>1, <2>2, Names, ConvFrame DEF threads, history
<1> QED BY Zenon, <1>1, <1>2, <1>3, <1>4 DEF Inode

LEMMA ConvBegin ==
    ASSUME KInv, ConvInv, NEW t \in Threads, BeginConvert(t)
    PROVE  ConvInv'
<1>1. /\ UNCHANGED <<slab, open, began>> /\ Ready(t) /\ open[t] \in Files
      /\ Obj(open[t]) \in Objs /\ slab[Obj(open[t])].ino = open[t]
      /\ Mine(t) = slab[Obj(open[t])]
  BY Zenon, MineFacts DEF BeginConvert
<1>2. OutReset'
  BY Zenon, <1>1 DEF ConvInv, OutReset, InCore
<1>3. CASE MayBegin(Mine(t).mode)
  <2>1. /\ call' = [call EXCEPT ![t] = [pc |-> "begin"]] /\ seen' = seen
        /\ raced' = raced \cup (IF Doing(open[t], {"begin"}) = {} THEN {} ELSE {open[t]})
    BY Zenon, <1>3 DEF BeginConvert
  <2>2. began[open[t]] = 0
    BY Zenon, <1>1, <1>3 DEF ConvInv, ModeInv, MayBegin
  <2>3. \A u \in Threads \ {t} : call'[u] = call[u]
    BY Zenon, <2>1 DEF KInv, CallOK
  <2>4. \A u \in Threads \ {t} : call[u].pc = "begin" /\ open[u] = open[t] => open[t] \in raced'
    BY Zenon, <2>1 DEF Doing
  <2>5. raced \subseteq raced'
    BY Zenon, <2>1
  <2>6. BeginInv'
    <3> SUFFICES ASSUME NEW u \in Threads, call'[u].pc = "begin"
                 PROVE  /\ began[open[u]] # 0 => open[u] \in raced'
                        /\ \A v \in Threads \ {u} :
                              call'[v].pc = "begin" /\ open[v] = open[u] => open[u] \in raced'
      BY Zenon, <1>1 DEF BeginInv
    <3>1. CASE u = t
      BY Zenon, <3>1, <2>2, <2>3, <2>4
    <3>2. CASE u # t
      BY Zenon, <3>2, <2>3, <2>4, <2>5 DEF ConvInv, BeginInv
    <3> QED BY Zenon, <3>1, <3>2
  <2>7. ModeInv' /\ SeenInv'
    BY Zenon, <1>1, <2>1, <2>5 DEF ConvInv, ModeInv, SeenInv
  <2> QED BY Zenon, <1>2, <2>6, <2>7 DEF ConvInv
<1>4. CASE ~MayBegin(Mine(t).mode)
  <2>1. seen' = [seen EXCEPT ![t] = "Converting"] /\ call' = call /\ raced' = raced
    BY Zenon, <1>4 DEF BeginConvert
  <2>2. began[open[t]] # 0
    BY Zenon, <1>1, <1>4 DEF ConvInv, ModeInv, MayBegin
  <2>3. \A u \in Threads \ {t} : seen'[u] = seen[u]
    BY Zenon, <2>1 DEF KInv, TypeOK
  <2>4. SeenInv'
    BY Zenon, <1>1, <2>2, <2>3 DEF ConvInv, SeenInv
  <2>5. ModeInv' /\ BeginInv'
    BY Zenon, <1>1, <2>1 DEF ConvInv, ModeInv, BeginInv
  <2> QED BY Zenon, <1>2, <2>4, <2>5 DEF ConvInv
<1> QED BY Zenon, <1>3, <1>4

LEMMA ConvStore ==
    ASSUME KInv, ConvInv, NEW t \in Threads, StoreMode(t)
    PROVE  ConvInv'
<1> DEFINE f == open[t]
<1>1. /\ f \in Files /\ Obj(f) \in Objs /\ slab[Obj(f)].ino = f
  BY Zenon, MineFacts DEF StoreMode
<1>2. /\ open' = open /\ raced' = raced /\ call[t].pc = "begin"
      /\ began' = [began EXCEPT ![f] = @ + 1]
      /\ seen' = [seen EXCEPT ![t] = "Converting"] /\ call' = [call EXCEPT ![t] = NoCall]
  BY Zenon DEF StoreMode
<1>3. /\ began[f] \in Nat /\ began'[f] = began[f] + 1
      /\ \A g \in Files \ {f} : began'[g] = began[g]
  BY Zenon, <1>1, <1>2 DEF KInv, TypeOK
<1>4. /\ \A u \in Threads \ {t} : call'[u] = call[u] /\ seen'[u] = seen[u]
      /\ call'[t].pc = "none"
  BY Zenon, <1>2 DEF KInv, CallOK, TypeOK, NoCall
<1>5. \A o \in Objs : slab[o].ino = f => o = Obj(f)
  BY Zenon, <1>1, Names DEF KInv, CoreInv
<1>6. began[f] # 0 => f \in raced
  BY Zenon, <1>2 DEF ConvInv, BeginInv
<1> HIDE DEF f
<1>s. /\ \A o \in Objs : slab'[o].ino = slab[o].ino
      /\ slab'[Obj(f)].mode = "Converting"
      /\ \A o \in Objs \ {Obj(f)} : slab'[o] = slab[o]
  BY Zenon, StoreModeFacts DEF f
<1>7. ModeInv'
  <2> SUFFICES ASSUME NEW o \in Objs, slab'[o].ino \in Files
               PROVE  /\ slab'[o].mode \in {"AppendOnly", "Converting"}
                      /\ slab'[o].mode = "Converting" <=> began'[slab'[o].ino] # 0
                      /\ began'[slab'[o].ino] > 1 => slab'[o].ino \in raced'
    BY Zenon DEF ModeInv
  <2>1. CASE o = Obj(f)
    <3>1. slab'[o].ino = f /\ slab'[o].mode = "Converting"
      BY Zenon, <2>1, <1>1, <1>s
    <3>2. began'[f] # 0 /\ (began'[f] > 1 => f \in raced')
      BY <1>2, <1>3, <1>6
    <3> QED BY Zenon, <3>1, <3>2
  <2>2. CASE o # Obj(f)
    <3>1. slab'[o] = slab[o] /\ slab[o].ino # f
      BY Zenon, <2>2, <1>s, <1>5
    <3>2. began'[slab[o].ino] = began[slab[o].ino]
      BY Zenon, <3>1, <1>3
    <3> QED BY Zenon, <3>1, <3>2, <1>2 DEF ConvInv, ModeInv
  <2> QED BY Zenon, <2>1, <2>2
<1>8. OutReset'
  <2> SUFFICES ASSUME NEW g \in Files, ~InCore(g)' PROVE began'[g] = 0
    BY Zenon DEF OutReset
  <2>1. ~InCore(g)
    BY Zenon, <1>s DEF InCore
  <2>2. g # f
    BY Zenon, <2>1, <1>1 DEF InCore
  <2> QED BY Zenon, <2>1, <2>2, <1>3 DEF ConvInv, OutReset
<1>9. BeginInv'
  <2> SUFFICES ASSUME NEW u \in Threads, call'[u].pc = "begin"
               PROVE  /\ began'[open[u]] # 0 => open[u] \in raced
                      /\ \A v \in Threads \ {u} :
                            call'[v].pc = "begin" /\ open[v] = open[u] => open[u] \in raced
    BY Zenon, <1>2 DEF BeginInv
  <2>1. u # t /\ call[u].pc = "begin" /\ open[u] \in Files
    BY Zenon, <1>4 DEF KInv, CallOK
  <2>2. CASE open[u] = f
    <3>1. f \in raced
      BY Zenon, <2>1, <2>2, <1>2 DEF ConvInv, BeginInv, f
    <3> QED BY Zenon, <2>2, <3>1
  <2>3. CASE open[u] # f
    <3>1. began'[open[u]] = began[open[u]]
      BY Zenon, <2>1, <2>3, <1>3
    <3>2. \A v \in Threads : call'[v].pc = "begin" => call[v].pc = "begin"
      BY Zenon, <1>4
    <3> QED BY Zenon, <2>1, <3>1, <3>2 DEF ConvInv, BeginInv
  <2> QED BY Zenon, <2>2, <2>3
<1>10. SeenInv'
  <2> SUFFICES ASSUME NEW u \in Threads, seen'[u] = "Converting"
               PROVE  open[u] \in Files /\ began'[open[u]] # 0
    BY Zenon, <1>2 DEF SeenInv
  <2>1. CASE u = t
    BY <2>1, <1>1, <1>3 DEF f
  <2>2. CASE u # t
    BY <2>2, <1>3, <1>4 DEF ConvInv, SeenInv
  <2> QED BY Zenon, <2>1, <2>2
<1> QED BY Zenon, <1>7, <1>8, <1>9, <1>10 DEF ConvInv

LEMMA ConvAsk ==
    ASSUME KInv, ConvInv, NEW t \in Threads, NEW q, Ask(t, q)
    PROVE  ConvInv'
<1>1. /\ UNCHANGED <<slab, open, call, history>> /\ open[t] \in Files
      /\ Obj(open[t]) \in Objs /\ slab[Obj(open[t])].ino = open[t]
      /\ Mine(t) = slab[Obj(open[t])]
  BY Zenon, MineFacts DEF Ask
<1>2. /\ seen'[t] \in {Mine(t).mode, seen[t]}
      /\ \A u \in Threads \ {t} : seen'[u] = seen[u]
  BY Zenon DEF Ask, KInv, TypeOK
<1>3. Mine(t).mode = "Converting" => began[open[t]] # 0
  BY Zenon, <1>1 DEF ConvInv, ModeInv
<1>4. SeenInv'
  BY Zenon, <1>1, <1>2, <1>3 DEF ConvInv, SeenInv, history
<1>5. ModeInv' /\ OutReset' /\ BeginInv'
  BY Zenon, <1>1 DEF ConvInv, ModeInv, OutReset, InCore, BeginInv, history
<1> QED BY Zenon, <1>4, <1>5 DEF ConvInv

LEMMA ConvIoctl ==
    ASSUME KInv, ConvInv, Ioctl
    PROVE  ConvInv'
<1>k. ASSUME NEW t \in Threads, UNCHANGED <<open, seen, began, raced>>, call' \in [Threads -> Calls],
             \A u \in Threads \ {t} : call'[u].pc = call[u].pc, call'[t].pc # "begin",
             \A o \in Objs : slab'[o].ino = slab[o].ino /\ slab'[o].mode = slab[o].mode
      PROVE  ConvInv'
  BY Zenon, <1>k, ConvFrame
<1>c. CallOK' /\ Calls' = Calls
  BY Zenon, IoctlStep DEF KInv, Calls, NoCall, Begins, Sets, GetNs, Gets, Slots, Words
<1>d. call' \in [Threads -> Calls] /\ call \in [Threads -> Calls]
  BY Zenon, <1>c DEF CallOK, KInv
<1>1. ASSUME NEW t \in Threads, NEW req, SetRedundancy(t, req) PROVE ConvInv'
  <2>1. call' = [Disturb(open[t]) EXCEPT ![t] =
            [pc |-> "set", req |-> req, todo |-> 0 .. Len(req), alone |-> Doing(open[t], {"set"}) = {}]]
    BY Zenon, <1>1 DEF SetRedundancy
  <2>2. call'[t].pc = "set" /\ \A u \in Threads \ {t} : call'[u].pc = call[u].pc
    BY Zenon, <2>1, DisturbFacts
  <2>3. UNCHANGED <<slab, open, seen, history>>
    BY Zenon, <1>1 DEF SetRedundancy
  <2> QED BY Zenon, <2>2, <2>3, <1>d, <1>k DEF history
<1>2. ASSUME NEW t \in Threads, NEW i \in 0 .. MaxSlots, SetStore(t, i) PROVE ConvInv'
  <2>1. UNCHANGED <<open, seen, began, raced>> /\ call[t] \in Sets
    BY Zenon, <1>2, SetStoreFacts DEF SetStore
  <2>2. \/ call' = [call EXCEPT ![t] = NoCall]
        \/ call' = [call EXCEPT ![t].todo = @ \ {i}]
    BY Zenon, <1>2 DEF SetStore
  <2>3. call'[t] = NoCall \/ call'[t] = [call[t] EXCEPT !.todo = @ \ {i}]
    BY Zenon, <2>2, <1>d
  <2>4. call'[t].pc # "begin"
    BY ONLY SMTT(20), <2>1, <2>3 DEF Sets, NoCall
  <2>5. \A u \in Threads \ {t} : call'[u].pc = call[u].pc
    BY Zenon, <2>2, <1>d
  <2> QED BY Zenon, <2>1, <2>4, <2>5, <1>2, <1>d, <1>k, SetStoreFacts
<1>3. ASSUME NEW t \in Threads, GetRedundancy(t) \/ GetLength(t) \/ GetReturns(t) PROVE ConvInv'
  <2>1. UNCHANGED <<slab, open, seen, history>>
    BY Zenon, <1>3 DEF GetRedundancy, GetLength, GetReturns
  <2>2. call'[t].pc # "begin" /\ \A u \in Threads \ {t} : call'[u] = call[u]
    BY <1>3, <1>d DEF GetRedundancy, GetLength, GetReturns, NoCall
  <2> QED BY Zenon, <2>1, <2>2, <1>d, <1>k DEF history
<1>4. ASSUME NEW t \in Threads, NEW i, GetSlot(t, i) PROVE ConvInv'
  <2>1. UNCHANGED <<slab, open, seen, history>> /\ call[t].pc = "get"
    BY Zenon, <1>4 DEF GetSlot
  <2>2. call[t] \in Gets
    BY ONLY SMTT(20), <2>1, <1>d, t \in Threads DEF Calls, NoCall, Begins, Sets, GetNs
  <2>3. /\ call'[t] = [call[t] EXCEPT !.todo = @ \ {i}, !.slots[i] = Mine(t).slots[i]]
        /\ \A u \in Threads \ {t} : call'[u] = call[u]
    BY Zenon, <1>4, <1>d DEF GetSlot
  <2>4. call'[t].pc # "begin"
    BY ONLY Zenon, <2>2, <2>3 DEF Gets
  <2> QED BY Zenon, <2>1, <2>3, <2>4, <1>d, <1>k DEF history
<1> QED BY Zenon, <1>1, <1>2, <1>3, <1>4, ConvAsk, ConvBegin, ConvStore DEF Ioctl

LEMMA ConvHolds == Spec => [](KInv /\ ConvInv)
<1>1. Init => ConvInv
  <2> SUFFICES ASSUME Init PROVE ConvInv
    BY Zenon
  <2>1. ModeInv
    BY Zenon, Names DEF Init, ModeInv
  <2>2. OutReset /\ SeenInv /\ BeginInv
    BY Zenon DEF Init, OutReset, SeenInv, BeginInv, NoCall
  <2> QED BY Zenon, <2>1, <2>2 DEF ConvInv
<1>2. KInv /\ ConvInv /\ [Next]_vars => ConvInv'
  <2> SUFFICES ASSUME KInv, ConvInv, [Next]_vars PROVE ConvInv'
    BY Zenon
  <2>1. CASE UNCHANGED vars
    BY Zenon, <2>1, ConvFrame DEF vars, threads, history
  <2> QED BY Zenon, <2>1, ConvModule, ConvMount, ConvInode, ConvIoctl DEF Next
<1> QED BY <1>1, <1>2, KInvHolds, PTL DEF Spec

(* Two unlocked calls may begin one conversion twice, but only if they      *)
(* overlap, and a file is converting only if a call has begun it: for any   *)
(* number of threads, files and evictions.                                  *)
THEOREM BegunOnce == Spec => []BeginsOnce
<1>1. ConvInv => BeginsOnce
  BY Zenon DEF ConvInv, ModeInv, BeginsOnce
<1> QED BY <1>1, ConvHolds, PTL

(* No thread is ever told of a conversion and then, with the file still     *)
(* open, that the file is append-only.                                      *)
THEOREM AnswersHold == Spec => []SeenHolds
<1>1. KInv /\ ConvInv => SeenHolds
  <2> SUFFICES ASSUME KInv, ConvInv, NEW t \in Threads, seen[t] = "Converting"
               PROVE  InCore(open[t]) /\ Mine(t).mode = "Converting"
    BY Zenon DEF SeenHolds
  <2>1. open[t] \in Files /\ began[open[t]] # 0
    BY Zenon DEF ConvInv, SeenInv
  <2>2. InCore(open[t])
    BY Zenon, <2>1 DEF KInv, CoreInv
  <2>3. Obj(open[t]) \in Objs /\ slab[Obj(open[t])].ino = open[t]
    BY Zenon, <2>2 DEF InCore, Obj
  <2> QED BY Zenon, <2>1, <2>2, <2>3 DEF ConvInv, ModeInv, Mine
<1> QED BY <1>1, ConvHolds, PTL

-----------------------------------------------------------------------------
(* Policies.  A call that is setting or getting one, on file f.             *)
Setting(t, f) == call[t].pc = "set" /\ open[t] = f
Getting(t, f) == call[t].pc \in {"get_n", "get"} /\ open[t] = f
Own(f)        == {f} \X Marks

(* What an object that holds file f has of its policy: a slot below n is of *)
(* this file, or a call will still store it.  When no call is storing and   *)
(* the last ones did not overlap, it is the policy they set.                *)
ObjPolicy(o, f) ==
    /\ \A i \in 1 .. slab[o].n :
          slab[o].slots[i] \in Own(f) \/ \E u \in Threads : Setting(u, f) /\ i \in call[u].todo
    /\ f \notin mixed /\ (\A u \in Threads : ~Setting(u, f)) =>
          /\ slab[o].n = Len(policy[f])
          /\ \A i \in 1 .. slab[o].n : slab[o].slots[i] = policy[f][i]

(* What a SET_REDUNDANCY has stored so far.                                 *)
SetPolicy(t, o, f) ==
    /\ \A i \in 1 .. Len(call[t].req) :
          /\ call[t].req[i] \in Own(f)
          /\ i \in call[t].todo \/ slab[o].slots[i] \in Own(f)
    /\ call[t].alone =>
          /\ \A u \in Threads \ {t} : ~Setting(u, f)
          /\ 0 \in call[t].todo \/ slab[o].n = Len(call[t].req)
          /\ \A i \in 1 .. Len(call[t].req) :
                i \in call[t].todo \/ slab[o].slots[i] = call[t].req[i]

(* What a GET_REDUNDANCY that met no SET_REDUNDANCY has read so far.        *)
GetPolicy(t, o, f) ==
    call[t].alone =>
        /\ \A u \in Threads : ~Setting(u, f)
        /\ call[t].n = slab[o].n
        /\ call[t].pc = "get_n" => \A i \in 1 .. MaxSlots : call[t].slots[i] = <<>>
        /\ call[t].pc = "get" =>
              /\ call[t].todo \subseteq 1 .. slab[o].n
              /\ \A i \in 1 .. MaxSlots :
                    call[t].slots[i] = IF i \in (1 .. slab[o].n) \ call[t].todo
                                       THEN slab[o].slots[i] ELSE <<>>

OutPolicy == \A f \in Files : ~InCore(f) => policy[f] = <<>> /\ f \notin mixed

InPolicy(o, f) ==
    /\ ObjPolicy(o, f)
    /\ \A t \in Threads : Setting(t, f) => SetPolicy(t, o, f)
    /\ \A t \in Threads : Getting(t, f) => GetPolicy(t, o, f)

PolInv ==
    /\ OutPolicy
    /\ \A o \in Objs, f \in Files : slab[o].ino = f => InPolicy(o, f)

(* Steps that leave the policy of a file alone, and every call on it but    *)
(* one that reads it.                                                       *)
LEMMA PolSame ==
    ASSUME NEW o \in Objs, NEW f \in Files, InPolicy(o, f),
           slab'[o].n = slab[o].n, slab'[o].slots = slab[o].slots,
           policy'[f] = policy[f], f \in mixed' <=> f \in mixed,
           \A u \in Threads : Setting(u, f)' <=> Setting(u, f),
           \A u \in Threads : Setting(u, f)' => call'[u] = call[u],
           \A u \in Threads : Getting(u, f)' =>
               (call'[u] = call[u] /\ Getting(u, f)) \/ GetPolicy(u, o, f)'
    PROVE  InPolicy(o, f)'
<1>1. ObjPolicy(o, f)'
  <2>1. \A i \in 1 .. slab[o].n :
            slab[o].slots[i] \in Own(f) \/ \E u \in Threads : Setting(u, f)' /\ i \in call'[u].todo
    BY Zenon DEF InPolicy, ObjPolicy
  <2>2. f \notin mixed' /\ (\A u \in Threads : ~Setting(u, f)') =>
          /\ slab[o].n = Len(policy[f])
          /\ \A i \in 1 .. slab[o].n : slab[o].slots[i] = policy[f][i]
    BY Zenon DEF InPolicy, ObjPolicy
  <2> QED BY Zenon, <2>1, <2>2 DEF ObjPolicy, Own
<1>2. ASSUME NEW t \in Threads, Setting(t, f)' PROVE SetPolicy(t, o, f)'
  <2>1. call'[t] = call[t] /\ SetPolicy(t, o, f)
    BY Zenon, <1>2 DEF InPolicy
  <2>2. call[t].alone => \A u \in Threads \ {t} : ~Setting(u, f)'
    BY Zenon, <2>1 DEF SetPolicy
  <2> QED BY Zenon, <2>1, <2>2 DEF SetPolicy, Own
<1>3. ASSUME NEW t \in Threads, Getting(t, f)' PROVE GetPolicy(t, o, f)'
  <2>1. CASE call'[t] = call[t] /\ Getting(t, f)
    <3>1. GetPolicy(t, o, f)
      BY Zenon, <2>1 DEF InPolicy
    <3>2. call[t].alone => \A u \in Threads : ~Setting(u, f)'
      BY Zenon, <3>1 DEF GetPolicy
    <3> QED BY Zenon, <2>1, <3>1, <3>2 DEF GetPolicy
  <2> QED BY Zenon, <2>1, <1>3
<1> QED BY Zenon, <1>1, <1>2, <1>3 DEF InPolicy

(* The calls on policies go on as they were, or one returns that only read. *)
SameCall(t) ==
    \/ call'[t] = call[t] /\ (call[t].pc \in {"set", "get_n", "get"} => open'[t] = open[t])
    \/ call'[t].pc \notin {"set", "get_n", "get"} /\ call[t].pc # "set"

LEMMA SameCalls ==
    ASSUME NEW u \in Threads, SameCall(u), NEW f \in Files
    PROVE  /\ Setting(u, f)' <=> Setting(u, f)
           /\ Setting(u, f)' => call'[u] = call[u]
           /\ Getting(u, f)' => call'[u] = call[u] /\ Getting(u, f)
  BY Zenon DEF SameCall, Setting, Getting

(* An inode that comes into core has no policy, and nobody asks for one.    *)
LEMMA PolFresh ==
    ASSUME NEW o \in Objs, NEW f \in Files, \A u \in Threads : ~Setting(u, f)' /\ ~Getting(u, f)',
           slab'[o].n = 0, policy'[f] = <<>>
    PROVE  InPolicy(o, f)'
<1>1. Len(policy'[f]) = 0 /\ 1 .. slab'[o].n = {}
  OBVIOUS
<1>2. ObjPolicy(o, f)'
  BY Zenon, <1>1 DEF ObjPolicy
<1> QED BY Zenon, <1>2 DEF InPolicy

LEMMA PolFrame ==
    ASSUME PolInv, OutPolicy', \A u \in Threads : SameCall(u),
           \A o \in Objs : slab'[o].ino \in Files =>
               /\ policy'[slab'[o].ino] = policy[slab'[o].ino]
               /\ slab'[o].ino \in mixed' <=> slab'[o].ino \in mixed
               /\ \/ slab'[o].ino = slab[o].ino /\ slab'[o].n = slab[o].n /\ slab'[o].slots = slab[o].slots
                  \/ /\ slab'[o].n = 0 /\ policy[slab'[o].ino] = <<>>
                     /\ \A u \in Threads : call[u].pc # "none" => open[u] # slab'[o].ino
    PROVE  PolInv'
<1> SUFFICES ASSUME NEW o \in Objs, NEW f \in Files, slab'[o].ino = f
             PROVE  InPolicy(o, f)'
  BY Zenon DEF PolInv
<1>1. \A u \in Threads : /\ Setting(u, f)' <=> Setting(u, f)
                         /\ Setting(u, f)' => call'[u] = call[u]
                         /\ Getting(u, f)' => call'[u] = call[u] /\ Getting(u, f)
  BY Zenon, SameCalls
<1>2. policy'[f] = policy[f] /\ (f \in mixed' <=> f \in mixed)
  BY Zenon
<1>3. CASE slab[o].ino = f /\ slab'[o].n = slab[o].n /\ slab'[o].slots = slab[o].slots
  <2>1. InPolicy(o, f)
    BY Zenon, <1>3 DEF PolInv
  <2> QED BY Zenon, <1>1, <1>2, <1>3, <2>1, PolSame
<1>4. CASE /\ slab'[o].n = 0 /\ policy[f] = <<>>
           /\ \A u \in Threads : call[u].pc # "none" => open[u] # f
  <2>1. \A u \in Threads : ~Setting(u, f) /\ ~Getting(u, f)
    BY Zenon, <1>4 DEF Setting, Getting
  <2> QED BY Zenon, <1>1, <1>2, <1>4, <2>1, PolFresh
<1> QED BY Zenon, <1>3, <1>4

(* OutPolicy, when files leave the core and their history with them.        *)
LEMMA OutKept ==
    ASSUME OutPolicy, policy' = policy, mixed' = mixed, \A f \in Files : InCore(f) => InCore(f)'
    PROVE  OutPolicy'
  BY Zenon DEF OutPolicy

LEMMA PolDrop ==
    ASSUME KInv, PolInv, NEW is \in SUBSET Inos, Drop(is), open' = open, call' = call
    PROVE  PolInv'
<1>1. \A o \in Objs : /\ slab'[o].ino = IF slab[o].ino \in is THEN "rcu" ELSE slab[o].ino
                      /\ slab[o].ino \notin is => slab'[o] = slab[o]
  BY Zenon, DropFacts DEF KInv
<1>2. \A f \in Files : /\ policy'[f] = IF f \in is THEN <<>> ELSE policy[f]
                       /\ f \in is => f \notin mixed'
                       /\ f \notin is => (f \in mixed' <=> f \in mixed)
  BY Zenon DEF Drop
<1>3. OutPolicy'
  <2> SUFFICES ASSUME NEW f \in Files, ~InCore(f)' PROVE policy'[f] = <<>> /\ f \notin mixed'
    BY Zenon DEF OutPolicy
  <2>1. CASE f \in is
    BY Zenon, <2>1, <1>2
  <2>2. CASE f \notin is
    <3>1. ~InCore(f)
      BY Zenon, <2>2, <1>1 DEF InCore
    <3> QED BY Zenon, <3>1, <2>2, <1>2 DEF PolInv, OutPolicy
  <2> QED BY Zenon, <2>1, <2>2
<1>4. ASSUME NEW o \in Objs, slab'[o].ino \in Files
      PROVE  slab'[o] = slab[o] /\ slab'[o].ino \notin is
  BY Zenon, <1>1, <1>4, Names
<1>5. \A u \in Threads : SameCall(u)
  BY Zenon DEF SameCall
<1> QED BY Zenon, <1>2, <1>3, <1>4, <1>5, PolFrame

(* Nothing about policies changes but where they are kept.                  *)
LEMMA PolQuiet ==
    ASSUME PolInv, policy' = policy, mixed' = mixed, \A u \in Threads : SameCall(u),
           \A o \in Objs : slab'[o].ino \in Files =>
               slab'[o].ino = slab[o].ino /\ slab'[o].n = slab[o].n /\ slab'[o].slots = slab[o].slots,
           \A o \in Objs : slab[o].ino \in Files => slab'[o].ino = slab[o].ino
    PROVE  PolInv'
<1>1. \A f \in Files : InCore(f) => InCore(f)'
  BY Zenon DEF InCore
<1>2. OutPolicy'
  BY Zenon, <1>1, OutKept DEF PolInv
<1> QED BY Zenon, <1>2, PolFrame

LEMMA PolModule ==
    ASSUME PolInv, Module
    PROVE  PolInv'
<1>1. UNCHANGED <<slab, threads, history>>
  BY Zenon DEF Module, CreateCache, RegisterCtl, RegisterFs, UnregisterFs,
     DeregisterCtl, RcuBarrier, DestroyCache
<1> QED BY Zenon, <1>1, PolQuiet DEF threads, history, SameCall

LEMMA PolMount ==
    ASSUME KInv, PolInv, Mount
    PROVE  PolInv'
<1>1. CASE ReadSuper \/ RejectSuper \/ AcceptSuper \/ MakeRoot
  <2>1. UNCHANGED <<slab, threads, history>>
    BY Zenon, <1>1 DEF ReadSuper, RejectSuper, AcceptSuper, MakeRoot
  <2> QED BY Zenon, <2>1, PolQuiet DEF threads, history, SameCall
<1>2. CASE RootInode
  <2>1. PICK o \in Objs : Free(o) /\ AllocInode(o, Root)
    BY Zenon, <1>2 DEF RootInode
  <2>2. UNCHANGED <<threads, history>>
    BY Zenon, <1>2 DEF RootInode
  <2>3. slab'[o].ino = Root /\ \A p \in Objs \ {o} : slab'[p] = slab[p]
    BY Zenon, <2>1, AllocFacts, Names DEF KInv, TypeOK, Objects
  <2>4. slab[o].ino \notin Files
    BY Zenon, <2>1, Names DEF Free
  <2> QED BY Zenon, <2>2, <2>3, <2>4, Names, PolQuiet DEF threads, history, SameCall
<1>3. CASE MountFails \/ Unmount
  <2>1. \E is \in SUBSET Inos : Drop(is)
    BY Zenon, <1>3, Names DEF MountFails, Unmount
  <2>2. open' = open /\ call' = call
    BY Zenon, <1>3 DEF MountFails, Unmount, threads
  <2> QED BY Zenon, <2>1, <2>2, PolDrop
<1> QED BY Zenon, <1>1, <1>2, <1>3 DEF Mount

LEMMA PolOpen ==
    ASSUME KInv, PolInv, NEW t \in Threads, NEW f \in Files, Open(t, f)
    PROVE  PolInv'
<1>1. /\ call' = call /\ policy' = policy /\ mixed' = mixed /\ open[t] = NoFile
      /\ open' = [open EXCEPT ![t] = f] /\ IgetFile(f)
  BY Zenon DEF Open, history
<1>2. call[t].pc = "none"
  BY Zenon, <1>1, Names DEF KInv, CallOK
<1>3. \A u \in Threads : SameCall(u)
  BY Zenon, <1>1, <1>2 DEF SameCall, KInv, TypeOK
<1>4. \A g \in Files : InCore(g) => InCore(g)'
  BY <1>1, IgetFacts, Names DEF InCore
<1>5. OutPolicy'
  BY Zenon, <1>1, <1>4, OutKept DEF PolInv
<1>6. ASSUME NEW o \in Objs, slab'[o].ino \in Files, slab'[o] # slab[o]
      PROVE  /\ slab'[o].n = 0 /\ policy[slab'[o].ino] = <<>>
             /\ \A u \in Threads : call[u].pc # "none" => open[u] # slab'[o].ino
  <2>1. ~InCore(f) /\ slab'[o].ino = f /\ slab'[o].n = 0
    BY Zenon, <1>1, <1>6, IgetFacts
  <2>2. \A u \in Threads : call[u].pc # "none" => InCore(open[u])
    BY Zenon DEF KInv, CallOK, CoreInv
  <2> QED BY Zenon, <2>1, <2>2 DEF PolInv, OutPolicy
<1> QED BY Zenon, <1>1, <1>3, <1>5, <1>6, PolFrame

LEMMA PolInode ==
    ASSUME KInv, PolInv, Inode
    PROVE  PolInv'
<1>1. ASSUME NEW t \in Threads, Close(t) PROVE PolInv'
  <2>1. /\ UNCHANGED <<slab, call, policy, mixed>> /\ call[t].pc = "none"
        /\ open' = [open EXCEPT ![t] = NoFile]
    BY <1>1 DEF Close, history, NoCall
  <2>2. \A u \in Threads : SameCall(u)
    BY Zenon, <2>1 DEF SameCall, KInv, TypeOK
  <2> QED BY Zenon, <2>1, <2>2, PolQuiet
<1>2. ASSUME NEW f \in Files, Evict(f) PROVE PolInv'
  <2>1. Drop({f}) /\ {f} \in SUBSET Inos /\ open' = open /\ call' = call
    BY Zenon, <1>2, Names DEF Evict, threads
  <2> QED BY Zenon, <2>1, PolDrop
<1>3. ASSUME NEW x \in Objs, FreeInode(x) PROVE PolInv'
  <2>1. /\ UNCHANGED <<open, call, policy, mixed>> /\ slab[x].ino = "rcu"
        /\ slab' = [slab EXCEPT ![x].ino = "free"] /\ slab \in [Objs -> Objects]
    BY Zenon, <1>3 DEF FreeInode, KInv, TypeOK, Objects, threads, history
  <2>2. slab'[x].ino = "free" /\ \A o \in Objs \ {x} : slab'[o] = slab[o]
    BY Zenon, <2>1 DEF Objects
  <2> QED BY Zenon, <2>1, <2>2, Names, PolQuiet DEF SameCall
<1> QED BY Zenon, <1>1, <1>2, <1>3, PolOpen DEF Inode

-----------------------------------------------------------------------------
(* Reading a policy.                                                        *)
LEMMA PolRead ==
    ASSUME KInv, PolInv, NEW t \in Threads, NEW o \in Objs, slab[o].ino = open[t],
           UNCHANGED <<slab, open, policy, mixed>>,
           \A u \in Threads \ {t} : call'[u] = call[u], call[t].pc # "set", call'[t].pc # "set",
           \A f \in Files : Getting(t, f)' => GetPolicy(t, o, f)'
    PROVE  PolInv'
<1>1. OutPolicy'
  BY Zenon, OutKept DEF PolInv, InCore
<1>2. ASSUME NEW p \in Objs, NEW f \in Files, slab[p].ino = f PROVE InPolicy(p, f)'
  <2>1. \A u \in Threads : /\ Setting(u, f)' <=> Setting(u, f)
                           /\ Setting(u, f)' => call'[u] = call[u]
    BY Zenon DEF Setting
  <2>2. ASSUME NEW u \in Threads, Getting(u, f)'
        PROVE  (call'[u] = call[u] /\ Getting(u, f)) \/ GetPolicy(u, p, f)'
    <3>1. CASE u # t
      BY Zenon, <2>2, <3>1 DEF Getting
    <3>2. CASE u = t
      <4>1. open[t] = f
        BY Zenon, <2>2, <3>2 DEF Getting
      <4>2. p = o
        BY Zenon, <4>1, <1>2, Names DEF KInv, CoreInv
      <4> QED BY Zenon, <2>2, <3>2, <4>2
    <3> QED BY Zenon, <3>1, <3>2
  <2>3. InPolicy(p, f)
    BY Zenon, <1>2 DEF PolInv
  <2> QED BY Zenon, <2>1, <2>2, <2>3, PolSame
<1> QED BY Zenon, <1>1, <1>2 DEF PolInv

LEMMA PolGetRedundancy ==
    ASSUME KInv, PolInv, NEW t \in Threads, GetRedundancy(t)
    PROVE  PolInv'
<1>1. PICK o : o = Obj(open[t])
  BY Zenon
<1>2. /\ o \in Objs /\ slab[o].ino = open[t] /\ Mine(t) = slab[o]
      /\ UNCHANGED <<slab, open, policy, mixed>> /\ call[t].pc # "set"
  <2>1. Ready(t) /\ UNCHANGED <<slab, open, policy, mixed>>
    BY Zenon DEF GetRedundancy, history
  <2>2. o \in Objs /\ slab[o].ino = open[t] /\ Mine(t) = slab[o]
    BY Zenon, <2>1, <1>1, MineFacts
  <2>3. call[t] = [pc |-> "none"]
    BY Zenon, <2>1 DEF Ready, NoCall
  <2>4. call[t].pc # "set"
    BY ONLY SMTT(20), <2>3
  <2> QED BY ONLY Zenon, <2>1, <2>2, <2>4
<1> DEFINE lone == Doing(open[t], {"set"}) = {}
<1>a. lone \in BOOLEAN /\ (lone => \A u \in Threads : ~Setting(u, open[t]))
  BY Zenon DEF Doing, Setting
<1>b. call' = [call EXCEPT ![t] = [pc |-> "get_n", n |-> Mine(t).n, slots |-> Zeros, alone |-> lone]]
  BY Zenon DEF GetRedundancy
<1> HIDE DEF lone
<1>3. /\ call'[t] = [pc |-> "get_n", n |-> slab[o].n, slots |-> Zeros, alone |-> lone]
      /\ \A u \in Threads \ {t} : call'[u] = call[u]
  BY Zenon, <1>2, <1>b DEF KInv, CallOK
<1>c. /\ call'[t].pc = "get_n" /\ call'[t].alone = lone
      /\ call'[t].n = slab[o].n /\ call'[t].slots = Zeros
  BY ONLY SMTT(20), <1>3
<1>d. call'[t].pc # "set" /\ call'[t].pc # "get"
  BY ONLY Zenon, <1>c
<1>4. ASSUME NEW f \in Files, Getting(t, f)' PROVE GetPolicy(t, o, f)'
  <2>1. open[t] = f
    BY Zenon, <1>2, <1>4 DEF Getting
  <2>2. ASSUME call'[t].alone, NEW u \in Threads PROVE ~Setting(u, f)'
    <3>1. ~Setting(u, f)
      BY Zenon, <2>1, <2>2, <1>c, <1>a
    <3> QED BY Zenon, <3>1, <1>2, <1>3, <1>d DEF Setting
  <2>3. \A i \in 1 .. MaxSlots : Zeros[i] = <<>>
    BY ONLY Zenon DEF Zeros
  <2> QED BY Zenon, <2>2, <2>3, <1>2, <1>c, <1>d DEF GetPolicy
<1> QED BY Zenon, <1>2, <1>3, <1>4, <1>d, PolRead

LEMMA PolGetLength ==
    ASSUME KInv, PolInv, NEW t \in Threads, GetLength(t)
    PROVE  PolInv'
<1>1. PICK o : o = Obj(open[t])
  BY Zenon
<1>2. /\ o \in Objs /\ slab[o].ino = open[t] /\ Mine(t) = slab[o] /\ open[t] \in Files
      /\ UNCHANGED <<slab, open, policy, mixed>> /\ call[t].pc = "get_n"
  BY Zenon, <1>1, MineFacts DEF GetLength, history
<1>3. /\ call'[t] = [pc |-> "get", n |-> call[t].n, slots |-> call[t].slots,
                     alone |-> call[t].alone, todo |-> 1 .. slab[o].n]
      /\ \A u \in Threads \ {t} : call'[u] = call[u]
  BY Zenon, <1>2 DEF GetLength, KInv, CallOK
<1>c. /\ call'[t].pc = "get" /\ call'[t].alone = call[t].alone /\ call'[t].n = call[t].n
      /\ call'[t].slots = call[t].slots /\ call'[t].todo = 1 .. slab[o].n
  BY ONLY SMTT(20), <1>3
<1>d. call[t].pc # "set" /\ call'[t].pc # "set" /\ call'[t].pc # "get_n"
  BY ONLY Zenon, <1>c, <1>2
<1>4. ASSUME NEW f \in Files, Getting(t, f)' PROVE GetPolicy(t, o, f)'
  <2>1. Getting(t, f) /\ GetPolicy(t, o, f)
    BY Zenon, <1>2, <1>4 DEF Getting, PolInv, InPolicy
  <2>2. \A u \in Threads : Setting(u, f)' => Setting(u, f)
    BY Zenon, <1>2, <1>3, <1>d DEF Setting
  <2>3. ASSUME call'[t].alone PROVE GetPolicy(t, o, f)'
    <3>1. /\ \A u \in Threads : ~Setting(u, f)
          /\ call[t].n = slab[o].n /\ \A i \in 1 .. MaxSlots : call[t].slots[i] = <<>>
      BY Zenon, <2>1, <2>3, <1>c, <1>2 DEF GetPolicy
    <3>2. /\ call'[t].todo \subseteq 1 .. slab[o].n
          /\ \A i \in 1 .. MaxSlots :
                call'[t].slots[i] = IF i \in (1 .. slab[o].n) \ call'[t].todo
                                    THEN slab[o].slots[i] ELSE <<>>
      BY ONLY Zenon, <3>1, <1>c
    <3>3. \A u \in Threads : ~Setting(u, f)'
      BY Zenon, <3>1, <2>2
    <3> QED BY Zenon, <3>1, <3>2, <3>3, <1>2, <1>c, <1>d DEF GetPolicy
  <2> QED BY Zenon, <2>3 DEF GetPolicy
<1> QED BY Zenon, <1>2, <1>3, <1>4, <1>d, PolRead

LEMMA PolGetSlot ==
    ASSUME KInv, PolInv, NEW t \in Threads, NEW i, GetSlot(t, i)
    PROVE  PolInv'
<1>1. PICK o : o = Obj(open[t])
  BY Zenon
<1>2. /\ o \in Objs /\ slab[o].ino = open[t] /\ Mine(t) = slab[o] /\ open[t] \in Files
      /\ UNCHANGED <<slab, open, policy, mixed>> /\ call[t].pc = "get" /\ i \in call[t].todo
  BY Zenon, <1>1, MineFacts DEF GetSlot, history
<1>3. /\ call'[t] = [call[t] EXCEPT !.todo = @ \ {i}, !.slots[i] = slab[o].slots[i]]
      /\ \A u \in Threads \ {t} : call'[u] = call[u] /\ call[t] \in Calls
  BY Zenon, <1>2 DEF GetSlot, KInv, CallOK
<1>4. call[t] \in Gets
  <2>1. call[t] \in Calls
    BY Zenon DEF KInv, CallOK
  <2> QED BY ONLY SMTT(20), <2>1, <1>2 DEF Calls, NoCall, Begins, Sets, GetNs
<1>5. /\ call'[t].pc = "get" /\ call'[t].n = call[t].n /\ call'[t].alone = call[t].alone
      /\ call'[t].todo = call[t].todo \ {i}
      /\ \A j \in 1 .. MaxSlots :
            call'[t].slots[j] = IF j = i THEN slab[o].slots[i] ELSE call[t].slots[j]
  BY ONLY Zenon, <1>3, <1>4 DEF Gets, Slots
<1>6. ASSUME NEW f \in Files, Getting(t, f)' PROVE GetPolicy(t, o, f)'
  <2>1. Getting(t, f) /\ GetPolicy(t, o, f)
    BY Zenon, <1>2, <1>6 DEF Getting, PolInv, InPolicy
  <2>2. \A u \in Threads : Setting(u, f)' => Setting(u, f)
    BY Zenon, <1>2, <1>3, <1>5 DEF Setting
  <2>3. ASSUME call[t].alone PROVE /\ call'[t].todo \subseteq 1 .. slab[o].n
              /\ \A j \in 1 .. MaxSlots :
                    call'[t].slots[j] = IF j \in (1 .. slab[o].n) \ call'[t].todo
                                        THEN slab[o].slots[j] ELSE <<>>
    BY Zenon, <2>1, <2>3, <1>2, <1>5 DEF GetPolicy
  <2> QED BY Zenon, <2>1, <2>2, <2>3, <1>2, <1>5 DEF GetPolicy
<1> QED BY Zenon, <1>2, <1>3, <1>5, <1>6, PolRead

(* Setting a policy.                                                        *)
LEMMA RequestOwn ==
    ASSUME NEW f \in Files, NEW req \in Requests(f)
    PROVE  \A i \in 1 .. Len(req) : req[i] \in Own(f)
<1>1. PICK s \in Schemes : req = [i \in 1 .. Len(s) |-> <<f, s[i]>>]
  BY Zenon DEF Requests
<1>2. s \in Seq(Marks) /\ Len(s) \in Nat
  BY KernelAssumption
<1> QED BY <1>1, <1>2 DEF Own

LEMMA DisturbAlone ==
    ASSUME KInv, NEW f, NEW u \in Threads
    PROVE  /\ u \notin Doing(f, {"set", "get_n", "get"}) => Disturb(f)[u] = call[u]
           /\ u \in Doing(f, {"set", "get_n", "get"}) => Disturb(f)[u].alone = FALSE
<1>1. CASE u \in Doing(f, {"set", "get_n", "get"})
  <2>1. call[u].pc \in {"set", "get_n", "get"} /\ call[u] \in Calls
    BY Zenon, <1>1 DEF Doing, KInv, CallOK
  <2>2. call[u] \in Sets \cup GetNs \cup Gets
    BY ONLY SMTT(20), <2>1 DEF Calls, NoCall, Begins
  <2>3. Disturb(f)[u] = [call[u] EXCEPT !.alone = FALSE]
    BY Zenon, <1>1 DEF Disturb
  <2> QED BY ONLY Zenon, <2>2, <2>3, <1>1 DEF Sets, GetNs, Gets
<1> QED BY Zenon, <1>1 DEF Disturb

LEMMA PolSetRedundancy ==
    ASSUME KInv, PolInv, NEW t \in Threads, NEW req \in Requests(open[t]), SetRedundancy(t, req)
    PROVE  PolInv'
<1>1. PICK f : f = open[t]
  BY Zenon
<1>2. /\ f \in Files /\ call[t] = NoCall /\ UNCHANGED <<slab, open, policy, mixed>>
      /\ req \in Requests(f)
  BY Zenon, <1>1, MineFacts DEF SetRedundancy, Ready, history
<1> DEFINE lone == Doing(open[t], {"set"}) = {}
<1>a. lone \in BOOLEAN /\ (lone => \A u \in Threads : ~Setting(u, f))
  BY Zenon, <1>1 DEF Doing, Setting
<1>b. call' = [Disturb(f) EXCEPT ![t] =
                  [pc |-> "set", req |-> req, todo |-> 0 .. Len(req), alone |-> lone]]
  BY Zenon, <1>1 DEF SetRedundancy
<1> HIDE DEF lone
<1>3. /\ call'[t] = [pc |-> "set", req |-> req, todo |-> 0 .. Len(req), alone |-> lone]
      /\ \A u \in Threads \ {t} : call'[u] = Disturb(f)[u]
  BY Zenon, <1>b, DisturbFacts
<1>4. ASSUME NEW u \in Threads \ {t}
      PROVE  /\ call'[u].pc = call[u].pc
             /\ call[u].pc = "set" => call'[u].req = call[u].req /\ call'[u].todo = call[u].todo
             /\ Setting(u, f) \/ Getting(u, f) => call'[u].alone = FALSE
             /\ ~Setting(u, f) /\ ~Getting(u, f) => call'[u] = call[u]
  <2>1. Setting(u, f) \/ Getting(u, f) <=> u \in Doing(f, {"set", "get_n", "get"})
    BY Zenon DEF Setting, Getting, Doing
  <2>2. call'[u] = Disturb(f)[u]
    BY Zenon, <1>3
  <2>3. /\ Setting(u, f) \/ Getting(u, f) => call'[u].alone = FALSE
        /\ ~Setting(u, f) /\ ~Getting(u, f) => call'[u] = call[u]
    BY Zenon, <2>1, <2>2, DisturbAlone
  <2>4. /\ Disturb(f)[u].pc = call[u].pc
        /\ call[u].pc = "set" => Disturb(f)[u].req = call[u].req /\ Disturb(f)[u].todo = call[u].todo
    BY Zenon, DisturbFacts
  <2> QED BY Zenon, <2>2, <2>3, <2>4
<1>5. \A u \in Threads \ {t}, g \in Files : /\ Setting(u, g)' <=> Setting(u, g)
                                            /\ Getting(u, g)' <=> Getting(u, g)
  BY Zenon, <1>2, <1>4 DEF Setting, Getting
<1>6. /\ \A g \in Files : ~Setting(t, g) /\ ~Getting(t, g)' /\ (Setting(t, g)' => g = f)
      /\ Setting(t, f)'
  BY <1>1, <1>2, <1>3 DEF Setting, Getting, NoCall
<1>7. OutPolicy'
  BY Zenon, <1>2, OutKept DEF PolInv, InCore
<1>8. ASSUME NEW o \in Objs, NEW g \in Files, slab[o].ino = g, g # f PROVE InPolicy(o, g)'
  <2>1. InPolicy(o, g)
    BY Zenon, <1>8 DEF PolInv
  <2>2. ASSUME NEW u \in Threads, Setting(u, g) \/ Getting(u, g) PROVE call'[u] = call[u]
    <3>1. u # t /\ ~Setting(u, f) /\ ~Getting(u, f)
      BY Zenon, <2>2, <1>1, <1>8 DEF Setting, Getting
    <3> QED BY Zenon, <3>1, <1>4
  <2>3. \A u \in Threads : /\ Setting(u, g)' <=> Setting(u, g)
                           /\ Getting(u, g)' => Getting(u, g)
    BY Zenon, <1>5, <1>6, <1>8
  <2> QED BY Zenon, <1>2, <2>1, <2>2, <2>3, PolSame
<1>9. ASSUME NEW o \in Objs, slab[o].ino = f PROVE InPolicy(o, f)'
  <2>1. InPolicy(o, f)
    BY Zenon, <1>2, <1>9 DEF PolInv
  <2>2. ObjPolicy(o, f)'
    <3>1. ASSUME NEW i \in 1 .. slab[o].n, slab[o].slots[i] \notin Own(f)
          PROVE  \E u \in Threads : Setting(u, f)' /\ i \in call'[u].todo
      <4>1. PICK u \in Threads : Setting(u, f) /\ i \in call[u].todo
        BY Zenon, <2>1, <3>1 DEF InPolicy, ObjPolicy
      <4>2. u # t
        BY Zenon, <4>1, <1>2, <1>6
      <4>3. call'[u].todo = call[u].todo /\ Setting(u, f)'
        BY Zenon, <4>1, <4>2, <1>2, <1>4, <1>5 DEF Setting
      <4> QED BY Zenon, <4>1, <4>3
    <3> QED BY Zenon, <3>1, <1>2, <1>6 DEF ObjPolicy, Own
  <2>3. SetPolicy(t, o, f)'
    <3>1. \A i \in 1 .. Len(req) : req[i] \in Own(f) /\ i \in 0 .. Len(req)
      BY <1>2, RequestOwn, RequestFacts
    <3>2. 0 \in 0 .. Len(req)
      BY <1>2, RequestFacts
    <3>3. lone => \A u \in Threads \ {t} : ~Setting(u, f)'
      BY Zenon, <1>2, <1>5, <1>a
    <3> QED BY <3>1, <3>2, <3>3, <1>3 DEF SetPolicy, Own
  <2>4. ASSUME NEW u \in Threads \ {t}, Setting(u, f)' PROVE SetPolicy(u, o, f)'
    <3>1. Setting(u, f) /\ SetPolicy(u, o, f)
      BY Zenon, <2>1, <2>4, <1>2, <1>5 DEF InPolicy
    <3>2. call'[u].req = call[u].req /\ call'[u].todo = call[u].todo /\ call'[u].alone = FALSE
      BY Zenon, <3>1, <1>4 DEF Setting
    <3> QED BY Zenon, <3>1, <3>2, <1>2 DEF SetPolicy, Own
  <2>5. ASSUME NEW u \in Threads, Getting(u, f)' PROVE GetPolicy(u, o, f)'
    <3>1. u # t /\ Getting(u, f)
      BY Zenon, <2>5, <1>2, <1>5, <1>6
    <3> QED BY Zenon, <3>1, <1>4 DEF GetPolicy
  <2> QED BY Zenon, <2>2, <2>3, <2>4, <2>5 DEF InPolicy
<1> QED BY Zenon, <1>2, <1>7, <1>8, <1>9 DEF PolInv

(* What one store of SET_REDUNDANCY does to the object and to the calls.    *)
LEMMA StoreFacts ==
    ASSUME KInv, NEW t \in Threads, NEW i \in 0 .. MaxSlots, SetStore(t, i),
           NEW o \in Objs, slab[o].ino = open[t]
    PROVE  /\ slab'[o].n = IF i = 0 THEN Len(call[t].req) ELSE slab[o].n
           /\ \A j \in 1 .. MaxSlots :
                 slab'[o].slots[j] = IF j = i THEN call[t].req[j] ELSE slab[o].slots[j]
           /\ \A p \in Objs \ {o} : slab'[p] = slab[p]
<1>1. /\ o = Obj(open[t]) /\ slab \in [Objs -> Objects] /\ open[t] \in Files
  BY MineFacts, Names DEF SetStore, KInv, CoreInv, TypeOK, Objects
<1> DEFINE x == slab[o]
           new == IF i = 0 THEN [x EXCEPT !.n = Len(call[t].req)]
                           ELSE [x EXCEPT !.slots[i] = call[t].req[i]]
<1>2. slab' = [slab EXCEPT ![o] = new]
  BY Zenon, <1>1 DEF SetStore
<1>3. x \in Objects
  BY Zenon, <1>1
<1> HIDE DEF x
<1>4. /\ new.n = IF i = 0 THEN Len(call[t].req) ELSE x.n
      /\ \A j \in 1 .. MaxSlots : new.slots[j] = IF j = i THEN call[t].req[j] ELSE x.slots[j]
  <2>1. CASE i = 0
    BY <1>3, <2>1 DEF Objects
  <2>2. CASE i # 0
    <3>1. new = [x EXCEPT !.slots = [x.slots EXCEPT ![i] = call[t].req[i]]]
      BY Zenon, <2>2
    <3>2. new.n = x.n /\ new.slots = [x.slots EXCEPT ![i] = call[t].req[i]]
      BY ONLY Zenon, <3>1, <1>3 DEF Objects
    <3>3. x.slots \in Slots
      BY Zenon, <1>3 DEF Objects
    <3> HIDE DEF new
    <3>4. \A j \in 1 .. MaxSlots : new.slots[j] = IF j = i THEN call[t].req[i] ELSE x.slots[j]
      BY Zenon, <3>2, <3>3 DEF Slots
    <3> QED BY Zenon, <2>2, <3>2, <3>4
  <2> QED BY Zenon, <2>1, <2>2
<1> HIDE DEF new
<1> QED BY Zenon, <1>1, <1>2, <1>4 DEF x

LEMMA StoreCalls ==
    ASSUME KInv, NEW t \in Threads, NEW i \in 0 .. MaxSlots, SetStore(t, i)
    PROVE  /\ open' = open /\ call[t].pc = "set" /\ i \in call[t].todo
           /\ call[t].alone \in BOOLEAN
           /\ \A u \in Threads \ {t} : call'[u] = call[u]
           /\ call[t].todo = {i} =>
                 /\ call'[t] = NoCall /\ policy'[open[t]] = call[t].req
                 /\ open[t] \notin mixed' => call[t].alone
           /\ call[t].todo # {i} =>
                 /\ call'[t].pc = "set" /\ call'[t].req = call[t].req
                 /\ call'[t].alone = call[t].alone /\ call'[t].todo = call[t].todo \ {i}
           /\ \A g \in Files \ {open[t]} : policy'[g] = policy[g] /\ (g \in mixed' <=> g \in mixed)
<1>1. /\ open[t] \in Files /\ call[t] \in Sets /\ call \in [Threads -> Calls] /\ open' = open
      /\ call[t].pc = "set" /\ i \in call[t].todo /\ policy \in [Files -> Seq(Words)]
  BY Zenon, MineFacts, SetStoreFacts DEF SetStore, KInv, CallOK, TypeOK
<1>2. call[t].alone \in BOOLEAN
  BY Zenon, <1>1 DEF Sets
<1>3. CASE call[t].todo = {i}
  <2>1. /\ call' = [call EXCEPT ![t] = NoCall] /\ policy' = [policy EXCEPT ![open[t]] = call[t].req]
        /\ mixed' = IF call[t].alone THEN mixed \ {open[t]} ELSE mixed \cup {open[t]}
    BY Zenon, <1>3 DEF SetStore
  <2> QED BY Zenon, <1>1, <1>2, <1>3, <2>1
<1>4. CASE call[t].todo # {i}
  <2>1. call' = [call EXCEPT ![t].todo = @ \ {i}] /\ policy' = policy /\ mixed' = mixed
    BY Zenon, <1>4 DEF SetStore
  <2>2. call'[t] = [call[t] EXCEPT !.todo = @ \ {i}] /\ \A u \in Threads \ {t} : call'[u] = call[u]
    BY Zenon, <1>1, <2>1
  <2>3. /\ call'[t].pc = "set" /\ call'[t].req = call[t].req
        /\ call'[t].alone = call[t].alone /\ call'[t].todo = call[t].todo \ {i}
    BY ONLY Zenon, <1>1, <2>2 DEF Sets
  <2> QED BY Zenon, <1>1, <1>2, <1>4, <2>1, <2>2, <2>3
<1> QED BY Zenon, <1>3, <1>4

LEMMA PolSetStore ==
    ASSUME KInv, PolInv, NEW t \in Threads, NEW i \in 0 .. MaxSlots, SetStore(t, i)
    PROVE  PolInv'
<1>1. PICK f, o, req : f = open[t] /\ o = Obj(f) /\ req = call[t].req
  BY Zenon
<1>2. /\ f \in Files /\ o \in Objs /\ slab[o].ino = f /\ InCore(f)
      /\ \A p \in Objs : slab'[p].ino = slab[p].ino
      /\ \A p \in Objs : slab[p].ino = f => p = o
  BY <1>1, MineFacts, SetStoreFacts, Names DEF SetStore, KInv, CoreInv
<1>3. /\ slab'[o].n = IF i = 0 THEN Len(req) ELSE slab[o].n
      /\ \A j \in 1 .. MaxSlots : slab'[o].slots[j] = IF j = i THEN req[j] ELSE slab[o].slots[j]
      /\ \A p \in Objs \ {o} : slab'[p] = slab[p]
  BY <1>1, <1>2, StoreFacts
<1>4. /\ open' = open /\ call[t].pc = "set" /\ i \in call[t].todo
      /\ call[t].alone \in BOOLEAN
      /\ \A u \in Threads \ {t} : call'[u] = call[u]
      /\ call[t].todo = {i} =>
            /\ call'[t] = NoCall /\ policy'[f] = req
            /\ f \notin mixed' => call[t].alone
      /\ call[t].todo # {i} =>
            /\ call'[t].pc = "set" /\ call'[t].req = req
            /\ call'[t].alone = call[t].alone /\ call'[t].todo = call[t].todo \ {i}
      /\ \A g \in Files \ {f} : policy'[g] = policy[g] /\ (g \in mixed' <=> g \in mixed)
  BY Zenon, <1>1, StoreCalls
<1>5. /\ slab[o].n \in 0 .. MaxSlots /\ Len(req) \in 0 .. MaxSlots
      /\ call[t].todo \subseteq 0 .. Len(req) /\ MaxSlots \in Nat
  <2>1. slab[o] \in Objects /\ call[t].req \in Seq(Words)
    BY Zenon, <1>1, <1>2, SetStoreFacts DEF KInv, TypeOK, Objects, Sets
  <2>2. Len(req) <= MaxSlots /\ call[t].todo \subseteq 0 .. Len(req)
    BY Zenon, <1>1, <1>4 DEF KInv, CallOK
  <2>3. Len(req) \in Nat
    BY <1>1, <2>1
  <2>4. slab[o].n \in 0 .. MaxSlots
    BY ONLY Zenon, <2>1 DEF Objects
  <2>5. MaxSlots \in Nat
    BY Zenon, KernelAssumption
  <2>6. Len(req) \in 0 .. MaxSlots
    BY ONLY SMTT(20), <2>2, <2>3, <2>5
  <2> QED BY ONLY Zenon, <2>2, <2>4, <2>5, <2>6
<1>6. /\ \A u \in Threads \ {t}, g \in Files : /\ Setting(u, g)' <=> Setting(u, g)
                                               /\ Getting(u, g)' <=> Getting(u, g)
      /\ \A g \in Files : Setting(t, g) <=> g = f
      /\ \A g \in Files : ~Getting(t, g)'
      /\ \A g \in Files : Setting(t, g)' <=> g = f /\ call[t].todo # {i}
  <2>1. \A u \in Threads \ {t}, g \in Files : /\ Setting(u, g)' <=> Setting(u, g)
                                              /\ Getting(u, g)' <=> Getting(u, g)
    BY Zenon, <1>4 DEF Setting, Getting
  <2>2. \A g \in Files : Setting(t, g) <=> g = f
    BY Zenon, <1>1, <1>4 DEF Setting
  <2>3. CASE call[t].todo = {i}
    <3>0. call'[t] = NoCall
      BY Zenon, <2>3, <1>4
    <3>1. call'[t].pc = "none"
      BY ONLY SMTT(20), <3>0 DEF NoCall
    <3>2. call'[t].pc # "set" /\ call'[t].pc \notin {"get_n", "get"}
      BY ONLY Zenon, <3>1
    <3> QED BY Zenon, <2>1, <2>2, <2>3, <3>2 DEF Setting, Getting
  <2>4. CASE call[t].todo # {i}
    <3>1. call'[t].pc = "set"
      BY Zenon, <2>4, <1>4
    <3>2. call'[t].pc \notin {"get_n", "get"}
      BY ONLY Zenon, <3>1
    <3> QED BY Zenon, <1>1, <1>4, <2>1, <2>2, <2>4, <3>1, <3>2 DEF Setting, Getting
  <2> QED BY ONLY Zenon, <2>3, <2>4
<1>7. OutPolicy'
  <2> SUFFICES ASSUME NEW g \in Files, ~InCore(g)' PROVE policy'[g] = <<>> /\ g \notin mixed'
    BY Zenon DEF OutPolicy
  <2>1. ~InCore(g) /\ g # f
    BY Zenon, <1>2 DEF InCore
  <2> QED BY Zenon, <2>1, <1>4 DEF PolInv, OutPolicy
<1>8. ASSUME NEW p \in Objs, NEW g \in Files, slab[p].ino = g, g # f PROVE InPolicy(p, g)'
  <2>1. InPolicy(p, g) /\ slab'[p] = slab[p]
    BY Zenon, <1>2, <1>3, <1>8 DEF PolInv
  <2>2. \A u \in Threads : /\ Setting(u, g)' <=> Setting(u, g)
                           /\ Setting(u, g)' => call'[u] = call[u]
                           /\ Getting(u, g)' => call'[u] = call[u] /\ Getting(u, g)
    BY Zenon, <1>4, <1>6, <1>8
  <2>3. policy'[g] = policy[g] /\ (g \in mixed' <=> g \in mixed)
    BY Zenon, <1>4, <1>8
  <2> QED BY Zenon, <2>1, <2>2, <2>3, PolSame
<1>a. InPolicy(o, f) /\ SetPolicy(t, o, f)
  BY Zenon, <1>2, <1>6 DEF PolInv, InPolicy
<1>9. InPolicy(o, f)'
  <2>1. \A j \in 1 .. Len(req) : /\ req[j] \in Own(f)
                                 /\ j \in call[t].todo \ {i} \/ slab'[o].slots[j] \in Own(f)
    BY <1>a, <1>1, <1>3, <1>5 DEF SetPolicy
  <2>2. ASSUME NEW j \in 1 .. slab'[o].n, slab'[o].slots[j] \notin Own(f)
        PROVE  \E u \in Threads : Setting(u, f)' /\ j \in call'[u].todo
    <3>1. CASE j \in 1 .. Len(req)
      BY Zenon, <3>1, <2>1, <2>2, <1>2, <1>4, <1>6
    <3>2. CASE j \notin 1 .. Len(req)
      <4>1. j \in 1 .. slab[o].n /\ j # i /\ j \in 1 .. MaxSlots
        BY <3>2, <1>3, <1>4, <1>5
      <4>2. slab[o].slots[j] \notin Own(f)
        BY Zenon, <4>1, <2>2, <1>3
      <4>3. PICK u \in Threads : Setting(u, f) /\ j \in call[u].todo
        BY Zenon, <4>1, <4>2, <1>a DEF InPolicy, ObjPolicy
      <4>4. u # t
        BY <4>1, <4>3, <3>2, <1>5
      <4> QED BY Zenon, <4>3, <4>4, <1>2, <1>4, <1>6
    <3> QED BY Zenon, <3>1, <3>2
  <2>3. ASSUME call[t].alone
        PROVE  /\ \A u \in Threads \ {t} : ~Setting(u, f)
               /\ 0 \in call[t].todo \ {i} \/ slab'[o].n = Len(req)
               /\ \A j \in 1 .. Len(req) : j \in call[t].todo \ {i} \/ slab'[o].slots[j] = req[j]
    <3>1. /\ \A u \in Threads \ {t} : ~Setting(u, f)
          /\ 0 \in call[t].todo \/ slab[o].n = Len(req)
          /\ \A j \in 1 .. Len(req) : j \in call[t].todo \/ slab[o].slots[j] = req[j]
      BY Zenon, <2>3, <1>a, <1>1 DEF SetPolicy
    <3> QED BY ONLY SMTT(20), <3>1, <1>3, <1>5
  <2>4. ASSUME f \notin mixed', \A u \in Threads : ~Setting(u, f)'
        PROVE  /\ slab'[o].n = Len(policy'[f])
               /\ \A j \in 1 .. slab'[o].n : slab'[o].slots[j] = policy'[f][j]
    <3>1. call[t].todo = {i}
      BY Zenon, <2>4, <1>2, <1>6
    <3>2. call[t].alone /\ policy'[f] = req
      BY Zenon, <3>1, <2>4, <1>4
    <3> QED BY Zenon, <3>1, <3>2, <2>3
  <2>5. ObjPolicy(o, f)'
    BY Zenon, <2>2, <2>4 DEF ObjPolicy, Own
  <2>6. ASSUME NEW u \in Threads, Setting(u, f)' PROVE SetPolicy(u, o, f)'
    <3>1. CASE u = t
      <4>1. /\ call'[t].req = req /\ call'[t].alone = call[t].alone
            /\ call'[t].todo = call[t].todo \ {i}
        BY Zenon, <2>6, <3>1, <1>2, <1>4, <1>6
      <4>2. call[t].alone => \A v \in Threads \ {t} : ~Setting(v, f)'
        BY Zenon, <2>3, <1>2, <1>6
      <4> QED BY Zenon, <3>1, <4>1, <4>2, <2>1, <2>3 DEF SetPolicy, Own
    <3>2. CASE u # t
      <4>1. call'[u] = call[u] /\ SetPolicy(u, o, f) /\ Setting(t, f) /\ Setting(u, f)
        BY Zenon, <2>6, <3>2, <1>2, <1>4, <1>6, <1>a DEF InPolicy
      <4>2. ~call[u].alone
        BY Zenon, <3>2, <4>1 DEF SetPolicy
      <4>3. Len(call[u].req) \in 0 .. MaxSlots
        <5>1. call[u] \in Calls /\ call[u].pc = "set"
          BY Zenon, <4>1 DEF Setting, KInv, CallOK
        <5>2. call[u].req \in Seq(Words)
          BY ONLY SMTT(20), <5>1 DEF Calls, NoCall, Begins, Sets, GetNs, Gets
        <5>3. Len(call[u].req) <= MaxSlots
          BY Zenon, <5>1 DEF KInv, CallOK
        <5> QED BY <5>2, <5>3, <1>5
      <4>4. \A j \in 1 .. Len(call[u].req) : /\ call[u].req[j] \in Own(f)
                                             /\ j \in call[u].todo \/ slab'[o].slots[j] \in Own(f)
        <5> SUFFICES ASSUME NEW j \in 1 .. Len(call[u].req)
                     PROVE  /\ call[u].req[j] \in Own(f)
                            /\ j \in call[u].todo \/ slab'[o].slots[j] \in Own(f)
          BY Zenon
        <5>1. /\ call[u].req[j] \in Own(f) /\ (j \in call[u].todo \/ slab[o].slots[j] \in Own(f))
              /\ j \in 1 .. MaxSlots
          BY <4>1, <4>3, <1>5 DEF SetPolicy
        <5>2. j = i => j \in 1 .. Len(req)
          BY <5>1, <1>4, <1>5
        <5> QED BY Zenon, <5>1, <5>2, <2>1, <1>3
      <4> QED BY Zenon, <4>1, <4>2, <4>4 DEF SetPolicy, Own
    <3> QED BY Zenon, <3>1, <3>2
  <2>7. ASSUME NEW u \in Threads, Getting(u, f)' PROVE GetPolicy(u, o, f)'
    <3>1. u # t /\ call'[u] = call[u] /\ Getting(u, f)
      BY Zenon, <2>7, <1>2, <1>4, <1>6
    <3>2. ~call[u].alone
      BY Zenon, <3>1, <1>2, <1>6, <1>a DEF InPolicy, GetPolicy
    <3> QED BY Zenon, <3>1, <3>2 DEF GetPolicy
  <2> QED BY Zenon, <2>5, <2>6, <2>7 DEF InPolicy
<1> QED BY Zenon, <1>2, <1>7, <1>8, <1>9 DEF PolInv

LEMMA PolIoctl ==
    ASSUME KInv, PolInv, Ioctl
    PROVE  PolInv'
<1>1. ASSUME NEW t \in Threads, NEW q, Ask(t, q) PROVE PolInv'
  BY Zenon, <1>1, PolQuiet DEF Ask, SameCall, history
<1>2. ASSUME NEW t \in Threads, BeginConvert(t) PROVE PolInv'
  <2>1. UNCHANGED <<slab, open, policy, mixed>> /\ call[t] = NoCall
    BY Zenon, <1>2 DEF BeginConvert, Ready
  <2>2. call' = call \/ call' = [call EXCEPT ![t] = [pc |-> "begin"]]
    BY Zenon, <1>2 DEF BeginConvert
  <2>3. \A u \in Threads : SameCall(u)
    BY <2>1, <2>2 DEF SameCall, KInv, CallOK, NoCall
  <2> QED BY Zenon, <2>1, <2>3, PolQuiet
<1>3. ASSUME NEW t \in Threads, StoreMode(t) PROVE PolInv'
  <2>1. /\ UNCHANGED <<open, policy, mixed>> /\ call[t].pc = "begin"
        /\ call' = [call EXCEPT ![t] = NoCall]
        /\ slab' = [slab EXCEPT ![Obj(open[t])].mode = "Converting"]
    BY Zenon, <1>3 DEF StoreMode
  <2>2. \A u \in Threads : SameCall(u)
    BY Zenon, <2>1 DEF SameCall, KInv, CallOK, NoCall
  <2>3. slab \in [Objs -> Objects]
    BY Zenon DEF KInv, TypeOK, Objects
  <2>4. \A o \in Objs : /\ slab'[o].ino = slab[o].ino /\ slab'[o].n = slab[o].n
                        /\ slab'[o].slots = slab[o].slots
    BY ONLY Zenon, <2>1, <2>3 DEF Objects
  <2> QED BY Zenon, <2>1, <2>2, <2>4, PolQuiet
<1>4. ASSUME NEW t \in Threads, GetReturns(t) PROVE PolInv'
  <2>1. /\ UNCHANGED <<slab, open, policy, mixed>> /\ call[t].pc = "get"
        /\ call' = [call EXCEPT ![t] = NoCall]
    BY Zenon, <1>4 DEF GetReturns, Got, history
  <2>2. \A u \in Threads : SameCall(u)
    BY Zenon, <2>1 DEF SameCall, KInv, CallOK, NoCall
  <2> QED BY Zenon, <2>1, <2>2, PolQuiet
<1> QED
  BY Zenon, <1>1, <1>2, <1>3, <1>4, PolSetRedundancy, PolSetStore, PolGetRedundancy,
     PolGetLength, PolGetSlot DEF Ioctl

(* A GET_REDUNDANCY that meets no SET_REDUNDANCY answers with the policy    *)
(* last set since the file came into core, or, after two that overlapped,   *)
(* with slots of this file only: for any number of threads and slots, in    *)
(* whichever order the stores and loads of the unlocked ioctls happen, and  *)
(* whatever the slab object held before.                                    *)
THEOREM PolicyRead == Spec => []QuietGet
<1>1. Init => PolInv
  <2> SUFFICES ASSUME Init PROVE PolInv
    BY Zenon
  <2>1. OutPolicy
    BY Zenon DEF Init, OutPolicy
  <2>2. \A o \in Objs : slab[o].ino \notin Files
    BY Zenon, Names DEF Init
  <2> QED BY Zenon, <2>1, <2>2 DEF PolInv
<1>2. KInv /\ PolInv /\ [Next]_vars => PolInv'
  <2> SUFFICES ASSUME KInv, PolInv, [Next]_vars PROVE PolInv'
    BY Zenon
  <2>1. CASE UNCHANGED vars
    BY Zenon, <2>1, PolQuiet DEF vars, threads, history, SameCall
  <2> QED BY Zenon, <2>1, PolModule, PolMount, PolInode, PolIoctl DEF Next
<1>3. KInv /\ PolInv => QuietGet
  <2> SUFFICES ASSUME KInv, PolInv, NEW t \in Threads, Got(t), call[t].alone
               PROVE  IF open[t] \in mixed
                      THEN \A i \in 1 .. call[t].n : call[t].slots[i] \in {open[t]} \X Marks
                      ELSE /\ call[t].n = Len(policy[open[t]])
                           /\ \A i \in 1 .. MaxSlots :
                                 call[t].slots[i] = IF i <= call[t].n THEN policy[open[t]][i] ELSE <<>>
    BY Zenon DEF QuietGet
  <2>1. PICK f, o : f = open[t] /\ o = Obj(f)
    BY Zenon
  <2>2. /\ f \in Files /\ o \in Objs /\ slab[o].ino = f /\ slab[o] \in Objects
        /\ Getting(t, f) /\ call[t].pc = "get" /\ call[t].todo = {}
    BY Zenon, <2>1, MineFacts DEF Got, Getting
  <2>3. InPolicy(o, f) /\ GetPolicy(t, o, f)
    BY Zenon, <2>2 DEF PolInv, InPolicy
  <2>4. /\ \A u \in Threads : ~Setting(u, f)
        /\ call[t].n = slab[o].n
        /\ \A i \in 1 .. MaxSlots :
              call[t].slots[i] = IF i \in 1 .. slab[o].n THEN slab[o].slots[i] ELSE <<>>
    BY Zenon, <2>2, <2>3 DEF GetPolicy
  <2>5. slab[o].n \in 0 .. MaxSlots /\ MaxSlots \in Nat
    BY Zenon, <2>2, KernelAssumption DEF Objects
  <2>6. CASE f \in mixed
    <3>1. \A i \in 1 .. slab[o].n : slab[o].slots[i] \in Own(f)
      BY Zenon, <2>3, <2>4 DEF InPolicy, ObjPolicy
    <3>2. \A i \in 1 .. slab[o].n : i \in 1 .. MaxSlots
      BY <2>5
    <3> QED BY Zenon, <2>1, <2>4, <2>6, <3>1, <3>2 DEF Own
  <2>7. CASE f \notin mixed
    <3>1. /\ slab[o].n = Len(policy[f])
          /\ \A i \in 1 .. slab[o].n : slab[o].slots[i] = policy[f][i]
      BY Zenon, <2>3, <2>4, <2>7 DEF InPolicy, ObjPolicy
    <3>2. \A i \in 1 .. MaxSlots : i \in 1 .. slab[o].n <=> i <= slab[o].n
      BY <2>5
    <3> QED BY Zenon, <2>1, <2>4, <2>7, <3>1, <3>2
  <2> QED BY Zenon, <2>6, <2>7
<1> QED BY <1>1, <1>2, <1>3, KInvHolds, PTL DEF Spec
=============================================================================
