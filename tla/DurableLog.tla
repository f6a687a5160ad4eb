------------------------------ MODULE DurableLog ------------------------------
(***************************************************************************)
(* What MetaStore promises its callers about the metadata log, without     *)
(* disks, frames or replicas: a sequence of operations in which an         *)
(* acknowledged operation keeps its position through every crash.  An      *)
(* operation that was interrupted or refused may turn up after a restart   *)
(* or be gone, but it neither displaces an acknowledged one nor appears    *)
(* twice.  MetaWal implements this specification.                          *)
(***************************************************************************)
EXTENDS Naturals, Sequences

CONSTANTS Op, Capacity   \* the operations, and how many of them a restart reads

VARIABLES
    up,         \* the store is open and serves calls
    log,        \* the operations its view consists of, << >> while it is down
    committed,  \* <<position, operation>> of every acknowledged operation
    intact      \* no restart has failed to read a part of the log

vars == <<up, log, committed, intact>>

OncePerOp(s) == \A i, j \in 1 .. Len(s) : s[i] = s[j] => i = j

Keeps(s, c) == \A e \in c : e[1] <= Capacity => e[1] <= Len(s) /\ s[e[1]] = e[2]

Init == up = TRUE /\ log = <<>> /\ committed = {} /\ intact = TRUE

Commit(o) ==
    /\ up
    /\ log' = Append(log, o)
    /\ OncePerOp(log')
    /\ committed' = committed \cup {<<Len(log) + 1, o>>}
    /\ UNCHANGED <<up, intact>>

Crash ==
    /\ up
    /\ up' = FALSE
    /\ log' = <<>>
    /\ UNCHANGED <<committed, intact>>

Recover ==
    /\ ~up
    /\ up' = TRUE
    /\ log' \in Seq(Op)
    /\ OncePerOp(log')
    /\ intact' \in BOOLEAN
    /\ intact' => intact /\ Keeps(log', committed)
    /\ UNCHANGED committed

Next == (\E o \in Op : Commit(o)) \/ Crash \/ Recover

Spec == Init /\ [][Next]_vars
=============================================================================
