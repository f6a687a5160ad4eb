------------------------------ MODULE Placement -------------------------------
(***************************************************************************)
(* Which disks a file's replicas go to: place_redundancy and               *)
(* hrw_select_one (tartine-kcore/placement.rs), called by the wrapper in   *)
(* tartine-core/placement.rs for every append and every extent.            *)
(*                                                                         *)
(* The candidates come out of a HashMap, so that the loop over them may    *)
(* take them in any order; one step looks at one candidate.  A disk's hash *)
(* for the key of this placement is any value.  After a placement, one     *)
(* disk leaves the pool and the same key is placed again, which is how     *)
(* much a change of the pool moves.                                        *)
(***************************************************************************)
EXTENDS Integers, Sequences

CONSTANTS
    Disks,      \* candidates: disks with the data role
    NoDisk,     \* None, UNPLACED
    Id,         \* disk id, a number
    Class,      \* class of each disk
    AnyClass,   \* CLASS_ANY
    NoPin,      \* ReplicaSlotSpec.pinned = 0
    SlotSpecs,  \* [pin, class] of the slots a scheme may have
    MaxSlots,   \* bound: slots of a scheme
    MaxSelect,  \* MAX_SELECT
    Raws,       \* hash values
    NegLog2,    \* neg_log2_q16 of each hash value
    Weights,    \* weight_milli
    Scale       \* 2^64

ASSUME PlacementAssumption ==
    /\ NoDisk \notin Disks /\ NoPin \notin Disks
    /\ Id \in [Disks -> Int]
    /\ \A c, d \in Disks : Id[c] = Id[d] => c = d
    /\ MaxSlots \in Nat /\ MaxSelect \in Nat
    /\ Raws \subseteq Nat /\ NegLog2 \in [Raws -> Nat]
    /\ Weights \subseteq Nat /\ Scale \in Nat

(* A higher hash value never has a higher -log2.                            *)
ASSUME LogAntitone == \A r, s \in Raws : r < s => NegLog2[s] <= NegLog2[r]

VARIABLES
    active,    \* disks whose DiskState is Active
    raw,       \* hash of each disk with the key
    weight,    \* weight of each disk
    slots,     \* the slots of the scheme
    phase,     \* "first" placement, "left": a disk has left, "done"
    visited,   \* candidates the loop has looked at for the current slot
    best,      \* best candidate so far
    excluded,  \* disks chosen for earlier slots
    out,       \* what was chosen for the slots so far
    before,    \* history: the first placement
    gone       \* history: the disk that left after it

pool == <<active, raw, weight, slots>>
loop == <<visited, best>>
vars == <<pool, phase, loop, excluded, out, before, gone>>

Schemes == UNION {[1 .. n -> SlotSpecs] : n \in 0 .. MaxSlots}

(* Slots the call works on.                                                 *)
N == IF Len(slots) < MaxSelect THEN Len(slots) ELSE MaxSelect

Init ==
    /\ active \in SUBSET Disks
    /\ raw \in [Disks -> Raws] /\ weight \in [Disks -> Weights]
    /\ slots \in Schemes
    /\ phase = "first" /\ visited = {} /\ best = NoDisk
    /\ excluded = {} /\ out = <<>>
    /\ before = <<>> /\ gone = NoDisk

-----------------------------------------------------------------------------
(* Mutant of Score: the weight is multiplied, and the greatest still wins.  *)
ScoreProduct(d) == (IF weight[d] > 1 THEN weight[d] ELSE 1) * (NegLog2[raw[d]] + 1)

(* score_from: a weight of 0 counts as 1.                                   *)
Score(d) == ((IF weight[d] > 1 THEN weight[d] ELSE 1) * Scale) \div (NegLog2[raw[d]] + 1)

(* Mutant of Beats: ties of the score are not broken.                       *)
BeatsByScore(c, d) == Score(c) > Score(d)

(* beats: the order of <<score, raw, id>>.                                  *)
Beats(c, d) ==
    \/ Score(c) > Score(d)
    \/ Score(c) = Score(d) /\ raw[c] > raw[d]
    \/ Score(c) = Score(d) /\ raw[c] = raw[d] /\ Id[c] > Id[d]

(* The slot's own condition on a disk: the pinned one, or the class.        *)
Allows(slot, d) ==
    IF slot.pin # NoPin THEN d = slot.pin
    ELSE slot.class = AnyClass \/ Class[d] = slot.class

(* Mutant of Eligible: disks of earlier slots are not excluded.             *)
EligibleAgain(slot, used, d) == d \in active /\ Allows(slot, d)

Eligible(slot, used, d) == d \in active /\ d \notin used /\ Allows(slot, d)

Slot == slots[Len(out) + 1]

(* Mutant of Consider: the last match is kept.                              *)
ConsiderLast(c) ==
    /\ Len(out) < N /\ phase # "done"
    /\ c \in Disks \ visited
    /\ visited' = visited \cup {c}
    /\ best' = IF Eligible(Slot, excluded, c) THEN c ELSE best
    /\ UNCHANGED <<pool, phase, excluded, out, before, gone>>

(* One round of hrw_select_one's loop; of a pinned slot's find_map, which   *)
(* has at most one match.                                                   *)
Consider(c) ==
    /\ Len(out) < N /\ phase # "done"
    /\ c \in Disks \ visited
    /\ visited' = visited \cup {c}
    /\ best' = IF Eligible(Slot, excluded, c) /\ (best = NoDisk \/ Beats(c, best))
               THEN c ELSE best
    /\ UNCHANGED <<pool, phase, excluded, out, before, gone>>

(* The loop is over: the slot gets the best candidate or UNPLACED.          *)
FinishSlot ==
    /\ Len(out) < N /\ phase # "done"
    /\ visited = Disks
    /\ out' = Append(out, best)
    /\ excluded' = excluded \cup ({best} \ {NoDisk})
    /\ visited' = {} /\ best' = NoDisk
    /\ UNCHANGED <<pool, phase, before, gone>>

(* A disk stops being active, and the key is placed again.                  *)
Leave(d) ==
    /\ phase = "first" /\ Len(out) = N
    /\ d \in active
    /\ active' = active \ {d}
    /\ gone' = d /\ before' = out
    /\ phase' = "left"
    /\ visited' = {} /\ best' = NoDisk /\ excluded' = {} /\ out' = <<>>
    /\ UNCHANGED <<raw, weight, slots>>

Return ==
    /\ phase = "left" /\ Len(out) = N
    /\ phase' = "done"
    /\ UNCHANGED <<pool, loop, excluded, out, before, gone>>

Next ==
    \/ \E c \in Disks : Consider(c)
    \/ FinishSlot
    \/ \E d \in Disks : Leave(d)
    \/ Return

Spec == Init /\ [][Next]_vars

-----------------------------------------------------------------------------
TypeOK ==
    /\ active \subseteq Disks
    /\ raw \in [Disks -> Raws] /\ weight \in [Disks -> Weights]
    /\ slots \in Seq(SlotSpecs)
    /\ phase \in {"first", "left", "done"}
    /\ visited \subseteq Disks /\ best \in Disks \cup {NoDisk}
    /\ excluded \subseteq Disks
    /\ out \in Seq(Disks \cup {NoDisk}) /\ Len(out) <= N
    /\ before \in Seq(Disks \cup {NoDisk})
    /\ gone \in Disks \cup {NoDisk}

Used(i) == {out[j] : j \in 1 .. i - 1}

(* "Replicas never collide" (place_redundancy): two slots of a file never   *)
(* get the same disk, however they are constrained.                         *)
ReplicasDistinct ==
    \A i, j \in 1 .. Len(out) : out[i] # NoDisk /\ out[i] = out[j] => i = j

(* Slot by slot, the result is the best active disk that the slot allows    *)
(* and no earlier slot has taken, and UNPLACED only if there is none: what  *)
(* the loop keeps does not depend on the order of the candidates, "which    *)
(* varies run to run", nor on ties between scores.  It also means that an   *)
(* unconstrained slot can take the disk a later slot is pinned to, which is *)
(* then UNPLACED although its disk is there.                                *)
SlotsGetBest ==
    \A i \in 1 .. Len(out) :
        IF out[i] = NoDisk
        THEN \A d \in Disks : ~Eligible(slots[i], Used(i), d)
        ELSE /\ Eligible(slots[i], Used(i), out[i])
             /\ \A d \in Disks \ {out[i]} :
                   Eligible(slots[i], Used(i), d) => Beats(out[i], d)

(* A disk that leaves the pool moves only what was on it: if the first      *)
(* placement did not use it, the second one is the same, slot by slot.      *)
LeavingMovesNothing ==
    phase # "first" /\ (\A i \in 1 .. Len(before) : before[i] # gone) =>
        \A i \in 1 .. Len(out) : out[i] = before[i]

Uniform == \A i, j \in 1 .. Len(slots) : slots[i] = slots[j] /\ slots[i].pin = NoPin

(* The second placement has reached the slot of the disk that left.         *)
GoneBy(i) == \E j \in 1 .. i : before[j] = gone

(* With equal slots (the default scheme, hrw_select), the disks that stay   *)
(* keep their order, and those behind the disk that left move up by one     *)
(* slot, so that the next best one is added at the end.                     *)
OthersKeepTheirOrder ==
    phase = "done" /\ Uniform =>
        \A i \in 1 .. Len(before) : before[i] \notin {NoDisk, gone} =>
            out[IF GoneBy(i) THEN i - 1 ELSE i] = before[i]

(* With equal slots and equal weights the hash alone decides: a disk is     *)
(* chosen before every disk of a lower hash.  The logarithm loses bits but  *)
(* never turns two hash values round, and where it makes their scores equal *)
(* the hash itself breaks the tie.                                          *)
HigherHashWins ==
    Len(out) = N /\ Uniform /\ (\A c, d \in Disks : weight[c] = weight[d]) =>
        \A i \in 1 .. Len(out) : out[i] # NoDisk =>
            \A d \in active : Allows(slots[i], d) /\ raw[d] > raw[out[i]] => d \in Used(i)
=============================================================================
