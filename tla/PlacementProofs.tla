--------------------------- MODULE PlacementProofs ----------------------------
(***************************************************************************)
(* Placement for any number of disks, slots, hash values and weights.      *)
(*                                                                         *)
(* Inside a slot the loop keeps the best of the candidates it has visited; *)
(* between slots, excluded is what the slots before have taken.  Together  *)
(* they give SlotsGetBest, and since Beats is a strict total order, a slot *)
(* has at most one best disk: a second placement that finds the disk of    *)
(* the first one still there must choose it again.                         *)
(***************************************************************************)
EXTENDS Placement, TLAPS

(* The clock of a prover also runs while the next obligation is prepared.   *)
USE SMTT(20)

-----------------------------------------------------------------------------
(* The loop's invariant: best is the best visited candidate.                *)
LoopBest ==
    Len(out) < N =>
        IF best = NoDisk
        THEN \A d \in visited : ~Eligible(Slot, excluded, d)
        ELSE /\ best \in visited /\ Eligible(Slot, excluded, best)
             /\ \A d \in visited \ {best} : Eligible(Slot, excluded, d) => Beats(best, d)

ExcludedIsUsed == excluded = {out[j] : j \in 1 .. Len(out)} \ {NoDisk}

(* The same facts about the first placement, once a disk has left.          *)
UsedBefore(i) == {before[j] : j \in 1 .. i - 1}
EligibleBefore(slot, used, d) ==
    d \in active \cup {gone} /\ d \notin used /\ Allows(slot, d)
BeforeGotBest ==
    phase # "first" =>
        /\ Len(before) = N
        /\ \A i \in 1 .. Len(before) :
              IF before[i] = NoDisk
              THEN \A d \in Disks : ~EligibleBefore(slots[i], UsedBefore(i), d)
              ELSE /\ EligibleBefore(slots[i], UsedBefore(i), before[i])
                   /\ \A d \in Disks \ {before[i]} :
                         EligibleBefore(slots[i], UsedBefore(i), d) => Beats(before[i], d)

IInv == TypeOK /\ LoopBest /\ ExcludedIsUsed /\ SlotsGetBest

-----------------------------------------------------------------------------
(* The score of a disk (score_from) is an integer.                          *)
LEMMA ScoreInt ==
    ASSUME TypeOK, NEW d \in Disks
    PROVE  Score(d) \in Int /\ raw[d] \in Int /\ Id[d] \in Int
<1>1. weight[d] \in Nat /\ raw[d] \in Nat /\ NegLog2[raw[d]] \in Nat /\ Id[d] \in Int
  BY Zenon, PlacementAssumption DEF TypeOK
<1>2. (IF weight[d] > 1 THEN weight[d] ELSE 1) * Scale \in Int
  BY <1>1, PlacementAssumption
<1>3. NegLog2[raw[d]] + 1 \in Nat \ {0}
  BY <1>1
<1> DEFINE num == (IF weight[d] > 1 THEN weight[d] ELSE 1) * Scale
           den == NegLog2[raw[d]] + 1
<1>4. num \div den \in Int
  <2>1. num \in Int /\ den \in Int /\ den > 0
    BY <1>2, <1>3
  <2> HIDE DEF num, den
  <2> QED BY <2>1
<1> QED BY <1>1, <1>4 DEF Score

(* beats orders the disks strictly and totally, ties included.              *)
LEMMA BeatsTotal ==
    ASSUME TypeOK, NEW c \in Disks, NEW d \in Disks
    PROVE  /\ c # d => Beats(c, d) \/ Beats(d, c)
           /\ ~(Beats(c, d) /\ Beats(d, c))
<1>1. Score(c) \in Int /\ raw[c] \in Int /\ Id[c] \in Int
  BY Zenon, ScoreInt
<1>2. Score(d) \in Int /\ raw[d] \in Int /\ Id[d] \in Int
  BY Zenon, ScoreInt
<1>3. c # d => Id[c] # Id[d]
  BY Zenon, PlacementAssumption
<1> QED BY <1>1, <1>2, <1>3 DEF Beats

LEMMA BeatsTransitive ==
    ASSUME TypeOK, NEW b \in Disks, NEW c \in Disks, NEW d \in Disks,
           Beats(b, c), Beats(c, d)
    PROVE  Beats(b, d)
<1>1. Score(b) \in Int /\ raw[b] \in Int /\ Id[b] \in Int
  BY Zenon, ScoreInt
<1>2. Score(c) \in Int /\ raw[c] \in Int /\ Id[c] \in Int
  BY Zenon, ScoreInt
<1>3. Score(d) \in Int /\ raw[d] \in Int /\ Id[d] \in Int
  BY Zenon, ScoreInt
<1> QED BY <1>1, <1>2, <1>3 DEF Beats

-----------------------------------------------------------------------------
LEMMA InitIInv == Init => IInv
<1> SUFFICES ASSUME Init PROVE IInv
  BY Zenon
<1>1. slots \in Seq(SlotSpecs)
  BY PlacementAssumption DEF Init, Schemes
<1>2. N \in Nat /\ Len(out) = 0
  BY <1>1, PlacementAssumption DEF Init, N
<1>3. TypeOK
  BY <1>1, <1>2 DEF Init, TypeOK
<1>4. LoopBest /\ ExcludedIsUsed /\ SlotsGetBest
  BY <1>2 DEF Init, LoopBest, ExcludedIsUsed, SlotsGetBest
<1> QED BY Zenon, <1>3, <1>4 DEF IInv

LEMMA TypeStep == TypeOK /\ [Next]_vars => TypeOK'
<1> SUFFICES ASSUME TypeOK, [Next]_vars PROVE TypeOK'
  BY Zenon
<1>1. N \in Nat
  BY PlacementAssumption DEF TypeOK, N
<1>2. ASSUME NEW c \in Disks, Consider(c) PROVE TypeOK'
  BY Zenon, <1>1, <1>2 DEF Consider, TypeOK, pool, N
<1>3. CASE FinishSlot
  <2>1. out' \in Seq(Disks \cup {NoDisk}) /\ Len(out') = Len(out) + 1
    BY <1>3 DEF FinishSlot, TypeOK
  <2>2. Len(out') <= N'
    BY <1>1, <1>3, <2>1 DEF FinishSlot, TypeOK, pool, N
  <2> QED BY Zenon, <1>3, <2>1, <2>2 DEF FinishSlot, TypeOK, pool
<1>4. ASSUME NEW d \in Disks, Leave(d) PROVE TypeOK'
  <2>1. Len(out') <= N'
    BY <1>1, <1>4 DEF Leave, N
  <2> QED BY <1>4, <2>1 DEF Leave, TypeOK
<1>5. CASE Return
  BY Zenon, <1>5 DEF Return, TypeOK, pool, loop, N
<1>6. CASE UNCHANGED vars
  BY Zenon, <1>6 DEF vars, TypeOK, pool, loop, N
<1> QED BY Zenon, <1>2, <1>3, <1>4, <1>5, <1>6 DEF Next

(* The candidates a slot still may get are compared in the same way after   *)
(* any step that leaves the pool alone.                                     *)
LEMMA PoolUnchanged ==
    ASSUME UNCHANGED pool
    PROVE  /\ \A c, d : Beats(c, d)' <=> Beats(c, d)
           /\ N' = N
           /\ active' = active /\ slots' = slots
  BY DEF pool, Beats, Score, N

(* One round of the loop keeps the best of what it has visited.             *)
LEMMA ConsiderKeepsBest ==
    ASSUME TypeOK, LoopBest, NEW c \in Disks, Consider(c)
    PROVE  LoopBest'
<1>1. UNCHANGED pool /\ out' = out /\ excluded' = excluded
  BY Zenon DEF Consider
<1>2. Slot' = Slot /\ N' = N /\ active' = active
  BY Zenon, <1>1, PoolUnchanged DEF Slot
<1>3. \A a, b : Beats(a, b)' <=> Beats(a, b)
  BY Zenon, <1>1, PoolUnchanged
<1>4. /\ Len(out) < N
      /\ visited' = visited \cup {c} /\ c \notin visited
      /\ best' = IF Eligible(Slot, excluded, c) /\ (best = NoDisk \/ Beats(c, best))
                 THEN c ELSE best
  BY Zenon DEF Consider
<1>5. visited \subseteq Disks /\ NoDisk \notin Disks
  BY Zenon, PlacementAssumption DEF TypeOK
<1> DEFINE E(d) == Eligible(Slot, excluded, d)
<1>6. \A d : Eligible(Slot, excluded, d)' <=> E(d)
  BY Zenon, <1>1, <1>2 DEF Eligible, Allows, pool
<1>7. IF best = NoDisk THEN \A d \in visited : ~E(d)
      ELSE /\ best \in visited /\ E(best)
           /\ \A d \in visited \ {best} : E(d) => Beats(best, d)
  BY Zenon, <1>4 DEF LoopBest
<1> HIDE DEF E
<1>8. IF best' = NoDisk THEN \A d \in visited' : ~E(d)
      ELSE /\ best' \in visited' /\ E(best')
           /\ \A d \in visited' \ {best'} : E(d) => Beats(best', d)
  <2>0. best' = IF E(c) /\ (best = NoDisk \/ Beats(c, best)) THEN c ELSE best
    BY Zenon, <1>4 DEF E
  <2>1. CASE ~E(c)
    BY Zenon, <2>0, <2>1, <1>4, <1>7
  <2>2. CASE E(c) /\ best = NoDisk
    BY Zenon, <2>0, <2>2, <1>4, <1>5, <1>7
  <2>3. CASE E(c) /\ best # NoDisk /\ Beats(c, best)
    <3>1. best \in Disks /\ best' = c
      BY Zenon, <2>0, <2>3, <1>5, <1>7
    <3>2. \A d \in visited \ {best} : E(d) => Beats(c, d)
      BY Zenon, <3>1, <2>3, <1>5, <1>7, BeatsTransitive
    <3> QED BY Zenon, <3>1, <3>2, <2>3, <1>4, <1>5
  <2>4. CASE E(c) /\ best # NoDisk /\ ~Beats(c, best)
    <3>1. best \in Disks /\ best' = best /\ c # best
      BY Zenon, <2>0, <2>4, <1>4, <1>5, <1>7
    <3>2. Beats(best, c)
      BY Zenon, <3>1, <2>4, BeatsTotal
    <3> QED BY Zenon, <3>1, <3>2, <2>4, <1>4, <1>7
  <2> QED BY Zenon, <2>1, <2>2, <2>3, <2>4
<1>9. Len(out)' < N' => Len(out) < N
  BY Zenon, <1>1, <1>2
<1> QED
  BY Zenon, <1>1, <1>2, <1>3, <1>6, <1>8 DEF LoopBest, E

(* A slot that is finished has the best disk the earlier ones have left.    *)
LEMMA FinishSlotGetsBest ==
    ASSUME IInv, FinishSlot
    PROVE  SlotsGetBest' /\ ExcludedIsUsed'
<1>1. UNCHANGED pool /\ out' = Append(out, best) /\ visited = Disks /\ Len(out) < N
  BY Zenon DEF FinishSlot
<1>2. /\ out \in Seq(Disks \cup {NoDisk}) /\ best \in Disks \cup {NoDisk}
      /\ NoDisk \notin Disks
  BY Zenon, PlacementAssumption DEF IInv, TypeOK
<1>3. /\ Len(out') = Len(out) + 1 /\ Len(out) \in Nat
      /\ out'[Len(out) + 1] = best
      /\ \A i \in 1 .. Len(out) : out'[i] = out[i]
  BY <1>1, <1>2
<1>4. \A a, b : Beats(a, b)' <=> Beats(a, b)
  BY Zenon, <1>1, PoolUnchanged
<1>5. \A i \in 1 .. Len(out) + 1 : Used(i)' = Used(i)
  BY <1>3 DEF Used
<1>6. \A d \in Disks : d \in Used(Len(out) + 1) <=> d \in excluded
  BY <1>2, <1>3 DEF IInv, ExcludedIsUsed, Used
<1>7. slots' = slots /\ active' = active
  BY Zenon, <1>1, PoolUnchanged
<1>8. \A slot, used, d : Eligible(slot, used, d)' <=> Eligible(slot, used, d)
  BY Zenon, <1>7 DEF Eligible, Allows
<1>9. ASSUME NEW i \in 1 .. Len(out)
      PROVE  IF out'[i] = NoDisk
             THEN \A d \in Disks : ~Eligible(slots[i], Used(i), d)
             ELSE /\ Eligible(slots[i], Used(i), out'[i])
                  /\ \A d \in Disks \ {out'[i]} :
                        Eligible(slots[i], Used(i), d) => Beats(out'[i], d)
  <2>1. out'[i] = out[i]
    BY Zenon, <1>3
  <2> QED BY Zenon, <2>1 DEF IInv, SlotsGetBest
<1> DEFINE n == Len(out) + 1
<1>10. IF best = NoDisk
       THEN \A d \in Disks : ~Eligible(slots[n], Used(n), d)
       ELSE /\ Eligible(slots[n], Used(n), best)
            /\ \A d \in Disks \ {best} :
                  Eligible(slots[n], Used(n), d) => Beats(best, d)
  <2>1. \A d \in Disks : Eligible(slots[n], Used(n), d) <=> Eligible(Slot, excluded, d)
    BY Zenon, <1>6 DEF Eligible, Slot
  <2> QED BY Zenon, <2>1, <1>1, <1>2 DEF IInv, LoopBest
<1>11. ASSUME NEW i \in 1 .. n
       PROVE  IF out'[i] = NoDisk
              THEN \A d \in Disks : ~Eligible(slots[i], Used(i), d)
              ELSE /\ Eligible(slots[i], Used(i), out'[i])
                   /\ \A d \in Disks \ {out'[i]} :
                         Eligible(slots[i], Used(i), d) => Beats(out'[i], d)
  <2>1. CASE i = n
    BY Zenon, <2>1, <1>3, <1>10
  <2>2. CASE i # n
    <3>1. i \in 1 .. Len(out)
      BY <2>2, <1>3
    <3> QED BY Zenon, <3>1, <1>9
  <2> QED BY Zenon, <2>1, <2>2
<1>12. SlotsGetBest'
  <2> SUFFICES ASSUME NEW i \in 1 .. n
               PROVE  IF out'[i] = NoDisk
                      THEN \A d \in Disks : ~Eligible(slots[i], Used(i), d)'
                      ELSE /\ Eligible(slots[i], Used(i), out[i])'
                           /\ \A d \in Disks \ {out'[i]} :
                                 Eligible(slots[i], Used(i), d)' => Beats(out[i], d)'
    BY Zenon, <1>3 DEF SlotsGetBest
  <2>1. Used(i)' = Used(i) /\ slots'[i] = slots[i]
    BY Zenon, <1>5, <1>7
  <2>2. \A d : Eligible(slots[i], Used(i), d)' <=> Eligible(slots[i], Used(i), d)
    BY Zenon, <2>1, <1>7 DEF Eligible, Allows
  <2>3. Eligible(slots[i], Used(i), out[i])' <=> Eligible(slots[i], Used(i), out'[i])
    BY Zenon, <2>1, <1>7 DEF Eligible, Allows
  <2>4. \A d : Beats(out[i], d)' <=> Beats(out'[i], d)
    BY Zenon, <1>1 DEF Beats, Score, pool
  <2> QED BY Zenon, <2>2, <2>3, <2>4, <1>11
<1>13. ExcludedIsUsed'
  <2>1. excluded' = excluded \cup ({best} \ {NoDisk})
    BY Zenon DEF FinishSlot
  <2>2. {out'[j] : j \in 1 .. Len(out')} = {out[j] : j \in 1 .. Len(out)} \cup {best}
    BY <1>3
  <2> QED BY Zenon, <2>1, <2>2 DEF IInv, ExcludedIsUsed
<1> QED BY Zenon, <1>12, <1>13

(* What the finished slots got is as good after a step that leaves them and *)
(* the pool alone.                                                          *)
LEMMA SlotsFrame ==
    ASSUME SlotsGetBest, UNCHANGED <<pool, out>>
    PROVE  SlotsGetBest'
<1>1. UNCHANGED pool /\ out' = out
  BY Zenon
<1>2. \A i : Used(i)' = Used(i)
  BY Zenon, <1>1 DEF Used
<1>3. slots' = slots
  BY Zenon, <1>1 DEF pool
<1> SUFFICES ASSUME NEW i \in 1 .. Len(out)
             PROVE  IF out'[i] = NoDisk
                    THEN \A d \in Disks : ~Eligible(slots[i], Used(i), d)'
                    ELSE /\ Eligible(slots[i], Used(i), out[i])'
                         /\ \A d \in Disks \ {out'[i]} :
                               Eligible(slots[i], Used(i), d)' => Beats(out[i], d)'
  BY Zenon, <1>1 DEF SlotsGetBest
<1>4. \A d : Eligible(slots[i], Used(i), d)' <=> Eligible(slots[i], Used(i), d)
  BY Zenon, <1>1, <1>2, <1>3 DEF Eligible, Allows, pool
<1>5. Eligible(slots[i], Used(i), out[i])' <=> Eligible(slots[i], Used(i), out[i])
  BY Zenon, <1>1, <1>2, <1>3 DEF Eligible, Allows, pool
<1>6. \A d : Beats(out[i], d)' <=> Beats(out[i], d)
  BY Zenon, <1>1 DEF Beats, Score, pool
<1> QED BY Zenon, <1>1, <1>4, <1>5, <1>6 DEF SlotsGetBest

LEMMA Step == IInv /\ [Next]_vars => IInv'
<1> SUFFICES ASSUME IInv, [Next]_vars PROVE IInv'
  BY Zenon
<1>1. TypeOK'
  BY Zenon, TypeStep DEF IInv
<1>2. ASSUME NEW c \in Disks, Consider(c) PROVE IInv'
  <2>1. LoopBest'
    BY Zenon, <1>2, ConsiderKeepsBest DEF IInv
  <2>2. ExcludedIsUsed'
    BY Zenon, <1>2 DEF Consider, IInv, ExcludedIsUsed
  <2>3. SlotsGetBest'
    BY Zenon, <1>2, SlotsFrame DEF Consider, IInv
  <2> QED BY Zenon, <1>1, <2>1, <2>2, <2>3 DEF IInv
<1>3. CASE FinishSlot
  <2>1. LoopBest'
    BY Zenon, <1>3 DEF FinishSlot, LoopBest
  <2> QED BY Zenon, <1>1, <1>3, <2>1, FinishSlotGetsBest DEF IInv
<1>4. ASSUME NEW d \in Disks, Leave(d) PROVE IInv'
  <2>1. visited' = {} /\ best' = NoDisk /\ excluded' = {} /\ out' = <<>>
    BY Zenon, <1>4 DEF Leave
  <2> QED BY <1>1, <2>1 DEF IInv, LoopBest, ExcludedIsUsed, SlotsGetBest
<1>5. ASSUME UNCHANGED <<pool, loop, excluded, out>> PROVE IInv'
  <2>1. LoopBest'
    <3>1. UNCHANGED pool /\ visited' = visited /\ best' = best /\ excluded' = excluded /\ out' = out
      BY Zenon, <1>5 DEF loop
    <3>2. N' = N /\ Slot' = Slot
      BY Zenon, <3>1 DEF N, Slot, pool
    <3>3. \A d : Eligible(Slot, excluded, d)' <=> Eligible(Slot, excluded, d)
      BY Zenon, <3>1, <3>2 DEF Eligible, Allows, pool
    <3>4. Eligible(Slot, excluded, best)' <=> Eligible(Slot, excluded, best)
      BY Zenon, <3>1, <3>2 DEF Eligible, Allows, pool
    <3>5. \A d : Beats(best, d)' <=> Beats(best, d)
      BY Zenon, <3>1 DEF Beats, Score, pool
    <3> QED BY Zenon, <3>1, <3>2, <3>3, <3>4, <3>5 DEF IInv, LoopBest
  <2>2. ExcludedIsUsed'
    BY Zenon, <1>5 DEF IInv, ExcludedIsUsed
  <2>3. SlotsGetBest'
    BY Zenon, <1>5, SlotsFrame DEF IInv
  <2> QED BY Zenon, <1>1, <2>1, <2>2, <2>3 DEF IInv
<1>6. CASE Return
  BY Zenon, <1>5, <1>6 DEF Return
<1>7. CASE UNCHANGED vars
  BY Zenon, <1>5, <1>7 DEF vars
<1> QED BY Zenon, <1>2, <1>3, <1>4, <1>6, <1>7 DEF Next

LEMMA IInvHolds == Spec => []IInv
  BY InitIInv, Step, PTL DEF Spec

-----------------------------------------------------------------------------
(* The types hold in every reachable state of a placement.                  *)
THEOREM TypeCorrect == Spec => []TypeOK
  BY IInvHolds, PTL DEF IInv

(* place_redundancy gives each slot the best disk it allows that is active  *)
(* and not taken, in whatever order the candidates are listed.              *)
THEOREM BestPlacement == Spec => []SlotsGetBest
  BY IInvHolds, PTL DEF IInv

(* No two replicas of a file share a disk.                                  *)
THEOREM DistinctReplicas == Spec => []ReplicasDistinct
<1>1. IInv => ReplicasDistinct
  <2> SUFFICES ASSUME IInv, NEW i \in 1 .. Len(out), NEW j \in 1 .. Len(out),
                      out[i] # NoDisk, out[i] = out[j], i # j
               PROVE  FALSE
    BY Zenon DEF ReplicasDistinct
  <2>0. Len(out) \in Nat
    BY DEF IInv, TypeOK
  <2>1. ASSUME NEW k \in 1 .. Len(out), NEW l \in 1 .. Len(out), k < l,
               out[k] # NoDisk, out[k] = out[l]
        PROVE  FALSE
    <3>1. out[l] \notin Used(l)
      BY Zenon, <2>1 DEF IInv, SlotsGetBest, Eligible
    <3>2. k \in 1 .. l - 1
      BY <2>0, <2>1
    <3> QED BY Zenon, <2>1, <3>1, <3>2 DEF Used
  <2>2. i < j \/ j < i
    BY <2>0
  <2> QED BY Zenon, <2>1, <2>2
<1> QED BY <1>1, IInvHolds, PTL

-----------------------------------------------------------------------------
(* What the second placement keeps of the first one.                        *)
Spared == phase # "first" /\ \A i \in 1 .. Len(before) : before[i] # gone
GoneLeft == phase # "first" => gone \in Disks /\ gone \notin active

(* The first slot in which the two placements could differ does not differ. *)
SameChoice ==
    Spared => \A n \in 1 .. Len(out) :
        (\A j \in 1 .. n - 1 : out[j] = before[j]) => out[n] = before[n]

JInv == IInv /\ BeforeGotBest /\ GoneLeft /\ LeavingMovesNothing

LEMMA BothChooseTheBest == IInv /\ BeforeGotBest /\ GoneLeft => SameChoice
<1> SUFFICES ASSUME IInv, BeforeGotBest, GoneLeft, Spared,
                    NEW n \in 1 .. Len(out),
                    \A j \in 1 .. n - 1 : out[j] = before[j]
             PROVE  out[n] = before[n]
  BY Zenon DEF SameChoice
<1>1. /\ out \in Seq(Disks \cup {NoDisk}) /\ before \in Seq(Disks \cup {NoDisk})
      /\ Len(out) <= N /\ Len(before) = N /\ NoDisk \notin Disks
  BY Zenon, PlacementAssumption DEF IInv, TypeOK, BeforeGotBest, Spared
<1>2. n \in 1 .. Len(before) /\ n \in Nat
  BY <1>1
<1>3. out[n] \in Disks \cup {NoDisk} /\ before[n] \in Disks \cup {NoDisk}
  BY <1>1, <1>2
<1>4. Used(n) = UsedBefore(n)
  BY Zenon DEF Used, UsedBefore
<1> DEFINE E(d) == Eligible(slots[n], Used(n), d)
           F(d) == EligibleBefore(slots[n], UsedBefore(n), d)
<1>5. \A d \in Disks : E(d) <=> F(d) /\ d # gone
  BY Zenon, <1>4 DEF Eligible, EligibleBefore, GoneLeft, Spared
<1>6. IF out[n] = NoDisk THEN \A d \in Disks : ~E(d)
      ELSE E(out[n]) /\ \A d \in Disks \ {out[n]} : E(d) => Beats(out[n], d)
  BY Zenon DEF IInv, SlotsGetBest
<1>7. IF before[n] = NoDisk THEN \A d \in Disks : ~F(d)
      ELSE F(before[n]) /\ \A d \in Disks \ {before[n]} : F(d) => Beats(before[n], d)
  BY Zenon, <1>2 DEF BeforeGotBest, Spared
<1>8. before[n] # gone
  BY Zenon, <1>2 DEF Spared
<1>9. TypeOK
  BY Zenon DEF IInv
<1> HIDE DEF E, F
<1> QED BY Zenon, <1>3, <1>5, <1>6, <1>7, <1>8, <1>9, BeatsTotal

LEMMA BeforeStep == IInv /\ BeforeGotBest /\ GoneLeft /\ [Next]_vars
                        => BeforeGotBest' /\ GoneLeft'
<1> SUFFICES ASSUME IInv, BeforeGotBest, GoneLeft, [Next]_vars
             PROVE  BeforeGotBest' /\ GoneLeft'
  BY Zenon
<1>1. ASSUME UNCHANGED <<pool, before, gone>>, phase' = "first" <=> phase = "first"
      PROVE  BeforeGotBest' /\ GoneLeft'
  <2>1. BeforeGotBest'
    <3>1. UNCHANGED pool /\ before' = before /\ gone' = gone /\ slots' = slots
      BY Zenon, <1>1 DEF pool
    <3>2. N' = N /\ \A i : UsedBefore(i)' = UsedBefore(i)
      BY Zenon, <3>1 DEF N, UsedBefore
    <3>3. ASSUME NEW i \in 1 .. Len(before), phase # "first"
          PROVE  IF before'[i] = NoDisk
                 THEN \A d \in Disks : ~EligibleBefore(slots[i], UsedBefore(i), d)'
                 ELSE /\ EligibleBefore(slots[i], UsedBefore(i), before[i])'
                      /\ \A d \in Disks \ {before'[i]} :
                            EligibleBefore(slots[i], UsedBefore(i), d)' => Beats(before[i], d)'
      <4>1. \A d : EligibleBefore(slots[i], UsedBefore(i), d)'
                      <=> EligibleBefore(slots[i], UsedBefore(i), d)
        BY Zenon, <3>1, <3>2 DEF EligibleBefore, Allows, pool
      <4>2. EligibleBefore(slots[i], UsedBefore(i), before[i])'
                <=> EligibleBefore(slots[i], UsedBefore(i), before[i])
        BY Zenon, <3>1, <3>2 DEF EligibleBefore, Allows, pool
      <4>3. \A d : Beats(before[i], d)' <=> Beats(before[i], d)
        BY Zenon, <3>1 DEF Beats, Score, pool
      <4> QED BY Zenon, <3>1, <3>3, <4>1, <4>2, <4>3 DEF BeforeGotBest
    <3> QED BY Zenon, <1>1, <3>1, <3>2, <3>3 DEF BeforeGotBest
  <2>2. GoneLeft'
    BY Zenon, <1>1 DEF GoneLeft, pool
  <2> QED BY Zenon, <2>1, <2>2
<1>2. ASSUME NEW c \in Disks, Consider(c) PROVE BeforeGotBest' /\ GoneLeft'
  BY Zenon, <1>1, <1>2 DEF Consider
<1>3. CASE FinishSlot
  BY Zenon, <1>1, <1>3 DEF FinishSlot
<1>4. ASSUME NEW d \in Disks, Leave(d) PROVE BeforeGotBest' /\ GoneLeft'
  <2>1. /\ Len(out) = N /\ before' = out /\ gone' = d /\ d \in active
        /\ active' = active \ {d} /\ slots' = slots /\ raw' = raw /\ weight' = weight
        /\ phase' = "left"
    BY Zenon, <1>4 DEF Leave
  <2>2. N' = N
    BY Zenon, <2>1 DEF N
  <2>3. active' \cup {gone'} = active
    BY Zenon, <2>1
  <2>4. \A i : UsedBefore(i)' = Used(i)
    BY Zenon, <2>1 DEF UsedBefore, Used
  <2>5. \A i, e : EligibleBefore(slots[i], UsedBefore(i), e)' <=> Eligible(slots[i], Used(i), e)
    BY Zenon, <2>1, <2>3, <2>4 DEF EligibleBefore, Eligible, Allows
  <2>6. \A i : EligibleBefore(slots[i], UsedBefore(i), before[i])'
                <=> Eligible(slots[i], Used(i), out[i])
    BY Zenon, <2>1, <2>3, <2>4 DEF EligibleBefore, Eligible, Allows
  <2>7. \A i, e : Beats(before[i], e)' <=> Beats(out[i], e)
    BY <2>1 DEF Beats, Score
  <2>8. BeforeGotBest'
    BY Zenon, <2>1, <2>2, <2>5, <2>6, <2>7 DEF BeforeGotBest, IInv, SlotsGetBest
  <2>9. GoneLeft'
    BY Zenon, <2>1 DEF GoneLeft
  <2> QED BY Zenon, <2>8, <2>9
<1>5. CASE Return
  BY Zenon, <1>1, <1>5 DEF Return
<1>6. CASE UNCHANGED vars
  BY Zenon, <1>1, <1>6 DEF vars
<1> QED BY Zenon, <1>2, <1>3, <1>4, <1>5, <1>6 DEF Next

(* A disk that leaves the pool moves no replica it did not hold.            *)
THEOREM MinimalMovement == Spec => []LeavingMovesNothing
<1>1. Init => JInv
  BY Zenon, InitIInv DEF Init, JInv, BeforeGotBest, GoneLeft, LeavingMovesNothing
<1>2. JInv /\ [Next]_vars => (IInv /\ BeforeGotBest /\ GoneLeft)'
  BY Zenon, Step, BeforeStep DEF JInv
<1>3. JInv /\ [Next]_vars => SameChoice'
  BY <1>2, BothChooseTheBest, PTL
<1>4. JInv /\ [Next]_vars /\ SameChoice' => LeavingMovesNothing'
  <2> SUFFICES ASSUME JInv, [Next]_vars, SameChoice', Spared'
               PROVE  \A i \in 1 .. Len(out') : out'[i] = before'[i]
    BY Zenon DEF LeavingMovesNothing, Spared
  <2>0. out \in Seq(Disks \cup {NoDisk}) /\ best \in Disks \cup {NoDisk}
    BY Zenon DEF JInv, IInv, TypeOK
  <2>1. ASSUME out' = out, before' = before, gone' = gone, phase # "first"
        PROVE  \A i \in 1 .. Len(out') : out'[i] = before'[i]
    BY Zenon, <2>1 DEF JInv, LeavingMovesNothing, Spared
  <2>2. CASE FinishSlot
    <3>1. out' = Append(out, best) /\ UNCHANGED <<before, gone, phase>>
      BY Zenon, <2>2 DEF FinishSlot
    <3>2. /\ Len(out') = Len(out) + 1 /\ Len(out) \in Nat
          /\ \A i \in 1 .. Len(out) : out'[i] = out[i]
      BY <2>0, <3>1
    <3>3. \A i \in 1 .. Len(out) : out'[i] = before'[i]
      BY Zenon, <3>1, <3>2 DEF JInv, LeavingMovesNothing, Spared
    <3>4. out'[Len(out) + 1] = before'[Len(out) + 1]
      <4>1. Len(out) + 1 \in 1 .. Len(out') /\ Len(out) + 1 - 1 = Len(out)
        BY <3>2
      <4> QED BY <4>1, <3>3 DEF SameChoice
    <3> QED BY <3>2, <3>3, <3>4
  <2>3. ASSUME NEW c \in Disks, Consider(c)
        PROVE  \A i \in 1 .. Len(out') : out'[i] = before'[i]
    BY Zenon, <2>1, <2>3 DEF Consider, Spared
  <2>4. ASSUME NEW d \in Disks, Leave(d)
        PROVE  \A i \in 1 .. Len(out') : out'[i] = before'[i]
    BY <2>4 DEF Leave
  <2>5. CASE Return
    BY Zenon, <2>1, <2>5 DEF Return
  <2>6. CASE UNCHANGED vars
    BY Zenon, <2>1, <2>6 DEF vars, Spared
  <2> QED BY Zenon, <2>2, <2>3, <2>4, <2>5, <2>6 DEF Next
<1>5. JInv /\ [Next]_vars => JInv'
  BY Zenon, <1>2, <1>3, <1>4 DEF JInv
<1>6. JInv => LeavingMovesNothing
  BY Zenon DEF JInv
<1> QED BY <1>1, <1>5, <1>6, PTL DEF Spec

-----------------------------------------------------------------------------
(* Integer division, as in score_from: a smaller divisor gives no smaller   *)
(* quotient.                                                                *)
LEMMA DivAntitone ==
    ASSUME NEW a \in Nat, NEW p \in Nat \ {0}, NEW q \in Nat \ {0}, p <= q
    PROVE  a \div q <= a \div p
<1> DEFINE x == a \div q
           y == a \div p
<1>1. x \in Nat /\ y \in Nat
  OBVIOUS
<1>2. q * x <= a /\ a < p * (y + 1)
  OBVIOUS
<1> HIDE DEF x, y
<1>3. p * x <= q * x
  BY <1>1
<1>4. p * x < p * (y + 1)
  BY <1>1, <1>2, <1>3
<1>5. x < y + 1
  BY <1>1, <1>4
<1> QED BY <1>1, <1>5 DEF x, y

(* Of two disks of one weight the one with the higher hash scores at least  *)
(* as high, and wins.                                                       *)
LEMMA HigherHashBeats ==
    ASSUME TypeOK, NEW c \in Disks, NEW d \in Disks,
           weight[c] = weight[d], raw[c] > raw[d]
    PROVE  Beats(c, d)
<1> DEFINE w == (IF weight[d] > 1 THEN weight[d] ELSE 1) * Scale
           p == NegLog2[raw[c]] + 1
           q == NegLog2[raw[d]] + 1
<1>1. /\ raw[c] \in Raws /\ raw[d] \in Raws /\ raw[c] \in Nat /\ raw[d] \in Nat
      /\ NegLog2[raw[c]] \in Nat /\ NegLog2[raw[d]] \in Nat
      /\ weight[d] \in Nat
  BY Zenon, PlacementAssumption DEF TypeOK
<1>2. NegLog2[raw[c]] <= NegLog2[raw[d]]
  BY Zenon, <1>1, LogAntitone
<1>3. p \in Nat \ {0} /\ q \in Nat \ {0} /\ p <= q
  BY <1>1, <1>2
<1>4. w \in Nat
  BY <1>1, PlacementAssumption
<1>5. Score(c) = w \div p /\ Score(d) = w \div q
  BY Zenon DEF Score
<1>6. Score(c) >= Score(d)
  <2> HIDE DEF w, p, q
  <2>1. w \div q <= w \div p
    BY Zenon, <1>3, <1>4, DivAntitone
  <2>2. w \div q \in Int /\ w \div p \in Int
    BY <1>3, <1>4
  <2> QED BY Zenon, <2>1, <2>2, <1>5
<1>7. Score(c) \in Int /\ Score(d) \in Int
  BY Zenon, ScoreInt
<1> QED BY <1>1, <1>6, <1>7 DEF Beats

(* With equal slots and weights, no disk is chosen before one of a higher   *)
(* hash, for every logarithm that does not turn hash values round: all that *)
(* the order of replicas needs of neg_log2_q16.                             *)
THEOREM HashOrder == Spec => []HigherHashWins
<1>1. IInv => HigherHashWins
  <2> SUFFICES ASSUME IInv, Uniform, \A c, d \in Disks : weight[c] = weight[d],
                      NEW i \in 1 .. Len(out), out[i] # NoDisk,
                      NEW d \in active, Allows(slots[i], d), raw[d] > raw[out[i]],
                      d \notin Used(i)
               PROVE  FALSE
    BY Zenon DEF HigherHashWins
  <2>1. TypeOK /\ SlotsGetBest
    BY Zenon DEF IInv
  <2>2. out[i] \in Disks /\ d \in Disks
    BY <2>1 DEF TypeOK
  <2>3. raw[d] \in Nat /\ raw[out[i]] \in Nat
    BY Zenon, <2>1, <2>2, PlacementAssumption DEF TypeOK
  <2>4. Beats(d, out[i])
    BY Zenon, <2>1, <2>2, HigherHashBeats
  <2>5. Eligible(slots[i], Used(i), d)
    BY Zenon DEF Eligible
  <2>6. d # out[i]
    BY <2>3
  <2>7. Beats(out[i], d)
    BY Zenon, <2>1, <2>2, <2>5, <2>6 DEF SlotsGetBest
  <2> QED BY Zenon, <2>1, <2>2, <2>4, <2>7, BeatsTotal
<1> QED BY <1>1, IInvHolds, PTL

-----------------------------------------------------------------------------
(* With equal slots, a slot of the second placement gets what it had or, at *)
(* and behind the slot of the disk that left, what the next one had.        *)
KeptAt(m) ==
    IF GoneBy(m) THEN m < Len(before) => out[m] = before[m + 1]
                 ELSE out[m] = before[m]
Kept == phase # "first" /\ Uniform => \A m \in 1 .. Len(out) : KeptAt(m)

(* The first slot in which that could be otherwise is not otherwise.        *)
KeptChoice ==
    phase # "first" /\ Uniform => \A n \in 1 .. Len(out) :
        (\A m \in 1 .. n - 1 : KeptAt(m)) => KeptAt(n)

KInv == IInv /\ BeforeGotBest /\ GoneLeft /\ Kept

(* What a loop over the disks of a set finds; it finds only one.            *)
BestOf(x, E) == IF x = NoDisk THEN E = {}
                ELSE x \in E /\ \A d \in E \ {x} : Beats(x, d)

LEMMA OneBest ==
    ASSUME TypeOK, NEW E \in SUBSET Disks, NEW x, NEW y, BestOf(x, E), BestOf(y, E)
    PROVE  x = y
<1>1. NoDisk \notin Disks
  BY Zenon, PlacementAssumption
<1> QED BY Zenon, <1>1, BeatsTotal DEF BestOf

LEMMA KeptChosen == IInv /\ BeforeGotBest /\ GoneLeft => KeptChoice
<1> SUFFICES ASSUME IInv, BeforeGotBest, GoneLeft, phase # "first", Uniform,
                    NEW n \in 1 .. Len(out), \A m \in 1 .. n - 1 : KeptAt(m)
             PROVE  KeptAt(n)
  BY Zenon DEF KeptChoice
<1>0. TypeOK
  BY Zenon DEF IInv
<1>1. /\ out \in Seq(Disks \cup {NoDisk}) /\ before \in Seq(Disks \cup {NoDisk})
      /\ Len(out) <= N /\ Len(before) = N /\ N \in Nat /\ N <= Len(slots)
      /\ NoDisk \notin Disks /\ slots \in Seq(SlotSpecs)
  BY <1>0, PlacementAssumption DEF TypeOK, BeforeGotBest, N
<1>2. n \in Nat /\ n >= 1 /\ Len(before) \in Nat /\ n <= Len(before)
  BY <1>1
<1>3. gone \in Disks /\ gone \notin active /\ active \subseteq Disks
  BY Zenon, <1>0 DEF GoneLeft, TypeOK
<1> DEFINE E == {d \in Disks : Eligible(slots[n], Used(n), d)}
           F(i) == {d \in Disks : EligibleBefore(slots[i], UsedBefore(i), d)}
<1>4. BestOf(out[n], E)
  BY <1>1 DEF IInv, SlotsGetBest, BestOf
<1>5. \A i \in 1 .. Len(before) : BestOf(before[i], F(i))
  BY <1>1 DEF BeforeGotBest, BestOf
<1>6. CASE ~GoneBy(n)
  <2>1. \A m \in 1 .. n - 1 : out[m] = before[m]
    BY <1>2, <1>6 DEF KeptAt, GoneBy
  <2>2. Used(n) = UsedBefore(n)
    BY Zenon, <2>1 DEF Used, UsedBefore
  <2>3. n \in 1 .. n /\ before[n] # gone
    BY <1>2, <1>6 DEF GoneBy
  <2>4. E = F(n) \ {gone}
    BY Zenon, <1>3, <2>2 DEF Eligible, EligibleBefore
  <2>5. BestOf(before[n], E)
    <3>1. BestOf(before[n], F(n))
      <4>1. n \in 1 .. Len(before)
        BY <1>2
      <4> QED BY Zenon, <1>5, <4>1
    <3> HIDE DEF E, F
    <3> QED BY Zenon, <2>3, <2>4, <3>1 DEF BestOf
  <2> HIDE DEF E
  <2>6. E \in SUBSET Disks
    BY Zenon DEF E
  <2> QED BY Zenon, <1>0, <1>4, <1>6, <2>5, <2>6, OneBest DEF KeptAt
<1>7. CASE GoneBy(n) /\ n < Len(before)
  <2>1. PICK p \in 1 .. n : before[p] = gone
    BY Zenon, <1>7 DEF GoneBy
  <2>2. ASSUME NEW m \in 1 .. n - 1
        PROVE  out[m] \in UsedBefore(n + 1)
    <3>1. out[m] = before[m] \/ out[m] = before[m + 1]
      BY <1>2, <2>2 DEF KeptAt
    <3>2. m \in 1 .. (n + 1) - 1 /\ m + 1 \in 1 .. (n + 1) - 1
      BY <1>2
    <3> QED BY Zenon, <3>1, <3>2 DEF UsedBefore
  <2>3. ASSUME NEW j \in 1 .. n, before[j] # gone
        PROVE  before[j] \in Used(n)
    <3>1. CASE ~GoneBy(j)
      <4>1. j # n
        BY Zenon, <1>7, <3>1
      <4>2. j \in 1 .. n - 1
        BY <1>2, <4>1
      <4>3. out[j] = before[j]
        BY Zenon, <3>1, <4>2 DEF KeptAt
      <4> QED BY Zenon, <4>2, <4>3 DEF Used
    <3>2. CASE GoneBy(j)
      <4>1. PICK q \in 1 .. j : before[q] = gone
        BY Zenon, <3>2 DEF GoneBy
      <4>2. q \in 1 .. j - 1 /\ j - 1 \in 1 .. n - 1 /\ j - 1 < Len(before) /\ (j - 1) + 1 = j
        BY <1>2, <2>3, <4>1
      <4>3. GoneBy(j - 1)
        BY Zenon, <4>1, <4>2 DEF GoneBy
      <4>4. out[j - 1] = before[(j - 1) + 1]
        BY Zenon, <4>2, <4>3 DEF KeptAt
      <4>5. before[j] = out[j - 1]
        BY Zenon, <4>2, <4>4
      <4> QED BY Zenon, <4>2, <4>5 DEF Used
    <3> QED BY Zenon, <3>1, <3>2
  <2>4. n + 1 \in 1 .. Len(before) /\ (n + 1) - 1 = n
    BY <1>2, <1>7
  <2>5. UsedBefore(n + 1) = Used(n) \cup {gone}
    <3>1. UsedBefore(n + 1) = {before[j] : j \in 1 .. n}
      BY Zenon, <2>4 DEF UsedBefore
    <3>2. Used(n) = {out[m] : m \in 1 .. n - 1}
      BY Zenon DEF Used
    <3>3. {before[j] : j \in 1 .. n} \subseteq Used(n) \cup {gone}
      BY Zenon, <2>3
    <3>4. Used(n) \subseteq UsedBefore(n + 1)
      BY Zenon, <2>2, <3>2
    <3>5. gone \in {before[j] : j \in 1 .. n}
      BY Zenon, <2>1
    <3> QED BY Zenon, <3>1, <3>3, <3>4, <3>5
  <2>6. slots[n] = slots[n + 1]
    BY <1>1, <1>2, <2>4 DEF Uniform
  <2>7. E = F(n + 1)
    BY Zenon, <1>3, <2>5, <2>6 DEF Eligible, EligibleBefore
  <2>8. BestOf(before[n + 1], E)
    BY Zenon, <1>5, <2>4, <2>7
  <2> HIDE DEF E
  <2>9. E \in SUBSET Disks
    BY Zenon DEF E
  <2> QED BY Zenon, <1>0, <1>4, <1>7, <2>8, <2>9, OneBest DEF KeptAt
<1> QED BY Zenon, <1>6, <1>7 DEF KeptAt

(* With equal slots the disks that stay keep their order when one leaves,   *)
(* those behind it one slot earlier: place_redundancy excludes the same     *)
(* disks, but for the one that left, one slot earlier, and finds the same   *)
(* best one.                                                                *)
THEOREM OrderKept == Spec => []OthersKeepTheirOrder
<1>1. Init => KInv
  BY Zenon, InitIInv DEF Init, KInv, BeforeGotBest, GoneLeft, Kept
<1>2. KInv /\ [Next]_vars => (IInv /\ BeforeGotBest /\ GoneLeft)'
  BY Zenon, Step, BeforeStep DEF KInv
<1>3. KInv /\ [Next]_vars => KeptChoice'
  BY <1>2, KeptChosen, PTL
<1>4. KInv /\ [Next]_vars /\ KeptChoice' => Kept'
  <2> SUFFICES ASSUME KInv, [Next]_vars, KeptChoice', (phase # "first")', Uniform'
               PROVE  \A m \in 1 .. Len(out') : KeptAt(m)'
    BY Zenon DEF Kept
  <2>0. out \in Seq(Disks \cup {NoDisk}) /\ best \in Disks \cup {NoDisk}
    BY Zenon DEF KInv, IInv, TypeOK
  <2>1. ASSUME UNCHANGED <<out, before, gone, slots>>, phase # "first"
        PROVE  \A m \in 1 .. Len(out') : KeptAt(m)'
    <3>1. Uniform
      BY Zenon, <2>1 DEF Uniform
    <3>2. \A m \in 1 .. Len(out) : KeptAt(m)
      BY Zenon, <2>1, <3>1 DEF KInv, Kept
    <3> QED BY Zenon, <2>1, <3>2 DEF KeptAt, GoneBy
  <2>2. CASE FinishSlot
    <3>1. out' = Append(out, best) /\ UNCHANGED <<before, gone, phase, slots>>
      BY Zenon, <2>2 DEF FinishSlot, pool
    <3>2. /\ Len(out') = Len(out) + 1 /\ Len(out) \in Nat
          /\ \A i \in 1 .. Len(out) : out'[i] = out[i]
      BY <2>0, <3>1
    <3>3. \A m \in 1 .. Len(out) : KeptAt(m)'
      <4>1. Uniform
        BY Zenon, <3>1 DEF Uniform
      <4>2. \A m \in 1 .. Len(out) : KeptAt(m)
        BY Zenon, <3>1, <4>1 DEF KInv, Kept
      <4> QED BY Zenon, <3>1, <3>2, <4>2 DEF KeptAt, GoneBy
    <3>4. PICK n : n = Len(out')
      BY Zenon
    <3>5. n \in 1 .. Len(out') /\ n - 1 = Len(out)
      BY <3>2, <3>4
    <3>6. KeptAt(n)'
      <4>1. \A m \in 1 .. n - 1 : KeptAt(m)'
        BY Zenon, <3>3, <3>5
      <4> QED BY Zenon, <3>5, <4>1 DEF KeptChoice
    <3>7. \A m \in 1 .. Len(out') : m = n \/ m \in 1 .. Len(out)
      BY <3>2, <3>4
    <3> QED BY Zenon, <3>3, <3>6, <3>7
  <2>3. ASSUME NEW c \in Disks, Consider(c)
        PROVE  \A m \in 1 .. Len(out') : KeptAt(m)'
    BY Zenon, <2>1, <2>3 DEF Consider, pool
  <2>4. ASSUME NEW d \in Disks, Leave(d)
        PROVE  \A m \in 1 .. Len(out') : KeptAt(m)'
    BY <2>4 DEF Leave
  <2>5. CASE Return
    BY Zenon, <2>1, <2>5 DEF Return, pool
  <2>6. CASE UNCHANGED vars
    BY Zenon, <2>1, <2>6 DEF vars, pool
  <2> QED BY Zenon, <2>2, <2>3, <2>4, <2>5, <2>6 DEF Next
<1>5. KInv /\ [Next]_vars => KInv'
  BY Zenon, <1>2, <1>3, <1>4 DEF KInv
<1>6. KInv /\ (phase = "done" => Len(out) = N) => OthersKeepTheirOrder
  <2> SUFFICES ASSUME KInv, phase = "done", Len(out) = N, Uniform,
                      NEW i \in 1 .. Len(before), before[i] # gone
               PROVE  out[IF GoneBy(i) THEN i - 1 ELSE i] = before[i]
    BY Zenon DEF OthersKeepTheirOrder
  <2>1. Len(before) = Len(out) /\ Len(out) \in Nat
    BY DEF KInv, BeforeGotBest, IInv, TypeOK
  <2>2. \A m \in 1 .. Len(out) : KeptAt(m)
    BY Zenon DEF KInv, Kept
  <2>3. CASE ~GoneBy(i)
    BY Zenon, <2>1, <2>2, <2>3 DEF KeptAt
  <2>4. CASE GoneBy(i)
    <3>1. PICK q \in 1 .. i : before[q] = gone
      BY Zenon, <2>4 DEF GoneBy
    <3>2. q \in 1 .. i - 1 /\ i - 1 \in 1 .. Len(out) /\ i - 1 < Len(before) /\ (i - 1) + 1 = i
      BY <2>1, <3>1
    <3>3. GoneBy(i - 1)
      BY Zenon, <3>1, <3>2 DEF GoneBy
    <3>4. out[i - 1] = before[(i - 1) + 1]
      BY Zenon, <2>2, <3>2, <3>3 DEF KeptAt
    <3> QED BY Zenon, <2>4, <3>2, <3>4
  <2> QED BY Zenon, <2>3, <2>4
<1>7. Init => (phase = "done" => Len(out) = N)
  BY Zenon DEF Init
<1>8. KInv /\ (phase = "done" => Len(out) = N) /\ [Next]_vars
        => (phase = "done" => Len(out) = N)'
  BY Zenon DEF Next, Consider, FinishSlot, Leave, Return, vars, pool, N
<1> QED BY <1>1, <1>5, <1>6, <1>7, <1>8, PTL DEF Spec
=============================================================================
