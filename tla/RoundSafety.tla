---------------------------- MODULE RoundSafety ----------------------------
(***************************************************************************)
(* Proofs about the rounds of Registry: verdicts are applied in the order  *)
(* of the rounds, and EndBlock returns an error only when the emission     *)
(* pool is exhausted.                                                      *)
(***************************************************************************)
EXTENDS RegistrySafety

\* Multiples of the interval that differ are an interval apart.
LEMMA Multiples ==
  ASSUME NEW m \in Nat, NEW n \in Nat, m * RoundInterval < n * RoundInterval
  PROVE  m * RoundInterval + RoundInterval <= n * RoundInterval
<1>1. RoundInterval \in Nat \ {0}
  BY ScheduleAssumption
<1>2. CASE n <= m
  BY <1>1, <1>2
<1>3. CASE m + 1 <= n
  BY <1>1, <1>3
<1> QED
  BY <1>2, <1>3

\* Round starts are such multiples.
IsRoundStart(r) == \E n \in Nat : r = n * RoundInterval

\* nextVerificationRoundStartUnix returns round starts.
LEMMA NextIsRoundStart ==
  ASSUME NEW t \in Nat
  PROVE  IsRoundStart(NextRoundStart(t))
<1>1. RoundInterval \in Nat \ {0}
  BY ScheduleAssumption
<1> DEFINE n == t \div RoundInterval
<1>2. n \in Nat
  BY <1>1
<1>3. NextRoundStart(t) = n * RoundInterval + RoundInterval
  BY DEF NextRoundStart
<1> HIDE DEF n
<1>4. n * RoundInterval + RoundInterval = (n + 1) * RoundInterval /\ n + 1 \in Nat
  BY <1>1, <1>2
<1> QED
  BY <1>3, <1>4, Zenon DEF IsRoundStart

\* Round starts that differ are an interval apart.
LEMMA RoundsApart ==
  ASSUME NEW q, NEW r, IsRoundStart(q), IsRoundStart(r), q < r
  PROVE  q + RoundInterval <= r
BY Multiples DEF IsRoundStart

-----------------------------------------------------------------------------
(* The inductive invariant of the rounds. *)

\* The clock never runs behind the genesis block.
AfterGenesis == now >= GenesisTime

\* The windows of an assignment, as assignNewRound computes them.
WindowsOK ==
    \A k \in DOMAIN assignments :
        /\ IsRoundStart(k[1]) /\ k[1] <= lastRoundStart
        /\ k[1] <= assignments[k].startAt /\ assignments[k].startAt < k[1] + RoundInterval
        /\ assignments[k].deadline = assignments[k].startAt + SubmissionWindow

\* A settled assignment is off the list, and its whole round is finalized.
SettledWhole ==
    \A j, k \in DOMAIN assignments :
        j[1] = k[1] /\ assignments[j].settled => k[1] \notin unsettled /\ assignments[k].finalized

\* The three together, with the order that follows from them.
RoundInv == TypeOK /\ AfterGenesis /\ WindowsOK /\ SettledWhole /\ FinalizedInRoundOrder

\* There are no assignments at genesis.
LEMMA RoundInvInit == Init => RoundInv
<1> SUFFICES ASSUME Init PROVE RoundInv
  OBVIOUS
<1>1. TypeOK
  BY InitType
<1>2. DOMAIN assignments = {} /\ now = GenesisTime
  BY DEF Init, EmptyStore
<1> QED
  BY <1>1, <1>2, ParamsAssumption
     DEF RoundInv, AfterGenesis, WindowsOK, SettledWhole, FinalizedInRoundOrder

\* Only the three loops of EndBlock write assignments and the list of rounds.
LEMMA RoundFrame ==
  ASSUME [Next]_vars
  PROVE  \/ UNCHANGED <<assignments, lastRoundStart, unsettled>>
         \/ \E k \in DOMAIN assignments : FinalizeAssignment(k)
         \/ \E r \in unsettled : SettleRound(r)
         \/ \E offsets \in [RoundPublishers(NextRoundStart(now)) -> 0..(DelayMax - 1)],
               selected \in [RoundPublishers(NextRoundStart(now)) -> Selections] :
                  AssignNewRound(offsets, selected)
<1> USE DEF roundVars, rewardVars
<1>1. CASE UNCHANGED vars
  BY <1>1 DEF vars
<1>2. CASE Transaction
  <2> DEFINE Frame == UNCHANGED <<assignments, lastRoundStart, unsettled>>
  <2>1. \A d, o : RegisterWebsite(d, o) \/ RequestReregistration(d, o) \/ CreateSlot(d, o) => Frame
    BY DEF RegisterWebsite, RequestReregistration, CreateSlot
  <2>2. \A k, v, passed : SubmitVerificationCommit(k, v, passed) \/ RevealVerification(k, v, passed)
                            => Frame
    BY DEF SubmitVerificationCommit, RevealVerification
  <2>3. \A s, o, status : UpdateSlotStatus(s, o, status) => Frame
    BY DEF UpdateSlotStatus
  <2>4. \A s, lessee, starts, duration : LeaseSlot(s, lessee, starts, duration) => Frame
    BY DEF LeaseSlot
  <2>5. (BondTx => Frame) /\ \A n : SubmitDrandBeacon(n) => Frame
    BY DEF BondTx, SubmitDrandBeacon
  <2> HIDE DEF Frame
  <2>6. Frame
    BY <1>2, <2>1, <2>2, <2>3, <2>4, <2>5, ZenonT(60) DEF Transaction
  <2> QED
    BY <2>6 DEF Frame
<1>3. CASE EndBlock
  BY <1>3 DEF EndBlock, BeginEndBlock, EndFinalize, EndRewards, SettleLease,
              EndLeases, SkipAssignment, EndBlockFails
<1>4. CASE \E gap \in BlockGaps : NextBlock(now + gap)
  BY <1>4 DEF NextBlock
<1>5. CASE Stop
  BY <1>5 DEF Stop, vars
<1> QED
  BY <1>1, <1>2, <1>3, <1>4, <1>5 DEF Next

\* What a step may change in an assignment: nothing but the three flags.
SameWindows ==
    /\ DOMAIN assignments' = DOMAIN assignments
    /\ lastRoundStart' = lastRoundStart
    /\ \A k \in DOMAIN assignments : /\ assignments'[k].startAt = assignments[k].startAt
                                    /\ assignments'[k].deadline = assignments[k].deadline

\* An iteration of finalizeAssignments writes the flags of its own assignment.
LEMMA FinalizeEffect ==
  ASSUME TypeOK, NEW k \in DOMAIN assignments, FinalizeAssignment(k)
  PROVE  /\ SameWindows
         /\ ~assignments[k].finalized /\ assignments[k].deadline <= now
         /\ \A j \in DOMAIN assignments :
               /\ assignments'[j].settled = assignments[j].settled
               /\ assignments'[j].finalized = (j = k \/ assignments[j].finalized)
         /\ unsettled' = IF assignments[k].settled THEN unsettled ELSE unsettled \cup {k[1]}
<1>1. \A j \in DOMAIN assignments : assignments[j] \in Assignment
  BY DEF TypeOK, RoundTypeOK
<1>2. k \in Due
  BY DEF FinalizeAssignment, FirstDue
<1>3. PICK verified \in BOOLEAN : Conclude(k, verified)
  BY Zenon DEF FinalizeAssignment, IgnoreStaleCandidate, AcceptCandidate, RejectCandidate,
         ConfirmPublisher, FailPublisher, NoQuorum
<1>4. assignments' = [assignments EXCEPT ![k] =
                         [assignments[k] EXCEPT !.finalized = TRUE, !.verified = verified]]
  BY <1>3, ZenonT(60) DEF Conclude, TypeOK, RoundTypeOK
<1>5. lastRoundStart' = lastRoundStart
      /\ unsettled' = IF assignments[k].settled THEN unsettled ELSE unsettled \cup {k[1]}
  BY <1>3 DEF Conclude
<1>6. assignments \in [DOMAIN assignments -> Assignment]
  BY DEF TypeOK, RoundTypeOK
<1>7. LET a == [assignments[k] EXCEPT !.finalized = TRUE, !.verified = verified]
      IN  /\ a.startAt = assignments[k].startAt /\ a.deadline = assignments[k].deadline
          /\ a.settled = assignments[k].settled /\ a.finalized = TRUE
  BY <1>1 DEF Assignment
<1>8. \A j \in DOMAIN assignments : assignments[j].finalized \in BOOLEAN
  BY <1>1 DEF Assignment
<1> QED
  BY <1>2, <1>4, <1>5, <1>6, <1>7, <1>8, Zenon DEF Due, SameWindows

\* The settlement of a round writes the settled flag of its own assignments.
LEMMA SettleEffect ==
  ASSUME TypeOK, NEW r \in unsettled, SettleRound(r)
  PROVE  /\ SameWindows
         /\ UnpaidKeys(r) # {} => \A k \in RoundKeys(r) : assignments[k].finalized
         /\ \A k \in DOMAIN assignments :
               /\ assignments'[k].finalized = assignments[k].finalized
               /\ assignments'[k].settled => assignments[k].settled \/ k \in UnpaidKeys(r)
         /\ unsettled' = unsettled \ {r}
<1>1. \A j \in DOMAIN assignments : assignments[j] \in Assignment
  BY DEF TypeOK, RoundTypeOK
<1>2. assignments' = [k \in DOMAIN assignments |->
                        IF k \in UnpaidKeys(r)
                        THEN [assignments[k] EXCEPT !.settled = TRUE]
                        ELSE assignments[k]]
  BY DEF SettleRound
<1>3. \A k \in DOMAIN assignments :
         LET a == [assignments[k] EXCEPT !.settled = TRUE]
         IN  /\ a.startAt = assignments[k].startAt /\ a.deadline = assignments[k].deadline
             /\ a.finalized = assignments[k].finalized
  BY <1>1 DEF Assignment
<1>4. UnpaidKeys(r) # {} => \A k \in RoundKeys(r) : assignments[k].finalized
  BY DEF SettleRound, FirstSettleable, Settleable
<1>5. lastRoundStart' = lastRoundStart /\ unsettled' = unsettled \ {r}
  BY DEF SettleRound
<1> QED
  BY <1>2, <1>3, <1>4, <1>5 DEF SameWindows

\* The clock only moves forward.
LEMMA ClockMonotone ==
  ASSUME TypeOK, [Next]_vars
  PROVE  now' >= now
<1>0. now \in Nat /\ \A gap \in BlockGaps : gap \in Nat /\ now + gap >= now
  BY ParamsAssumption DEF TypeOK, ClockTypeOK
<1> DEFINE Frame == now' = now
<1>1. \A d, o : RegisterWebsite(d, o) \/ RequestReregistration(d, o) \/ CreateSlot(d, o) => Frame
  BY DEF RegisterWebsite, RequestReregistration, CreateSlot
<1>2. \A k, v, passed : SubmitVerificationCommit(k, v, passed) \/ RevealVerification(k, v, passed)
                          => Frame
  BY DEF SubmitVerificationCommit, RevealVerification
<1>3. \A s, o, status : UpdateSlotStatus(s, o, status) => Frame
  BY DEF UpdateSlotStatus
<1>4. \A s, lessee, starts, duration : LeaseSlot(s, lessee, starts, duration) => Frame
  BY DEF LeaseSlot
<1>5. (BondTx => Frame) /\ \A n : SubmitDrandBeacon(n) => Frame
  BY ZenonT(60) DEF BondTx, SubmitDrandBeacon
<1>6. \A k : FinalizeAssignment(k) => Frame
  BY DEF FinalizeAssignment, IgnoreStaleCandidate, AcceptCandidate, RejectCandidate,
         ConfirmPublisher, FailPublisher, NoQuorum, Conclude
<1>7. (\A r : SettleRound(r) => Frame) /\ (\A i : SettleLease(i) => Frame)
      /\ \A offsets, selected : AssignNewRound(offsets, selected) => Frame
  BY DEF SettleRound, SettleLease, AssignNewRound
<1>8. BeginEndBlock \/ EndFinalize \/ EndRewards \/ EndLeases \/ SkipAssignment \/ EndBlockFails
        \/ Stop \/ UNCHANGED vars => Frame
  BY DEF BeginEndBlock, EndFinalize, EndRewards, EndLeases, SkipAssignment, EndBlockFails, Stop, vars
<1>9. \A t : NextBlock(t) => now' = t
  BY DEF NextBlock
<1> HIDE DEF Frame
<1>10. Frame \/ \E gap \in BlockGaps : now' = now + gap
  BY <1>1, <1>2, <1>3, <1>4, <1>5, <1>6, <1>7, <1>8, <1>9, ZenonT(60) DEF Next, Transaction, EndBlock
<1> QED
  BY <1>0, <1>10 DEF Frame

\* The assignments that assignNewRound adds, all of a round later than any before.
LEMMA AssignEffect ==
  ASSUME TypeOK, WindowsOK,
         NEW offsets \in [RoundPublishers(NextRoundStart(now)) -> 0..(DelayMax - 1)],
         NEW selected \in [RoundPublishers(NextRoundStart(now)) -> Selections],
         AssignNewRound(offsets, selected)
  PROVE  /\ lastRoundStart' = NextRoundStart(now) /\ lastRoundStart' > lastRoundStart
         /\ IsRoundStart(lastRoundStart')
         /\ DOMAIN assignments \subseteq DOMAIN assignments'
         /\ \A k \in DOMAIN assignments : assignments'[k] = assignments[k] /\ k[1] < lastRoundStart'
         /\ \A k \in DOMAIN assignments' \ DOMAIN assignments :
               /\ k[1] = lastRoundStart'
               /\ k[1] <= assignments'[k].startAt /\ assignments'[k].startAt < k[1] + RoundInterval
               /\ assignments'[k].deadline = assignments'[k].startAt + SubmissionWindow
               /\ ~assignments'[k].finalized /\ ~assignments'[k].settled
         /\ unsettled' \subseteq unsettled \cup {lastRoundStart'}
<1> DEFINE r == NextRoundStart(now)
           created == {r} \X RoundPublishers(r)
<1>1. now \in Nat /\ r \in Nat /\ lastRoundStart \in Nat /\ IsRoundStart(r)
      /\ \A k \in DOMAIN assignments : k[1] \in Nat
  BY NextRoundStartAfter, NextIsRoundStart DEF TypeOK, ClockTypeOK, RoundTypeOK
<1>2. r > lastRoundStart /\ lastRoundStart' = r
  BY DEF AssignNewRound, RoundPending
<1>3. assignments' = [k \in DOMAIN assignments \cup created |->
                        IF k \in DOMAIN assignments
                        THEN assignments[k]
                        ELSE NewAssignment(k[2], r + offsets[k[2]], selected[k[2]])]
      /\ unsettled' \subseteq unsettled \cup {r}
  BY DEF AssignNewRound
<1>4. \A k \in created : k[1] = r /\ k[2] \in RoundPublishers(r)
  OBVIOUS
<1>5. ASSUME NEW d \in RoundPublishers(r)
      PROVE  LET a == NewAssignment(d, r + offsets[d], selected[d])
             IN  /\ r <= a.startAt /\ a.startAt < r + RoundInterval
                 /\ a.deadline = a.startAt + SubmissionWindow
                 /\ ~a.finalized /\ ~a.settled
  <2>1. offsets[d] \in 0..(DelayMax - 1)
    OBVIOUS
  <2>2. DelayMax \in 1..RoundInterval /\ RoundInterval \in Nat
    BY ParamsAssumption, ScheduleAssumption
  <2>3. r <= r + offsets[d] /\ r + offsets[d] < r + RoundInterval
    BY <1>1, <2>1, <2>2
  <2> HIDE DEF r
  <2> QED
    BY <2>3 DEF NewAssignment
<1>6. \A k \in DOMAIN assignments : k[1] < r
  BY <1>1, <1>2 DEF WindowsOK
<1> HIDE DEF r, created
<1>7. DOMAIN assignments' = DOMAIN assignments \cup created
  BY <1>3
<1>8. \A k \in DOMAIN assignments : assignments'[k] = assignments[k]
  BY <1>3
<1>9. \A k \in DOMAIN assignments' \ DOMAIN assignments :
         k \in created /\ assignments'[k] = NewAssignment(k[2], r + offsets[k[2]], selected[k[2]])
  BY <1>3, ZenonT(60)
<1>10. \A k \in DOMAIN assignments' \ DOMAIN assignments :
          /\ k[1] = r
          /\ k[1] <= assignments'[k].startAt /\ assignments'[k].startAt < k[1] + RoundInterval
          /\ assignments'[k].deadline = assignments'[k].startAt + SubmissionWindow
          /\ ~assignments'[k].finalized /\ ~assignments'[k].settled
  BY <1>4, <1>5, <1>9
<1>11. r = NextRoundStart(now)
  BY DEF r
<1> QED
  BY <1>1, <1>2, <1>3, <1>6, <1>7, <1>8, <1>10, <1>11, ZenonT(60)

\* finalizeAssignments takes the due assignments in key order, and an earlier round
\* of the domain is due whenever a later one is.
LEMMA FinalizeKeepsRounds ==
  ASSUME RoundInv, NEW k \in DOMAIN assignments, FinalizeAssignment(k)
  PROVE  WindowsOK' /\ SettledWhole' /\ FinalizedInRoundOrder'
<1>1. /\ SameWindows
      /\ ~assignments[k].finalized /\ assignments[k].deadline <= now
      /\ \A j \in DOMAIN assignments :
            /\ assignments'[j].settled = assignments[j].settled
            /\ assignments'[j].finalized = (j = k \/ assignments[j].finalized)
      /\ unsettled' = IF assignments[k].settled THEN unsettled ELSE unsettled \cup {k[1]}
  BY FinalizeEffect DEF RoundInv
<1>2. WindowsOK'
  BY <1>1 DEF RoundInv, WindowsOK, SameWindows
<1>3. SettledWhole'
  BY <1>1, Zenon DEF RoundInv, SettledWhole, SameWindows
<1>4. FinalizedInRoundOrder'
  <2>1. SUFFICES ASSUME NEW j \in DOMAIN assignments, j[2] = k[2], j[1] < k[1],
                        ~assignments[j].finalized
                 PROVE  FALSE
    BY <1>1, ZenonT(60) DEF RoundInv, FinalizedInRoundOrder, SameWindows
  <2>2. /\ assignments[j] \in Assignment /\ assignments[k] \in Assignment /\ now \in Nat
        /\ j[1] \in Nat /\ k[1] \in Nat
    BY DEF RoundInv, TypeOK, RoundTypeOK, ClockTypeOK
  <2>3. /\ assignments[j].startAt \in Nat /\ assignments[k].startAt \in Nat
        /\ assignments[j].deadline \in Nat /\ assignments[k].deadline \in Nat
    BY <2>2 DEF Assignment
  <2>4. j[1] + RoundInterval <= k[1]
    BY <2>1, RoundsApart DEF RoundInv, WindowsOK
  <2>5. /\ assignments[j].startAt < j[1] + RoundInterval /\ k[1] <= assignments[k].startAt
        /\ assignments[j].deadline = assignments[j].startAt + SubmissionWindow
        /\ assignments[k].deadline = assignments[k].startAt + SubmissionWindow
    BY DEF RoundInv, WindowsOK
  <2>6. RoundInterval \in Nat /\ SubmissionWindow \in Nat
    BY ParamsAssumption, ScheduleAssumption, ZenonT(60)
  <2>7. assignments[j].deadline <= now
    BY <1>1, <2>2, <2>3, <2>4, <2>5, <2>6, SMTT(60)
  <2>8. j \in Due \ {k}
    BY <2>1, <2>2, <2>7 DEF Due
  <2>9. KeyBefore(k, j)
    BY <2>8 DEF FinalizeAssignment, FirstDue
  <2> QED
    BY <2>1, <2>2, <2>9 DEF KeyBefore
<1> QED
  BY <1>2, <1>3, <1>4, ZenonT(60)

\* Every step keeps the rounds in order.
LEMMA RoundInvStep == RoundInv /\ [Next]_vars => RoundInv'
<1> SUFFICES ASSUME RoundInv, [Next]_vars PROVE RoundInv'
  OBVIOUS
<1>1. TypeOK'
  BY NextType DEF RoundInv
<1>2. AfterGenesis'
  <2>1. now \in Nat /\ now' \in Nat /\ GenesisTime \in Nat /\ now >= GenesisTime
    BY <1>1, ParamsAssumption DEF RoundInv, TypeOK, ClockTypeOK, AfterGenesis
  <2>2. now' >= now
    BY ClockMonotone, ZenonT(60) DEF RoundInv
  <2> QED
    BY <2>1, <2>2 DEF AfterGenesis
<1> DEFINE Goal == WindowsOK' /\ SettledWhole' /\ FinalizedInRoundOrder'
<1>3. ASSUME UNCHANGED <<assignments, lastRoundStart, unsettled>> PROVE Goal
  BY <1>3 DEF RoundInv, WindowsOK, SettledWhole, FinalizedInRoundOrder
<1>4. ASSUME NEW k \in DOMAIN assignments, FinalizeAssignment(k) PROVE Goal
  BY <1>4, FinalizeKeepsRounds
<1>5. ASSUME NEW r \in unsettled, SettleRound(r) PROVE Goal
  <2>1. /\ SameWindows
        /\ UnpaidKeys(r) # {} => \A k \in RoundKeys(r) : assignments[k].finalized
        /\ \A k \in DOMAIN assignments :
              /\ assignments'[k].finalized = assignments[k].finalized
              /\ assignments'[k].settled => assignments[k].settled \/ k \in UnpaidKeys(r)
        /\ unsettled' = unsettled \ {r}
    BY <1>5, SettleEffect, ZenonT(60) DEF RoundInv
  <2>2. WindowsOK' /\ FinalizedInRoundOrder'
    BY <2>1 DEF RoundInv, WindowsOK, FinalizedInRoundOrder, SameWindows
  <2>3. SettledWhole'
    BY <2>1 DEF RoundInv, SettledWhole, SameWindows, UnpaidKeys, RoundKeys
  <2> QED
    BY <2>2, <2>3
<1>6. ASSUME NEW offsets \in [RoundPublishers(NextRoundStart(now)) -> 0..(DelayMax - 1)],
             NEW selected \in [RoundPublishers(NextRoundStart(now)) -> Selections],
             AssignNewRound(offsets, selected)
      PROVE  Goal
  <2>1. /\ lastRoundStart' > lastRoundStart /\ IsRoundStart(lastRoundStart')
        /\ DOMAIN assignments \subseteq DOMAIN assignments'
        /\ \A k \in DOMAIN assignments : assignments'[k] = assignments[k] /\ k[1] < lastRoundStart'
        /\ \A k \in DOMAIN assignments' \ DOMAIN assignments :
              /\ k[1] = lastRoundStart'
              /\ k[1] <= assignments'[k].startAt /\ assignments'[k].startAt < k[1] + RoundInterval
              /\ assignments'[k].deadline = assignments'[k].startAt + SubmissionWindow
              /\ ~assignments'[k].finalized /\ ~assignments'[k].settled
        /\ unsettled' \subseteq unsettled \cup {lastRoundStart'}
    BY <1>6, AssignEffect DEF RoundInv
  <2>2. /\ lastRoundStart \in Nat /\ lastRoundStart' \in Nat
        /\ \A k \in DOMAIN assignments' : k[1] \in Nat
    BY <1>1, ZenonT(60) DEF RoundInv, TypeOK, RoundTypeOK
  <2>3. WindowsOK'
    BY <2>1, <2>2, SMTT(60) DEF RoundInv, WindowsOK
  <2>4. SettledWhole'
    BY <2>1, <2>2, SMTT(60) DEF RoundInv, SettledWhole
  <2>5. FinalizedInRoundOrder'
    BY <2>1, <2>2 DEF RoundInv, FinalizedInRoundOrder
  <2> QED
    BY <2>3, <2>4, <2>5, ZenonT(60)
<1> HIDE DEF Goal
<1>7. Goal
  BY <1>3, <1>4, <1>5, <1>6, RoundFrame
<1> QED
  BY <1>1, <1>2, <1>7 DEF RoundInv, Goal

\* Verdicts on a domain are applied in the order of its rounds, for every choice of
\* the interval, the windows and the offsets that the parameters admit.
THEOREM VerdictsInOrder == SafetySpec => []FinalizedInRoundOrder
<1>1. RoundInv => FinalizedInRoundOrder
  BY DEF RoundInv
<1> QED
  BY <1>1, RoundInvInit, RoundInvStep, PTL DEF SafetySpec

-----------------------------------------------------------------------------
(* What stops the chain. *)

\* Only an error of EndBlock halts, and a halted chain stays as it is.
LEMMA HaltFrame ==
  ASSUME [Next]_vars, phase' = "halted"
  PROVE  pool' = pool /\ (phase = "halted" \/ EndBlockError)
<1> USE DEF rewardVars
<1>1. \A d, o : ~RegisterWebsite(d, o) /\ ~RequestReregistration(d, o) /\ ~CreateSlot(d, o)
  BY ZenonT(60) DEF RegisterWebsite, RequestReregistration, CreateSlot
<1>2. \A k, v, passed : ~SubmitVerificationCommit(k, v, passed) /\ ~RevealVerification(k, v, passed)
  BY DEF SubmitVerificationCommit, RevealVerification
<1>3. \A s, o, status : ~UpdateSlotStatus(s, o, status)
  BY ZenonT(60) DEF UpdateSlotStatus
<1>4. \A s, lessee, starts, duration : ~LeaseSlot(s, lessee, starts, duration)
  BY DEF LeaseSlot
<1>5. ~BondTx /\ \A n : ~SubmitDrandBeacon(n)
  BY ZenonT(60) DEF BondTx, SubmitDrandBeacon
<1>6. \A k : ~FinalizeAssignment(k)
  BY DEF FinalizeAssignment, IgnoreStaleCandidate, AcceptCandidate, RejectCandidate,
         ConfirmPublisher, FailPublisher, NoQuorum, Conclude
<1>7. (\A r : ~SettleRound(r)) /\ (\A i : ~SettleLease(i))
      /\ \A offsets, selected : ~AssignNewRound(offsets, selected)
  BY DEF SettleRound, SettleLease, AssignNewRound
<1>8. ~BeginEndBlock /\ ~EndFinalize /\ ~EndRewards /\ ~EndLeases /\ ~SkipAssignment
      /\ \A t : ~NextBlock(t)
  BY DEF BeginEndBlock, EndFinalize, EndRewards, EndLeases, SkipAssignment, NextBlock
<1>9. EndBlockFails \/ UNCHANGED vars
  BY <1>1, <1>2, <1>3, <1>4, <1>5, <1>6, <1>7, <1>8, ZenonT(60) DEF Next, Transaction, EndBlock, Stop
<1> QED
  BY <1>9 DEF EndBlockFails, vars

\* In a consistent state EndBlock fails only for want of rewards.
LEMMA ErrorMeansExhausted ==
  ASSUME RoundInv, EscrowBacked, EndBlockError
  PROVE  pool = 0
<1>1. \A i \in DOMAIN leases : /\ escrow[i] \in Nat /\ escrow[i] >= leases[i].remaining
                               /\ leases[i].slot \in DOMAIN slots
                               /\ slots[leases[i].slot].domain \in DOMAIN websites
  BY SMTT(60) DEF RoundInv, TypeOK, MarketTypeOK, EscrowBacked
<1>2. ~LeasesFail
  BY <1>1 DEF LeasesFail, FirstExpired, LeasePayable
<1>3. ~FinalizeFails
  <2>1. \A d : ViolatedLeases(d) \subseteq DOMAIN leases
    BY DEF ViolatedLeases, RunningLeases
  <2>2. \A i \in DOMAIN leases : ~(escrow[i] < leases[i].remaining)
    BY DEF RoundInv, TypeOK, MarketTypeOK, EscrowBacked
  <2> QED
    BY <2>1, <2>2 DEF FinalizeFails
<1>4. ~AssignFails
  <2>1. now \in Nat /\ NextRoundStart(now) \in Nat /\ NextRoundStart(now) > now
    BY NextRoundStartAfter DEF RoundInv, TypeOK, ClockTypeOK
  <2>2. now >= GenesisTime
    BY DEF RoundInv, AfterGenesis
  <2>3. /\ DrandOffset \in Nat /\ DrandGenesis \in Nat /\ GenesisTime \in Nat
        /\ DrandGenesis + DrandOffset <= GenesisTime
    BY ParamsAssumption, ScheduleAssumption
  <2>4. ~(NextRoundStart(now) - DrandOffset < DrandGenesis)
    BY <2>1, <2>2, <2>3
  <2> QED
    BY <2>4 DEF AssignFails, PredatesDrand
<1>5. ASSUME RewardsFail PROVE pool = 0
  <2>1. PICK r \in unsettled : ~RewardsPayable(r)
    BY <1>5 DEF RewardsFail
  <2>2. UnpaidKeys(r) = RoundKeys(r)
    BY DEF RoundInv, SettledWhole, UnpaidKeys, RoundKeys
  <2>3. pool \in Nat
    BY DEF RoundInv, TypeOK, RewardTypeOK
  <2> QED
    BY <2>1, <2>2, <2>3 DEF RewardsPayable
<1> QED
  BY <1>2, <1>3, <1>4, <1>5, ZenonT(60) DEF EndBlockError

\* The chain never halts for an inconsistency of its own state: a dangling lease, an
\* uncovered refund, a partially settled round or a round before drand.  What can
\* halt it is an emission pool that no longer pays a round.
THEOREM HaltsOnlyWhenExhausted == SafetySpec => []OnlyExhaustionHalts
<1> DEFINE Inv == RoundInv /\ MarketInv /\ OnlyExhaustionHalts
<1>1. Init => Inv
  <2>1. Init => OnlyExhaustionHalts
    BY DEF Init, OnlyExhaustionHalts
  <2> QED
    BY <2>1, RoundInvInit, MarketInvInit, ZenonT(60)
<1>2. Inv /\ [Next]_vars => Inv'
  <2> SUFFICES ASSUME Inv, [Next]_vars PROVE Inv'
    OBVIOUS
  <2>1. RoundInv' /\ MarketInv'
    BY RoundInvStep, MarketInvStep
  <2>2. OnlyExhaustionHalts'
    BY HaltFrame, ErrorMeansExhausted DEF OnlyExhaustionHalts, MarketInv
  <2> QED
    BY <2>1, <2>2
<1>3. Inv => OnlyExhaustionHalts
  OBVIOUS
<1> QED
  BY <1>1, <1>2, <1>3, PTL DEF SafetySpec

-----------------------------------------------------------------------------
(* Commit before reveal. *)

\* A vote has only been revealed after the commit window of its assignment.
BallotInv ==
    /\ RoundInv
    /\ \A k \in DOMAIN assignments :
          Submitters(k) # {} => assignments[k].startAt + CommitWindow < now

\* Only the two ballot messages write the ballots.
LEMMA BallotFrame ==
  ASSUME [Next]_vars
  PROVE  \/ UNCHANGED ballotVars
         \/ \E k \in DOMAIN assignments, v \in Verifiers, passed \in BOOLEAN :
               SubmitVerificationCommit(k, v, passed) \/ RevealVerification(k, v, passed)
<1> DEFINE Frame == UNCHANGED ballotVars
<1>1. \A d, o : RegisterWebsite(d, o) \/ RequestReregistration(d, o) \/ CreateSlot(d, o) => Frame
  BY DEF RegisterWebsite, RequestReregistration, CreateSlot
<1>2. \A s, o, status : UpdateSlotStatus(s, o, status) => Frame
  BY ZenonT(60) DEF UpdateSlotStatus
<1>3. \A s, lessee, starts, duration : LeaseSlot(s, lessee, starts, duration) => Frame
  BY DEF LeaseSlot
<1>4. (BondTx => Frame) /\ \A n : SubmitDrandBeacon(n) => Frame
  BY ZenonT(60) DEF BondTx, SubmitDrandBeacon
<1>5. \A k : FinalizeAssignment(k) => Frame
  BY DEF FinalizeAssignment, IgnoreStaleCandidate, AcceptCandidate, RejectCandidate,
         ConfirmPublisher, FailPublisher, NoQuorum, Conclude
<1>6. (\A r : SettleRound(r) => Frame) /\ (\A i : SettleLease(i) => Frame)
      /\ \A offsets, selected : AssignNewRound(offsets, selected) => Frame
  BY ZenonT(60) DEF SettleRound, SettleLease, AssignNewRound
<1>7. BeginEndBlock \/ EndFinalize \/ EndRewards \/ EndLeases \/ SkipAssignment \/ EndBlockFails
        \/ Stop \/ UNCHANGED vars => Frame
  BY DEF BeginEndBlock, EndFinalize, EndRewards, EndLeases, SkipAssignment, EndBlockFails, Stop, vars
<1>8. \A t : NextBlock(t) => Frame
  BY ZenonT(60) DEF NextBlock
<1> HIDE DEF Frame
<1>9. \/ Frame
      \/ \E k \in DOMAIN assignments, v \in Verifiers, passed \in BOOLEAN :
            SubmitVerificationCommit(k, v, passed) \/ RevealVerification(k, v, passed)
  BY <1>1, <1>2, <1>3, <1>4, <1>5, <1>6, <1>7, <1>8, ZenonT(60) DEF Next, Transaction, EndBlock
<1> QED
  BY <1>9 DEF Frame

\* An assignment keeps its start for ever, and none disappears.
LEMMA StartKept ==
  ASSUME RoundInv, [Next]_vars, NEW k \in DOMAIN assignments
  PROVE  k \in DOMAIN assignments' /\ assignments'[k].startAt = assignments[k].startAt
BY RoundFrame, FinalizeEffect, SettleEffect, AssignEffect, ZenonT(60) DEF RoundInv, SameWindows

\* Every step keeps revealed votes behind the commit window.
LEMMA BallotInvStep == BallotInv /\ [Next]_vars => BallotInv'
<1> SUFFICES ASSUME BallotInv, [Next]_vars PROVE BallotInv'
  BY ZenonT(60)
<1>1. RoundInv /\ RoundInv' /\ TypeOK /\ TypeOK'
  BY RoundInvStep, ZenonT(60) DEF BallotInv, RoundInv
<1>2. SUFFICES ASSUME NEW k \in DOMAIN assignments', NEW v \in Verifiers,
                      <<k, v>> \in DOMAIN submissions'
               PROVE  assignments'[k].startAt + CommitWindow < now'
  BY <1>1, ZenonT(60) DEF BallotInv, Submitters
<1>3. now \in Nat /\ now' \in Nat /\ now' >= now
  BY <1>1, ClockMonotone DEF TypeOK, ClockTypeOK
<1>4. ASSUME <<k, v>> \in DOMAIN submissions
      PROVE  assignments'[k].startAt + CommitWindow < now'
  <2>1. k \in DOMAIN assignments /\ assignments[k] \in Assignment
    BY <1>1, <1>4 DEF TypeOK, BallotTypeOK, RoundTypeOK
  <2>2. assignments[k].startAt + CommitWindow < now
    BY <1>4, <2>1, ZenonT(60) DEF BallotInv, Submitters
  <2>3. assignments'[k].startAt = assignments[k].startAt /\ assignments[k].startAt \in Nat
    BY <1>1, <2>1, StartKept, ZenonT(60) DEF Assignment
  <2>4. CommitWindow \in Nat
    BY ParamsAssumption
  <2> QED
    BY <1>3, <2>2, <2>3, <2>4
<1>5. ASSUME <<k, v>> \notin DOMAIN submissions
      PROVE  assignments'[k].startAt + CommitWindow < now'
  <2>1. PICK j \in DOMAIN assignments, u \in Verifiers, passed \in BOOLEAN :
             RevealVerification(j, u, passed)
    BY <1>2, <1>5, BallotFrame, ZenonT(60) DEF ballotVars, SubmitVerificationCommit
  <2>2. <<k, v>> = <<j, u>> /\ RevealOpen(assignments[j]) /\ now' = now
        /\ assignments' = assignments
    BY <1>2, <1>5, <2>1 DEF RevealVerification, Store, roundVars
  <2> QED
    BY <2>2, ZenonT(60) DEF RevealOpen
<1> QED
  BY <1>4, <1>5, ZenonT(60)

\* Once one vote on an assignment has been revealed, nobody can commit on it any
\* more: no verifier votes knowing another's vote.
THEOREM SecretBallot == SafetySpec => CommitsPrecedeReveals
<1> DEFINE NoLateCommit == \A k \in DOMAIN assignments :
              Submitters(k) # {} =>
                 \A v \in Verifiers : <<k, v>> \in DOMAIN commits' => <<k, v>> \in DOMAIN commits
<1>1. Init => BallotInv
  BY RoundInvInit DEF BallotInv, Init, EmptyStore
<1>2. ASSUME BallotInv, [Next]_vars PROVE [NoLateCommit]_vars
  <2>1. SUFFICES ASSUME NEW k \in DOMAIN assignments, Submitters(k) # {}, NEW v \in Verifiers,
                        <<k, v>> \in DOMAIN commits', <<k, v>> \notin DOMAIN commits
                 PROVE  FALSE
    OBVIOUS
  <2>2. PICK j \in DOMAIN assignments, u \in Verifiers, passed \in BOOLEAN :
             SubmitVerificationCommit(j, u, passed)
    BY <1>2, <2>1, BallotFrame, ZenonT(60) DEF ballotVars, RevealVerification, Delete
  <2>3. <<k, v>> = <<j, u>> /\ now <= assignments[j].startAt + CommitWindow
    BY <2>1, <2>2 DEF SubmitVerificationCommit, Store, CommitOpen
  <2>4. assignments[k].startAt + CommitWindow < now
    BY <1>2, <2>1, ZenonT(60) DEF BallotInv
  <2>5. now \in Nat /\ assignments[k].startAt + CommitWindow \in Nat
    <3>1. assignments[k] \in Assignment /\ now \in Nat
      BY <1>2, ZenonT(60) DEF BallotInv, RoundInv, TypeOK, RoundTypeOK, ClockTypeOK
    <3> QED
      BY <3>1, ParamsAssumption, SMTT(60) DEF Assignment
  <2> QED
    BY <2>3, <2>4, <2>5, SMTT(60)
<1>3. BallotInv /\ [Next]_vars => [NoLateCommit]_vars
  BY <1>2
<1>4. SafetySpec => [][NoLateCommit]_vars
  BY <1>1, <1>3, BallotInvStep, PTL DEF SafetySpec
<1> QED
  BY <1>4 DEF CommitsPrecedeReveals
=============================================================================
