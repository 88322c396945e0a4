----------------------------- MODULE RoundAudit -----------------------------
(***************************************************************************)
(* Proofs about what a round leaves on record: the draw of its verifiers,  *)
(* the verdict and the votes behind it, and the payments.                  *)
(***************************************************************************)
EXTENDS RoundSafety, FiniteSetTheorems

\* The step of assignNewRound, with any outcome of the draw.
RoundAssigned ==
    \E offsets \in [RoundPublishers(NextRoundStart(now)) -> 0..(DelayMax - 1)],
       selected \in [RoundPublishers(NextRoundStart(now)) -> Selections] :
          AssignNewRound(offsets, selected)

\* Only assignNewRound writes round metadata, beacons are never deleted, and only
\* the settlement of a round pays.
LEMMA AuditFrame ==
  ASSUME [Next]_vars
  PROVE  /\ beacons \subseteq beacons'
         /\ roundMeta' = roundMeta \/ RoundAssigned
         /\ payments' = payments \/ \E r \in unsettled : SettleRound(r)
<1> USE DEF roundVars, rewardVars
<1> DEFINE Frame == beacons \subseteq beacons' /\ roundMeta' = roundMeta /\ payments' = payments
<1>1. \A d, o : RegisterWebsite(d, o) \/ RequestReregistration(d, o) \/ CreateSlot(d, o) => Frame
  BY ZenonT(60) DEF RegisterWebsite, RequestReregistration, CreateSlot
<1>2. \A k, v, passed : SubmitVerificationCommit(k, v, passed) \/ RevealVerification(k, v, passed)
                          => Frame
  BY ZenonT(60) DEF SubmitVerificationCommit, RevealVerification
<1>3. \A s, o, status : UpdateSlotStatus(s, o, status) => Frame
  BY ZenonT(60) DEF UpdateSlotStatus
<1>4. \A s, lessee, starts, duration : LeaseSlot(s, lessee, starts, duration) => Frame
  BY ZenonT(60) DEF LeaseSlot
<1>5. (BondTx => Frame) /\ \A n : SubmitDrandBeacon(n) => Frame
  BY ZenonT(60) DEF BondTx, SubmitDrandBeacon
<1>6. \A k : FinalizeAssignment(k) => Frame
  BY ZenonT(60) DEF FinalizeAssignment, IgnoreStaleCandidate, AcceptCandidate, RejectCandidate,
         ConfirmPublisher, FailPublisher, NoQuorum, Conclude
<1>7. /\ \A i : SettleLease(i) => Frame
      /\ \A t : NextBlock(t) => Frame
  BY ZenonT(60) DEF SettleLease, NextBlock
<1>8. BeginEndBlock \/ EndFinalize \/ EndRewards \/ EndLeases \/ SkipAssignment \/ EndBlockFails
        \/ Stop \/ UNCHANGED vars => Frame
  BY ZenonT(60) DEF BeginEndBlock, EndFinalize, EndRewards, EndLeases, SkipAssignment,
                  EndBlockFails, Stop, vars
<1>9. \A r : SettleRound(r) => beacons' = beacons /\ roundMeta' = roundMeta
  BY ZenonT(60) DEF SettleRound
<1>10. RoundAssigned => beacons' = beacons /\ payments' = payments
  BY ZenonT(60) DEF RoundAssigned, AssignNewRound
<1> HIDE DEF Frame
<1>11. \/ Frame
       \/ \E r \in unsettled : SettleRound(r)
       \/ RoundAssigned
  BY <1>1, <1>2, <1>3, <1>4, <1>5, <1>6, <1>7, <1>8, ZenonT(60)
     DEF Next, Transaction, EndBlock, RoundAssigned
<1> QED
  BY <1>9, <1>10, <1>11, ZenonT(60) DEF Frame

\* What is drawn for an assignment stays: neither the verdict nor the settlement
\* rewrites its verifiers or its kind.
LEMMA DrawKept ==
  ASSUME RoundInv, [Next]_vars, NEW k \in DOMAIN assignments
  PROVE  /\ k \in DOMAIN assignments'
         /\ assignments'[k].startAt = assignments[k].startAt
         /\ assignments'[k].verifiers = assignments[k].verifiers
         /\ assignments'[k].reregistration = assignments[k].reregistration
<1>0. TypeOK /\ WindowsOK /\ assignments \in [DOMAIN assignments -> Assignment]
  BY DEF RoundInv, TypeOK, RoundTypeOK
<1>1. CASE UNCHANGED <<assignments, lastRoundStart, unsettled>>
  BY <1>1
<1>2. ASSUME NEW j \in DOMAIN assignments, FinalizeAssignment(j)
      PROVE  /\ assignments'[k].verifiers = assignments[k].verifiers
             /\ assignments'[k].reregistration = assignments[k].reregistration
  <2>1. PICK verified \in BOOLEAN : Conclude(j, verified)
    BY <1>2, Zenon DEF FinalizeAssignment, IgnoreStaleCandidate, AcceptCandidate, RejectCandidate,
           ConfirmPublisher, FailPublisher, NoQuorum
  <2>2. assignments' = [assignments EXCEPT ![j] =
                           [assignments[j] EXCEPT !.finalized = TRUE, !.verified = verified]]
    BY <1>0, <2>1, ZenonT(60) DEF Conclude
  <2>3. LET a == [assignments[j] EXCEPT !.finalized = TRUE, !.verified = verified]
        IN  /\ a.verifiers = assignments[j].verifiers
            /\ a.reregistration = assignments[j].reregistration
    BY <1>0 DEF Assignment
  <2> QED
    BY <1>0, <2>2, <2>3, Zenon
<1>3. ASSUME NEW r \in unsettled, SettleRound(r)
      PROVE  /\ assignments'[k].verifiers = assignments[k].verifiers
             /\ assignments'[k].reregistration = assignments[k].reregistration
  <2>1. assignments'[k] = assignments[k] \/ assignments'[k] = [assignments[k] EXCEPT !.settled = TRUE]
    BY <1>3 DEF SettleRound
  <2>2. LET a == [assignments[k] EXCEPT !.settled = TRUE]
        IN  /\ a.verifiers = assignments[k].verifiers
            /\ a.reregistration = assignments[k].reregistration
    BY <1>0 DEF Assignment
  <2> QED
    BY <2>1, <2>2, Zenon
<1>4. ASSUME NEW offsets \in [RoundPublishers(NextRoundStart(now)) -> 0..(DelayMax - 1)],
             NEW selected \in [RoundPublishers(NextRoundStart(now)) -> Selections],
             AssignNewRound(offsets, selected)
      PROVE  assignments'[k] = assignments[k]
  BY <1>0, <1>4, AssignEffect, ZenonT(60)
<1>5. k \in DOMAIN assignments' /\ assignments'[k].startAt = assignments[k].startAt
  BY StartKept, ZenonT(60)
<1> QED
  BY <1>1, <1>2, <1>3, <1>4, <1>5, RoundFrame, ZenonT(60)

-----------------------------------------------------------------------------
(* The draw. *)

\* Metadata only exists for rounds that have been assigned, so that the metadata
\* found under a new round's key is the one just written.
MetaOfPast == \A q \in DOMAIN roundMeta : q <= lastRoundStart

DrawInv == RoundInv /\ MetaOfPast /\ AuditableDraw

\* assignNewRound records what it drew from.
LEMMA AssignRecordsDraw ==
  ASSUME DrawInv, TypeOK',
         NEW offsets \in [RoundPublishers(NextRoundStart(now)) -> 0..(DelayMax - 1)],
         NEW selected \in [RoundPublishers(NextRoundStart(now)) -> Selections],
         AssignNewRound(offsets, selected)
  PROVE  MetaOfPast' /\ AuditableDraw'
<1> DEFINE r == NextRoundStart(now)
<1>0. TypeOK /\ WindowsOK
  BY DEF DrawInv, RoundInv
<1>1. now \in Nat /\ r \in Nat /\ r > now /\ lastRoundStart \in Nat
      /\ \A q \in DOMAIN roundMeta : q \in Nat
  BY <1>0, NextRoundStartAfter DEF TypeOK, ClockTypeOK, RoundTypeOK
<1>2. /\ lastRoundStart' = r /\ r > lastRoundStart
      /\ DOMAIN assignments \subseteq DOMAIN assignments'
      /\ \A k \in DOMAIN assignments : assignments'[k] = assignments[k] /\ k[1] < r
      /\ \A k \in DOMAIN assignments' \ DOMAIN assignments :
            k[1] = r /\ k[1] <= assignments'[k].startAt
  BY <1>0, AssignEffect, ZenonT(60)
<1>3. r \notin DOMAIN roundMeta
  BY <1>1, <1>2 DEF DrawInv, MetaOfPast
<1>4. roundMeta' = Store(roundMeta, r, [createdAt |-> now, eligible |-> EligibleVerifiers])
  BY <1>3 DEF AssignNewRound
<1>5. /\ DOMAIN roundMeta' = DOMAIN roundMeta \cup {r}
      /\ roundMeta'[r] = [createdAt |-> now, eligible |-> EligibleVerifiers]
      /\ \A q \in DOMAIN roundMeta : roundMeta'[q] = roundMeta[q]
  BY <1>3, <1>4, ZenonT(60) DEF Store
<1>6. beacons' = beacons /\ (DrandEnabled => RequiredDrandRound(r) \in beacons)
  BY DEF AssignNewRound, BeaconReady
<1>7. IsFiniteSet(EligibleVerifiers) /\ Cardinality(EligibleVerifiers) \in Nat
  <2>1. EligibleVerifiers \subseteq Verifiers /\ IsFiniteSet(Verifiers)
    BY <1>0, ParamsAssumption DEF EligibleVerifiers, TypeOK, BondTypeOK
  <2> QED
    BY <2>1, FS_Subset, FS_CardinalityType, ZenonT(60)
<1>8. ASSUME NEW k \in DOMAIN assignments', k \notin DOMAIN assignments
      PROVE  assignments'[k].verifiers \in Selections
  <2>1. k \in {r} \X RoundPublishers(r)
        /\ assignments'[k] = NewAssignment(k[2], r + offsets[k[2]], selected[k[2]])
    BY <1>8, ZenonT(60) DEF AssignNewRound
  <2>2. k[2] \in RoundPublishers(r)
    BY <2>1
  <2>3. selected[k[2]] \in Selections
    BY <2>2
  <2>4. assignments'[k].verifiers = selected[k[2]]
    BY <2>1 DEF NewAssignment
  <2> QED
    BY <2>3, <2>4
<1>9. \A S \in Selections :
         /\ S \subseteq EligibleVerifiers
         /\ Cardinality(S) = IF Cardinality(EligibleVerifiers) < MinVerifierCount
                             THEN Cardinality(EligibleVerifiers) ELSE MinVerifierCount
  BY <1>7, ParamsAssumption, SMTT(60) DEF Selections
<1> HIDE DEF r
<1>10. MetaOfPast'
  BY <1>1, <1>2, <1>5, SMTT(60) DEF DrawInv, MetaOfPast
<1>11. ASSUME NEW k \in DOMAIN assignments', k \notin DOMAIN assignments
       PROVE  /\ k[1] \in DOMAIN roundMeta'
              /\ roundMeta'[k[1]].createdAt < k[1] /\ k[1] <= assignments'[k].startAt
              /\ assignments'[k].verifiers \subseteq roundMeta'[k[1]].eligible
              /\ Cardinality(assignments'[k].verifiers)
                   = IF Cardinality(roundMeta'[k[1]].eligible) < MinVerifierCount
                     THEN Cardinality(roundMeta'[k[1]].eligible) ELSE MinVerifierCount
              /\ DrandEnabled => RequiredDrandRound(k[1]) \in beacons'
  <2>1. k[1] = r /\ k[1] <= assignments'[k].startAt
    BY <1>2, <1>11
  <2>2. roundMeta'[r].createdAt = now /\ roundMeta'[r].eligible = EligibleVerifiers
    BY <1>5
  <2>3. assignments'[k].verifiers \in Selections
    BY <1>8, <1>11
  <2>4. now < r /\ r \in DOMAIN roundMeta'
    BY <1>1, <1>5
  <2> QED
    BY <1>6, <1>9, <2>1, <2>2, <2>3, <2>4, ZenonT(60)
<1>12. ASSUME NEW k \in DOMAIN assignments
       PROVE  /\ k[1] \in DOMAIN roundMeta /\ roundMeta'[k[1]] = roundMeta[k[1]]
              /\ k[1] \in DOMAIN roundMeta' /\ assignments'[k] = assignments[k]
  BY <1>2, <1>5 DEF DrawInv, AuditableDraw
<1>13. AuditableDraw'
  BY <1>6, <1>11, <1>12, ZenonT(60) DEF DrawInv, AuditableDraw
<1> QED
  BY <1>10, <1>13

\* Every step keeps the record of the draws.
LEMMA DrawInvStep == DrawInv /\ [Next]_vars => DrawInv'
<1> SUFFICES ASSUME DrawInv, [Next]_vars PROVE DrawInv'
  OBVIOUS
<1>1. RoundInv /\ RoundInv' /\ TypeOK'
  BY RoundInvStep, ZenonT(60) DEF DrawInv, RoundInv
<1>2. ASSUME NEW offsets \in [RoundPublishers(NextRoundStart(now)) -> 0..(DelayMax - 1)],
             NEW selected \in [RoundPublishers(NextRoundStart(now)) -> Selections],
             AssignNewRound(offsets, selected)
      PROVE  MetaOfPast' /\ AuditableDraw'
  BY <1>1, <1>2, AssignRecordsDraw
<1>3. ASSUME DOMAIN assignments' = DOMAIN assignments, lastRoundStart' = lastRoundStart,
             roundMeta' = roundMeta
      PROVE  MetaOfPast' /\ AuditableDraw'
  <2>1. \A k \in DOMAIN assignments :
           /\ assignments'[k].startAt = assignments[k].startAt
           /\ assignments'[k].verifiers = assignments[k].verifiers
    BY <1>1, DrawKept
  <2>2. beacons \subseteq beacons'
    BY AuditFrame
  <2> QED
    BY <1>3, <2>1, <2>2, ZenonT(60) DEF DrawInv, MetaOfPast, AuditableDraw
<1>4. \/ RoundAssigned
      \/ /\ DOMAIN assignments' = DOMAIN assignments /\ lastRoundStart' = lastRoundStart
         /\ roundMeta' = roundMeta
  <2>1. TypeOK
    BY <1>1 DEF RoundInv
  <2> QED
    BY <2>1, RoundFrame, FinalizeEffect, SettleEffect, AuditFrame, ZenonT(60)
       DEF RoundAssigned, SameWindows
<1>5. MetaOfPast' /\ AuditableDraw'
  BY <1>2, <1>3, <1>4, ZenonT(60) DEF RoundAssigned
<1> QED
  BY <1>1, <1>5 DEF DrawInv

\* Every draw of verifiers can be recomputed from what the chain has stored: whatever
\* the schedule, the bonds and the penalties were when it was made.
THEOREM DrawsAuditable == SafetySpec => []AuditableDraw
<1>1. Init => DrawInv
  <2> SUFFICES ASSUME Init PROVE DrawInv
    OBVIOUS
  <2>1. DOMAIN assignments = {} /\ DOMAIN roundMeta = {}
    BY DEF Init, EmptyStore
  <2>2. RoundInv
    BY RoundInvInit
  <2> QED
    BY <2>1, <2>2, ZenonT(60) DEF DrawInv, MetaOfPast, AuditableDraw
<1>2. DrawInv => AuditableDraw
  BY DEF DrawInv
<1> QED
  BY <1>1, <1>2, DrawInvStep, PTL DEF SafetySpec

-----------------------------------------------------------------------------
(* The verdict. *)

\* Every revealed vote is of an assigned verifier.
VotesOfAssigned ==
    \A k \in DOMAIN assignments : Submitters(k) \subseteq assignments[k].verifiers

\* A verdict says what the count of the stored votes says.
VerdictMatches(k) ==
    /\ assignments[k].verified => assignments[k].finalized /\ MajorityPass(k)
    /\ assignments[k].finalized /\ ~assignments[k].reregistration
          => (assignments[k].verified <=> MajorityPass(k))

VoteInv == RoundInv /\ VotesOfAssigned /\ \A k \in DOMAIN assignments : VerdictMatches(k)

\* The quorum and the majority that finalizeAssignments computes by rounding up and
\* by comparing yes with no are the halves of VerdictJustified.
LEMMA CountIsMajority ==
  ASSUME TypeOK, VotesOfAssigned, NEW k \in DOMAIN assignments
  PROVE  LET votes == {v \in assignments[k].verifiers : <<k, v>> \in DOMAIN submissions}
             yes == {v \in votes : submissions[<<k, v>>]}
         IN  MajorityPass(k) <=> /\ 2 * Cardinality(votes) >= Cardinality(assignments[k].verifiers)
                                 /\ 2 * Cardinality(yes) > Cardinality(votes)
<1> DEFINE assigned == assignments[k].verifiers
           votes == {v \in assigned : <<k, v>> \in DOMAIN submissions}
           yes == {v \in votes : submissions[<<k, v>>]}
<1>1. assigned \subseteq Verifiers
  BY DEF TypeOK, RoundTypeOK, Assignment
<1>2. votes = Submitters(k) /\ yes = Passes(k) /\ votes \ yes = Fails(k)
  BY <1>1 DEF VotesOfAssigned, Submitters, Passes, Fails
<1>3. yes \subseteq votes /\ votes \subseteq assigned
  OBVIOUS
<1> HIDE DEF assigned, votes, yes
<1>4. IsFiniteSet(assigned) /\ IsFiniteSet(votes) /\ IsFiniteSet(yes)
  <2>1. IsFiniteSet(Verifiers)
    BY ParamsAssumption
  <2>2. IsFiniteSet(assigned)
    BY <1>1, <2>1, FS_Subset, ZenonT(60)
  <2>3. IsFiniteSet(votes)
    BY <1>3, <2>2, FS_Subset, ZenonT(60)
  <2> QED
    BY <1>3, <2>2, <2>3, FS_Subset, ZenonT(60)
<1>5. /\ Cardinality(assigned) \in Nat /\ Cardinality(votes) \in Nat /\ Cardinality(yes) \in Nat
      /\ Cardinality(votes) <= Cardinality(assigned)
      /\ Cardinality(yes) <= Cardinality(votes)
  BY <1>3, <1>4, FS_Subset, FS_CardinalityType, ZenonT(60)
<1>6. Cardinality(votes \ yes) = Cardinality(votes) - Cardinality(yes)
  <2>1. votes \cap yes = yes
    BY <1>3
  <2> QED
    BY <1>4, <2>1, FS_Difference, ZenonT(60)
<1>7. MajorityPass(k) <=>
         LET quorum == RequiredQuorum(Cardinality(assigned))
         IN  /\ Cardinality(votes) >= quorum /\ quorum > 0
             /\ Cardinality(yes) > Cardinality(votes \ yes)
  BY <1>2, ZenonT(60) DEF MajorityPass, HasQuorum, assigned
<1>8. ASSUME NEW n \in Nat, NEW m \in Nat, NEW y \in Nat, m <= n, y <= m
      PROVE  LET quorum == RequiredQuorum(n)
             IN  (m >= quorum /\ quorum > 0 /\ y > m - y) <=> (2 * m >= n /\ 2 * y > m)
  BY <1>8, SMTT(60) DEF RequiredQuorum
<1>9. MajorityPass(k) <=> 2 * Cardinality(votes) >= Cardinality(assigned)
                          /\ 2 * Cardinality(yes) > Cardinality(votes)
  BY <1>5, <1>6, <1>7, <1>8, ZenonT(60)
<1> QED
  BY <1>9 DEF assigned, votes, yes

\* The votes on an assignment stay as they are once it is finalized, and a step that
\* finalizes it changes no vote.
LEMMA VotesKept ==
  ASSUME RoundInv, [Next]_vars, NEW k \in DOMAIN assignments,
         assignments[k].finalized \/ assignments' # assignments
  PROVE  /\ Submitters(k)' = Submitters(k) /\ Passes(k)' = Passes(k) /\ Fails(k)' = Fails(k)
         /\ HasQuorum(k)' = HasQuorum(k) /\ MajorityPass(k)' = MajorityPass(k)
<1>1. \A v \in Verifiers :
         /\ <<k, v>> \in DOMAIN submissions' <=> <<k, v>> \in DOMAIN submissions
         /\ <<k, v>> \in DOMAIN submissions => submissions'[<<k, v>>] = submissions[<<k, v>>]
  <2>1. CASE UNCHANGED ballotVars
    BY <2>1 DEF ballotVars
  <2>2. ASSUME NEW j \in DOMAIN assignments, NEW u \in Verifiers, NEW passed \in BOOLEAN,
               SubmitVerificationCommit(j, u, passed)
        PROVE  submissions' = submissions
    BY <2>2 DEF SubmitVerificationCommit
  <2>3. ASSUME NEW j \in DOMAIN assignments, NEW u \in Verifiers, NEW passed \in BOOLEAN,
               RevealVerification(j, u, passed), NEW v \in Verifiers
        PROVE  /\ <<k, v>> \in DOMAIN submissions' <=> <<k, v>> \in DOMAIN submissions
               /\ <<k, v>> \in DOMAIN submissions => submissions'[<<k, v>>] = submissions[<<k, v>>]
    <3>1. assignments' = assignments /\ ~assignments[j].finalized
          /\ submissions' = Store(submissions, <<j, u>>, passed)
      BY <2>3 DEF RevealVerification, roundVars
    <3>2. <<k, v>> # <<j, u>>
      BY <3>1
    <3> QED
      BY <3>1, <3>2, ZenonT(60) DEF Store
  <2> QED
    BY <2>1, <2>2, <2>3, BallotFrame, ZenonT(60)
<1>2. Submitters(k)' = Submitters(k)
  BY <1>1 DEF Submitters
<1>3. Passes(k)' = Passes(k)
  BY <1>1, <1>2 DEF Passes, Submitters
<1>4. Fails(k)' = Fails(k)
  BY <1>2, <1>3 DEF Fails
<1>5. assignments'[k].verifiers = assignments[k].verifiers
  BY DrawKept
<1>6. HasQuorum(k)' = HasQuorum(k)
  BY <1>2, <1>5, ZenonT(60) DEF HasQuorum
<1>7. MajorityPass(k)' = MajorityPass(k)
  BY <1>3, <1>4, <1>6, ZenonT(60) DEF MajorityPass
<1> QED
  BY <1>2, <1>3, <1>4, <1>6, <1>7

\* What finalizeAssignments stores is the outcome of the count.
LEMMA FinalizeVerdict ==
  ASSUME TypeOK, NEW k \in DOMAIN assignments, FinalizeAssignment(k)
  PROVE  /\ assignments'[k].finalized
         /\ assignments'[k].verified => MajorityPass(k)
         /\ ~assignments[k].reregistration => (assignments'[k].verified <=> MajorityPass(k))
         /\ \A j \in DOMAIN assignments \ {k} : assignments'[j] = assignments[j]
<1>1. PICK verified \in BOOLEAN :
          /\ Conclude(k, verified)
          /\ verified => MajorityPass(k)
          /\ ~assignments[k].reregistration => (verified <=> MajorityPass(k))
  <2>1. CASE IgnoreStaleCandidate(k) \/ RejectCandidate(k) \/ FailPublisher(k) \/ NoQuorum(k)
    BY <2>1, ZenonT(60) DEF IgnoreStaleCandidate, RejectCandidate, FailPublisher, PublisherFails,
                            NoQuorum, MajorityPass
  <2>2. CASE AcceptCandidate(k) \/ ConfirmPublisher(k)
    BY <2>2, ZenonT(60) DEF AcceptCandidate, ConfirmPublisher
  <2> QED
    BY <2>1, <2>2, Zenon DEF FinalizeAssignment
<1>2. assignments \in [DOMAIN assignments -> Assignment]
  BY DEF TypeOK, RoundTypeOK
<1>3. assignments' = [assignments EXCEPT ![k] =
                         [assignments[k] EXCEPT !.finalized = TRUE, !.verified = verified]]
  BY <1>1, <1>2, ZenonT(60) DEF Conclude
<1>4. LET a == [assignments[k] EXCEPT !.finalized = TRUE, !.verified = verified]
      IN  a.finalized = TRUE /\ a.verified = verified
  BY <1>2 DEF Assignment
<1> QED
  BY <1>1, <1>2, <1>3, <1>4, ZenonT(60)

\* A settlement or a new round leaves verdicts alone; new assignments have none.
LEMMA VerdictKept ==
  ASSUME RoundInv, [Next]_vars, NEW k \in DOMAIN assignments'
  PROVE  \/ /\ k \in DOMAIN assignments
            /\ assignments'[k].finalized = assignments[k].finalized
            /\ assignments'[k].verified = assignments[k].verified
         \/ k \in DOMAIN assignments /\ FinalizeAssignment(k)
         \/ /\ k \notin DOMAIN assignments
            /\ ~assignments'[k].finalized /\ ~assignments'[k].verified
<1>0. TypeOK /\ WindowsOK /\ assignments \in [DOMAIN assignments -> Assignment]
  BY DEF RoundInv, TypeOK, RoundTypeOK
<1> DEFINE Same == /\ k \in DOMAIN assignments
                   /\ assignments'[k].finalized = assignments[k].finalized
                   /\ assignments'[k].verified = assignments[k].verified
           New == /\ k \notin DOMAIN assignments
                  /\ ~assignments'[k].finalized /\ ~assignments'[k].verified
<1>1. CASE UNCHANGED <<assignments, lastRoundStart, unsettled>>
  BY <1>1
<1>2. ASSUME NEW j \in DOMAIN assignments, FinalizeAssignment(j)
      PROVE  Same \/ j = k
  BY <1>0, <1>2, FinalizeVerdict, FinalizeEffect, ZenonT(60) DEF SameWindows
<1>3. ASSUME NEW r \in unsettled, SettleRound(r)
      PROVE  Same
  <2>1. k \in DOMAIN assignments
        /\ (assignments'[k] = assignments[k] \/ assignments'[k] = [assignments[k] EXCEPT !.settled = TRUE])
    BY <1>3 DEF SettleRound
  <2>2. LET a == [assignments[k] EXCEPT !.settled = TRUE]
        IN  a.finalized = assignments[k].finalized /\ a.verified = assignments[k].verified
    BY <1>0, <2>1 DEF Assignment
  <2> QED
    BY <2>1, <2>2, Zenon
<1>4. ASSUME NEW offsets \in [RoundPublishers(NextRoundStart(now)) -> 0..(DelayMax - 1)],
             NEW selected \in [RoundPublishers(NextRoundStart(now)) -> Selections],
             AssignNewRound(offsets, selected)
      PROVE  Same \/ New
  <2>1. CASE k \in DOMAIN assignments
    BY <1>0, <1>4, <2>1, AssignEffect, ZenonT(60)
  <2>2. CASE k \notin DOMAIN assignments
    <3>1. PICK startAt, verifiers : assignments'[k] = NewAssignment(k[2], startAt, verifiers)
      BY <1>4, <2>2, ZenonT(60) DEF AssignNewRound
    <3>2. ~NewAssignment(k[2], startAt, verifiers).finalized
          /\ ~NewAssignment(k[2], startAt, verifiers).verified
      BY DEF NewAssignment
    <3> QED
      BY <2>2, <3>1, <3>2, Zenon
  <2> QED
    BY <2>1, <2>2
<1> QED
  BY <1>1, <1>2, <1>3, <1>4, RoundFrame, ZenonT(60)

\* Every step keeps votes with the assigned verifiers and verdicts with the votes.
LEMMA VoteInvStep == VoteInv /\ [Next]_vars => VoteInv'
<1> SUFFICES ASSUME VoteInv, [Next]_vars PROVE VoteInv'
  OBVIOUS
<1>1. RoundInv /\ RoundInv' /\ TypeOK /\ TypeOK'
  BY RoundInvStep, ZenonT(60) DEF VoteInv, RoundInv
<1>2. VotesOfAssigned'
  <2>1. SUFFICES ASSUME NEW k \in DOMAIN assignments', NEW v \in Verifiers,
                        <<k, v>> \in DOMAIN submissions'
                 PROVE  v \in assignments'[k].verifiers
    BY ZenonT(60) DEF VotesOfAssigned, Submitters
  <2>2. CASE <<k, v>> \in DOMAIN submissions
    <3>1. k \in DOMAIN assignments
      BY <1>1, <2>2 DEF TypeOK, BallotTypeOK
    <3>2. v \in assignments[k].verifiers
      BY <2>2, <3>1 DEF VoteInv, VotesOfAssigned, Submitters
    <3> QED
      BY <1>1, <3>1, <3>2, DrawKept
  <2>3. CASE <<k, v>> \notin DOMAIN submissions
    <3>1. PICK j \in DOMAIN assignments, u \in Verifiers, passed \in BOOLEAN :
               RevealVerification(j, u, passed)
      BY <2>1, <2>3, BallotFrame, ZenonT(60) DEF ballotVars, SubmitVerificationCommit
    <3>2. <<k, v>> = <<j, u>> /\ u \in assignments[j].verifiers /\ assignments' = assignments
      BY <2>1, <2>3, <3>1 DEF RevealVerification, Store, roundVars
    <3> QED
      BY <3>2
  <2> QED
    BY <2>2, <2>3
<1>3. ASSUME NEW k \in DOMAIN assignments' PROVE VerdictMatches(k)'
  <2>1. CASE /\ k \in DOMAIN assignments
             /\ assignments'[k].finalized = assignments[k].finalized
             /\ assignments'[k].verified = assignments[k].verified
    <3>1. VerdictMatches(k)
      BY <2>1 DEF VoteInv
    <3>2. assignments'[k].reregistration = assignments[k].reregistration
      BY <1>1, <2>1, DrawKept
    <3>3. assignments[k].finalized => MajorityPass(k)' = MajorityPass(k)
      BY <1>1, <2>1, VotesKept
    <3> QED
      BY <2>1, <3>1, <3>2, <3>3, ZenonT(60) DEF VerdictMatches
  <2>2. CASE k \in DOMAIN assignments /\ FinalizeAssignment(k)
    <3>1. assignments[k].reregistration = assignments'[k].reregistration
      BY <1>1, <2>2, DrawKept
    <3>2. /\ assignments'[k].finalized
          /\ assignments'[k].verified => MajorityPass(k)
          /\ ~assignments[k].reregistration => (assignments'[k].verified <=> MajorityPass(k))
      BY <1>1, <2>2, FinalizeVerdict
    <3>3. assignments' # assignments
      BY <1>1, <2>2, <3>2, FinalizeEffect
    <3>4. MajorityPass(k)' = MajorityPass(k)
      BY <1>1, <2>2, <3>3, VotesKept
    <3> QED
      BY <3>1, <3>2, <3>4, ZenonT(60) DEF VerdictMatches
  <2>3. CASE ~assignments'[k].finalized /\ ~assignments'[k].verified
    BY <2>3, ZenonT(60) DEF VerdictMatches
  <2> QED
    BY <1>1, <2>1, <2>2, <2>3, VerdictKept, ZenonT(60)
<1> QED
  BY <1>1, <1>2, <1>3, ZenonT(60) DEF VoteInv

\* There are no assignments and no votes at genesis.
LEMMA VoteInvInit == Init => VoteInv
<1> SUFFICES ASSUME Init PROVE VoteInv
  OBVIOUS
<1>1. DOMAIN assignments = {} /\ RoundInv
  BY RoundInvInit DEF Init, EmptyStore
<1> QED
  BY <1>1, ZenonT(60) DEF VoteInv, VotesOfAssigned

\* A stored verdict is, at any later time, what a recount of the stored votes gives.
THEOREM VerdictsJustified == SafetySpec => []VerdictJustified
<1>1. VoteInv => VerdictJustified
  <2> SUFFICES ASSUME VoteInv PROVE VerdictJustified
    OBVIOUS
  <2>1. TypeOK /\ VotesOfAssigned /\ \A k \in DOMAIN assignments : VerdictMatches(k)
    BY DEF VoteInv, RoundInv
  <2> QED
    BY <2>1, CountIsMajority, ZenonT(60) DEF VerdictJustified, VerdictMatches
<1> QED
  BY <1>1, VoteInvInit, VoteInvStep, PTL DEF SafetySpec

-----------------------------------------------------------------------------
(* The payments. *)

\* A round is on the list exactly as long as its assignments are unsettled, and
\* payments are for assignments.
LedgerOK ==
    /\ \A k \in DOMAIN assignments : assignments[k].settled <=> k[1] \notin unsettled
    /\ \A p \in payments : p.key \in DOMAIN assignments

PaidInv == VoteInv /\ LedgerOK /\ PaidOnce

\* The verifiers that a payment names are those that voted yes.
LEMMA PassesAsSet ==
  \A k : Passes(k) = {v \in Verifiers : <<k, v>> \in DOMAIN submissions /\ submissions[<<k, v>>]}
BY DEF Passes, Submitters

\* An assignment that finalizeAssignments decides belongs to a round still on the list,
\* for which nothing has been paid.
LEMMA FinalizeKeepsLedger ==
  ASSUME PaidInv, [Next]_vars, NEW k \in DOMAIN assignments, FinalizeAssignment(k)
  PROVE  LedgerOK' /\ PaidOnce'
<1>0. TypeOK /\ RoundInv /\ VerdictMatches(k)
  BY DEF PaidInv, VoteInv, RoundInv
<1>1. /\ DOMAIN assignments' = DOMAIN assignments
      /\ ~assignments[k].finalized
      /\ \A j \in DOMAIN assignments : assignments'[j].settled = assignments[j].settled
      /\ unsettled' = IF assignments[k].settled THEN unsettled ELSE unsettled \cup {k[1]}
  BY <1>0, FinalizeEffect, ZenonT(60) DEF SameWindows
<1>2. ~assignments[k].settled
  BY <1>0, <1>1, ZenonT(60) DEF RoundInv, SettledWhole
<1>3. k[1] \in unsettled /\ unsettled' = unsettled
  <2>1. k[1] \in unsettled
    BY <1>2, ZenonT(60) DEF PaidInv, LedgerOK
  <2> QED
    BY <1>1, <1>2, <2>1
<1>4. payments' = payments /\ submissions' = submissions
  BY DEF FinalizeAssignment, IgnoreStaleCandidate, AcceptCandidate, RejectCandidate,
         ConfirmPublisher, FailPublisher, NoQuorum, Conclude, ballotVars
<1>5. \A j \in DOMAIN assignments \ {k} : assignments'[j] = assignments[j]
  BY <1>0, FinalizeVerdict, ZenonT(60)
<1>6. LedgerOK'
  BY <1>1, <1>3, <1>4, ZenonT(60) DEF PaidInv, LedgerOK
<1>7. \A p \in payments : p.key \in DOMAIN assignments \ {k}
  BY <1>3, ZenonT(60) DEF PaidInv, LedgerOK, PaidOnce
<1>8. PaidOnce'
  BY <1>1, <1>3, <1>4, <1>5, <1>7, ZenonT(60) DEF PaidInv, PaidOnce
<1> QED
  BY <1>6, <1>8

\* The settlement of a round pays all of it, and nothing that was paid before.
LEMMA SettleKeepsLedger ==
  ASSUME PaidInv, NEW r \in unsettled, SettleRound(r)
  PROVE  LedgerOK' /\ PaidOnce'
<1>0. TypeOK /\ assignments \in [DOMAIN assignments -> Assignment]
  BY DEF PaidInv, VoteInv, RoundInv, TypeOK, RoundTypeOK
<1>1. UnpaidKeys(r) = RoundKeys(r)
  BY ZenonT(60) DEF PaidInv, LedgerOK, UnpaidKeys, RoundKeys
<1>2. /\ unsettled' = unsettled \ {r} /\ submissions' = submissions
      /\ payments' = payments \cup RoundPayments(r)
      /\ DOMAIN assignments' = DOMAIN assignments
      /\ \A k \in DOMAIN assignments :
            assignments'[k] = IF k \in UnpaidKeys(r)
                              THEN [assignments[k] EXCEPT !.settled = TRUE] ELSE assignments[k]
  BY DEF SettleRound, ballotVars
<1>3. \A k \in DOMAIN assignments :
         LET a == [assignments[k] EXCEPT !.settled = TRUE]
         IN  a.settled /\ a.verified = assignments[k].verified
  BY <1>0 DEF Assignment
<1>4. \A k \in DOMAIN assignments :
         /\ assignments'[k].verified = assignments[k].verified
         /\ k[1] = r => assignments'[k].settled
         /\ k[1] # r => assignments'[k].settled = assignments[k].settled
  <2>1. \A k \in DOMAIN assignments : k \in UnpaidKeys(r) <=> k[1] = r
    BY <1>1 DEF RoundKeys
  <2> QED
    BY <1>2, <1>3, <2>1, ZenonT(60)
<1>5. \A p \in RoundPayments(r) :
         /\ p.key \in DOMAIN assignments /\ p.key[1] = r /\ assignments[p.key].verified
         /\ p.verifiers = Passes(p.key)
         /\ p = [key |-> p.key, owner |-> websites[p.key[2]].owner, verifiers |-> Passes(p.key),
                 at |-> now]
  BY SMTT(60) DEF RoundPayments, UnpaidKeys, RoundKeys
<1>6. \A k \in DOMAIN assignments :
         k[1] = r /\ assignments[k].verified => \E p \in RoundPayments(r) : p.key = k
  <2> TAKE k \in DOMAIN assignments
  <2> HAVE k[1] = r /\ assignments[k].verified
  <2> DEFINE p == [key |-> k, owner |-> websites[k[2]].owner, verifiers |-> Passes(k), at |-> now]
  <2>1. k \in {j \in UnpaidKeys(r) : assignments[j].verified}
    BY <1>1 DEF RoundKeys
  <2>2. p \in RoundPayments(r)
    BY <2>1, ZenonT(60) DEF RoundPayments
  <2>3. p.key = k
    OBVIOUS
  <2> QED
    BY <2>2, <2>3, Zenon
<1>7. LedgerOK'
  BY <1>2, <1>4, <1>5, ZenonT(60) DEF PaidInv, LedgerOK
<1>8. \A p \in payments : p.key[1] # r /\ p.key \in DOMAIN assignments
  BY DEF PaidInv, PaidOnce, LedgerOK
<1>9. ASSUME NEW p \in payments', NEW q \in payments', p.key = q.key
      PROVE  p = q
  <2>1. CASE p \in payments /\ q \in payments
    BY <1>9, <2>1, ZenonT(60) DEF PaidInv, PaidOnce
  <2>2. CASE p \in RoundPayments(r) /\ q \in RoundPayments(r)
    BY <1>5, <1>9, <2>2, ZenonT(60)
  <2> QED
    BY <1>2, <1>5, <1>8, <1>9, <2>1, <2>2, ZenonT(60)
<1>10. ASSUME NEW p \in payments'
       PROVE  /\ assignments'[p.key].verified /\ p.key[1] \notin unsettled'
              /\ p.verifiers = {v \in Verifiers : <<p.key, v>> \in DOMAIN submissions'
                                                     /\ submissions'[<<p.key, v>>]}
  <2>1. CASE p \in payments
    BY <1>2, <1>4, <1>8, <2>1, ZenonT(60) DEF PaidInv, PaidOnce
  <2>2. CASE p \in RoundPayments(r)
    BY <1>2, <1>4, <1>5, <2>2, PassesAsSet, ZenonT(60)
  <2> QED
    BY <1>2, <2>1, <2>2
<1>11. ASSUME NEW k \in DOMAIN assignments', assignments'[k].verified, k[1] \notin unsettled'
       PROVE  \E p \in payments' : p.key = k
  <2>1. k \in DOMAIN assignments /\ assignments[k].verified
    BY <1>2, <1>4, <1>11, ZenonT(60)
  <2>2. CASE k[1] = r
    BY <1>2, <1>6, <2>1, <2>2, ZenonT(60)
  <2>3. CASE k[1] \notin unsettled
    BY <1>2, <2>1, <2>3, ZenonT(60) DEF PaidInv, PaidOnce
  <2> QED
    BY <1>2, <1>11, <2>2, <2>3
<1>12. PaidOnce'
  BY <1>9, <1>10, <1>11, ZenonT(60) DEF PaidOnce
<1> QED
  BY <1>7, <1>12

\* A new round is put on the list, and none of its assignments is settled.
LEMMA AssignKeepsLedger ==
  ASSUME PaidInv,
         NEW offsets \in [RoundPublishers(NextRoundStart(now)) -> 0..(DelayMax - 1)],
         NEW selected \in [RoundPublishers(NextRoundStart(now)) -> Selections],
         AssignNewRound(offsets, selected)
  PROVE  LedgerOK' /\ PaidOnce'
<1> DEFINE r == NextRoundStart(now)
           added == DOMAIN assignments' \ DOMAIN assignments
<1>0. TypeOK /\ WindowsOK
  BY DEF PaidInv, VoteInv, RoundInv
<1>1. /\ DOMAIN assignments \subseteq DOMAIN assignments'
      /\ \A k \in DOMAIN assignments : assignments'[k] = assignments[k] /\ k[1] < r
      /\ \A k \in added : k[1] = r /\ ~assignments'[k].settled
  BY <1>0, AssignEffect, ZenonT(60)
<1>2. payments' = payments /\ submissions' = submissions
  BY DEF AssignNewRound, ballotVars
<1>3. /\ added # {} => unsettled' = unsettled \cup {r}
      /\ unsettled' = unsettled \/ unsettled' = unsettled \cup {r}
  <2>1. /\ DOMAIN assignments' = DOMAIN assignments \cup ({r} \X RoundPublishers(r))
        /\ unsettled' = IF {r} \X RoundPublishers(r) \subseteq DOMAIN assignments
                        THEN unsettled ELSE unsettled \cup {r}
    BY DEF AssignNewRound
  <2> QED
    BY <2>1, ZenonT(60)
<1>4. \A k \in DOMAIN assignments : k[1] # r /\ (k[1] \in unsettled' <=> k[1] \in unsettled)
  <2>1. \A k \in DOMAIN assignments : k[1] \in Nat
    BY <1>0 DEF TypeOK, RoundTypeOK
  <2>2. r \in Nat
    BY <1>0, NextRoundStartAfter DEF TypeOK, ClockTypeOK
  <2>3. \A k \in DOMAIN assignments : k[1] # r
    BY <1>1, <2>1, <2>2
  <2> QED
    BY <1>3, <2>3, ZenonT(60)
<1> HIDE DEF r
<1>5. \A k \in added : k[1] \in unsettled'
  BY <1>1, <1>3
<1>6. LedgerOK'
  BY <1>1, <1>2, <1>4, <1>5, ZenonT(60) DEF PaidInv, LedgerOK
<1>7. \A p \in payments : p.key \in DOMAIN assignments
  BY DEF PaidInv, LedgerOK
<1>8. PaidOnce'
  BY <1>1, <1>2, <1>4, <1>5, <1>7, ZenonT(60) DEF PaidInv, PaidOnce
<1> QED
  BY <1>6, <1>8

\* Every step keeps the ledger.
LEMMA PaidInvStep == PaidInv /\ [Next]_vars => PaidInv'
<1> SUFFICES ASSUME PaidInv, [Next]_vars PROVE PaidInv'
  OBVIOUS
<1>1. VoteInv /\ VoteInv' /\ RoundInv
  BY VoteInvStep, ZenonT(60) DEF PaidInv, VoteInv
<1>2. ASSUME UNCHANGED <<assignments, lastRoundStart, unsettled>>, payments' = payments
      PROVE  LedgerOK' /\ PaidOnce'
  <2>1. LedgerOK'
    BY <1>2, ZenonT(60) DEF PaidInv, LedgerOK
  <2>2. \A p \in payments : p.key \in DOMAIN assignments /\ assignments[p.key].finalized
    BY ZenonT(60) DEF PaidInv, LedgerOK, PaidOnce, VoteInv, VerdictMatches
  <2>3. \A p \in payments : Passes(p.key)' = Passes(p.key)
    BY <1>1, <2>2, VotesKept, ZenonT(60)
  <2>4. \A p \in payments : p.verifiers = Passes(p.key)
    BY PassesAsSet, ZenonT(60) DEF PaidInv, PaidOnce
  <2>5. \A k : Passes(k)' = {v \in Verifiers : <<k, v>> \in DOMAIN submissions'
                                                 /\ submissions'[<<k, v>>]}
    BY DEF Passes, Submitters
  <2>6. \A p \in payments' :
           p.verifiers = {v \in Verifiers : <<p.key, v>> \in DOMAIN submissions'
                                              /\ submissions'[<<p.key, v>>]}
    BY <1>2, <2>3, <2>4, <2>5, ZenonT(60)
  <2> QED
    BY <1>2, <2>1, <2>6, ZenonT(60) DEF PaidInv, PaidOnce
<1>3. ASSUME NEW r \in unsettled, SettleRound(r) PROVE LedgerOK' /\ PaidOnce'
  BY <1>3, SettleKeepsLedger, ZenonT(60)
<1>4. ASSUME NEW k \in DOMAIN assignments, FinalizeAssignment(k) PROVE LedgerOK' /\ PaidOnce'
  BY <1>4, FinalizeKeepsLedger, ZenonT(60)
<1>5. ASSUME NEW offsets \in [RoundPublishers(NextRoundStart(now)) -> 0..(DelayMax - 1)],
             NEW selected \in [RoundPublishers(NextRoundStart(now)) -> Selections],
             AssignNewRound(offsets, selected)
      PROVE  LedgerOK' /\ PaidOnce'
  BY <1>5, AssignKeepsLedger, ZenonT(60)
<1>6. LedgerOK' /\ PaidOnce'
  BY <1>2, <1>3, <1>4, <1>5, RoundFrame, AuditFrame, ZenonT(60)
<1> QED
  BY <1>1, <1>6 DEF PaidInv

\* settleFinalizedVerificationRounds pays every verified assignment exactly once, and
\* nothing else, whatever the order in which rounds become complete.
THEOREM RoundsPaidOnce == SafetySpec => []PaidOnce
<1>1. Init => PaidInv
  <2> SUFFICES ASSUME Init PROVE PaidInv
    OBVIOUS
  <2>1. DOMAIN assignments = {} /\ payments = {}
    BY DEF Init, EmptyStore
  <2>2. VoteInv
    BY VoteInvInit
  <2> QED
    BY <2>1, <2>2, ZenonT(60) DEF PaidInv, LedgerOK, PaidOnce
<1>2. PaidInv => PaidOnce
  BY DEF PaidInv
<1> QED
  BY <1>1, <1>2, PaidInvStep, PTL DEF SafetySpec
=============================================================================
