--------------------------- MODULE RegistrySafety ---------------------------
(***************************************************************************)
(* Proofs of safety properties of Registry, on top of type correctness.    *)
(* Every property depends on few stores; a frame lemma says which actions  *)
(* write them, so that a proof looks at these actions only.                *)
(***************************************************************************)
EXTENDS RegistryTypes

-----------------------------------------------------------------------------
(* Frames. *)

\* Only the two registration messages and finalizeAssignments write websites.
LEMMA SiteFrame ==
  ASSUME [Next]_vars
  PROVE  \/ UNCHANGED siteVars
         \/ \E d \in Domains, o \in Owners : RegisterWebsite(d, o) \/ RequestReregistration(d, o)
         \/ \E k \in DOMAIN assignments : FinalizeAssignment(k)
<1>1. CASE UNCHANGED vars
  BY <1>1 DEF vars
<1>2. CASE Transaction
  <2>1. ASSUME NEW k \in DOMAIN assignments, NEW v \in Verifiers, NEW passed \in BOOLEAN,
               SubmitVerificationCommit(k, v, passed) \/ RevealVerification(k, v, passed)
        PROVE  UNCHANGED siteVars
    BY <2>1 DEF SubmitVerificationCommit, RevealVerification
  <2>2. ASSUME NEW s \in DOMAIN slots, NEW o \in Owners, NEW status \in SlotStatus,
               UpdateSlotStatus(s, o, status)
        PROVE  UNCHANGED siteVars
    BY <2>2 DEF UpdateSlotStatus
  <2>3. ASSUME NEW s \in DOMAIN slots, NEW lessee \in Lessees, NEW lead \in LeaseLeads,
               NEW duration \in LeaseDurations, LeaseSlot(s, lessee, now + lead, duration)
        PROVE  UNCHANGED siteVars
    BY <2>3 DEF LeaseSlot
  <2>4. ASSUME NEW d \in Domains, NEW o \in Owners, CreateSlot(d, o)
        PROVE  UNCHANGED siteVars
    BY <2>4 DEF CreateSlot
  <2>5. CASE BondTx \/ SubmitDrandBeacon(RequiredDrandRound(NextRoundStart(now)))
    BY <2>5, ZenonT(60) DEF BondTx, SubmitDrandBeacon
  <2> QED
    BY <1>2, <2>1, <2>2, <2>3, <2>4, <2>5 DEF Transaction
<1>3. CASE EndBlock
  BY <1>3 DEF EndBlock, BeginEndBlock, EndFinalize, SettleRound, EndRewards, SettleLease,
              EndLeases, SkipAssignment, AssignNewRound, EndBlockFails
<1>4. CASE \E gap \in BlockGaps : NextBlock(now + gap)
  BY <1>4 DEF NextBlock
<1>5. CASE Stop
  BY <1>5 DEF Stop, vars
<1> QED
  BY <1>1, <1>2, <1>3, <1>4, <1>5 DEF Next

\* Only the market messages, finalizeAssignments and settleLeases write slots and leases.
LEMMA MarketFrame ==
  ASSUME [Next]_vars
  PROVE  \/ UNCHANGED marketVars
         \/ \E d \in Domains, o \in Owners : CreateSlot(d, o)
         \/ \E s \in DOMAIN slots, o \in Owners, status \in SlotStatus : UpdateSlotStatus(s, o, status)
         \/ \E s \in DOMAIN slots, lessee \in Lessees, lead \in LeaseLeads, duration \in LeaseDurations :
               LeaseSlot(s, lessee, now + lead, duration)
         \/ \E k \in DOMAIN assignments : FinalizeAssignment(k)
         \/ \E i \in DOMAIN leases : SettleLease(i)
<1>1. CASE UNCHANGED vars
  BY <1>1 DEF vars
<1>2. CASE Transaction
  BY <1>2, ZenonT(60) DEF Transaction, RegisterWebsite, RequestReregistration, SubmitVerificationCommit,
              RevealVerification, SubmitDrandBeacon, BondTx
<1>3. CASE EndBlock
  BY <1>3 DEF EndBlock, BeginEndBlock, EndFinalize, SettleRound, EndRewards,
              EndLeases, SkipAssignment, AssignNewRound, EndBlockFails
<1>4. CASE \E gap \in BlockGaps : NextBlock(now + gap)
  BY <1>4 DEF NextBlock
<1>5. CASE Stop
  BY <1>5 DEF Stop, vars
<1> QED
  BY <1>1, <1>2, <1>3, <1>4, <1>5 DEF Next

-----------------------------------------------------------------------------
(* Publishers. *)

\* The failure streak is counted from zero each time a publisher is verified, and the
\* first failure already takes VERIFIED away: with a threshold of two or more
\* finalizeAssignments revokes nobody.
NeverRevoked ==
    RevokeThreshold >= 2 =>
        \A d \in DOMAIN websites : websites[d].status = "REVOKED" =>
            d \in DOMAIN GenesisSites /\ GenesisSites[d].status = "REVOKED"

\* The status machine of a publisher: the inductive invariant behind
\* VerifiedIsClean and NeverRevoked.  The second needs the first.
SiteInv == TypeOK /\ VerifiedIsClean /\ NeverRevoked

\* A verified site of the genesis state is clean.
LEMMA SiteInvInit == Init => SiteInv
<1> SUFFICES ASSUME Init PROVE SiteInv
  OBVIOUS
<1>1. TypeOK
  BY InitType
<1>2. VerifiedIsClean /\ NeverRevoked
  BY GenesisAssumption DEF Init, VerifiedIsClean, NeverRevoked
<1> QED
  BY <1>1, <1>2 DEF SiteInv

\* The verdicts of finalizeAssignments: passing clears the streak and the
\* cooldown, failing leaves VERIFIED, and the first failure is below the threshold.
LEMMA FinalizeSite ==
  ASSUME SiteInv, NEW k \in DOMAIN assignments, FinalizeAssignment(k)
  PROVE  VerifiedIsClean' /\ NeverRevoked'
<1> DEFINE d == k[2]
<1>1. /\ d \in DOMAIN websites /\ d \in Domains /\ websites[d] \in Website
      /\ websites \in [DOMAIN websites -> Website] /\ DOMAIN websites \subseteq Domains
      /\ failureStreak \in [Domains -> Nat]
  BY DEF SiteInv, TypeOK, RoundTypeOK, SiteTypeOK
<1>2. CASE IgnoreStaleCandidate(k) \/ NoQuorum(k)
  BY <1>2, ZenonT(60) DEF IgnoreStaleCandidate, NoQuorum, SiteInv, VerifiedIsClean, NeverRevoked
<1>3. CASE AcceptCandidate(k)
  <2>1. websites' = [websites EXCEPT ![d] = Accepted(websites[d])]
    BY <1>3 DEF AcceptCandidate
  <2>2. failureStreak' = [failureStreak EXCEPT ![d] = 0]
    BY <1>3 DEF AcceptCandidate, StreakCleared
  <2> QED
    BY <1>1, <2>1, <2>2 DEF Accepted, SiteInv, VerifiedIsClean, NeverRevoked
<1>4. CASE RejectCandidate(k)
  <2>1. /\ websites' = [websites EXCEPT ![d] = [websites[d] EXCEPT !.pendingOwner = NoOwner]]
        /\ failureStreak' = failureStreak
    BY <1>1, <1>4 DEF RejectCandidate
  <2> QED
    BY <1>1, <2>1 DEF Website, SiteInv, VerifiedIsClean, NeverRevoked
<1>5. CASE ConfirmPublisher(k)
  <2>1. websites' = [websites EXCEPT ![d] = Confirmed(websites[d])]
    BY <1>5 DEF ConfirmPublisher
  <2>2. failureStreak' = [failureStreak EXCEPT ![d] = 0]
    BY <1>5 DEF ConfirmPublisher, StreakCleared
  <2>3. /\ Confirmed(websites[d]).status = "VERIFIED"
        /\ Confirmed(websites[d]).cooldownUntil = 0
        /\ Confirmed(websites[d]).cooldownCount = 0
    BY <1>1 DEF Confirmed, Website
  <2> QED
    BY <1>1, <2>1, <2>2, <2>3 DEF SiteInv, VerifiedIsClean, NeverRevoked
<1>6. CASE FailPublisher(k)
  <2> DEFINE streak == StreakAfterFailure(d)
             status == StatusAfterFailure(websites[d].status, streak)
  <2>1. websites[d].status \in Status
    BY <1>1 DEF Website
  <2>2. status # "VERIFIED"
    BY DEF StatusAfterFailure
  <2>3. RevokeThreshold >= 2 /\ status = "REVOKED" =>
            d \in DOMAIN GenesisSites /\ GenesisSites[d].status = "REVOKED"
    <3>1. websites[d].status = "VERIFIED" => streak = 1
      BY <1>1 DEF StreakAfterFailure, SiteInv, VerifiedIsClean
    <3>2. RevokeThreshold >= 2 /\ websites[d].status = "REVOKED" =>
              d \in DOMAIN GenesisSites /\ GenesisSites[d].status = "REVOKED"
      BY <1>1 DEF SiteInv, NeverRevoked
    <3> QED
      BY <3>1, <3>2, ParamsAssumption DEF StatusAfterFailure
  <2>4. /\ websites' \in [DOMAIN websites -> Website]
        /\ websites'[d].status = status
        /\ \A e \in DOMAIN websites : e # d => websites'[e] = websites[e]
    <3> DEFINE failed == [websites[d] EXCEPT !.status = status]
    <3>1. websites' = [websites EXCEPT ![d] =
                          IF ViolatedLeases(d) = {} THEN failed ELSE WithCooldown(failed)]
      BY <1>6 DEF FailPublisher
    <3>2. failed.status = status /\ WithCooldown(failed).status = status
      BY <1>1 DEF WithCooldown, Website
    <3>3. TypeOK' /\ DOMAIN websites' = DOMAIN websites
      BY <1>6, <3>1, FailPublisherType DEF SiteInv
    <3> QED
      BY <1>1, <3>1, <3>2, <3>3 DEF TypeOK, SiteTypeOK
  <2>5. \A e \in DOMAIN websites : e # d => failureStreak'[e] = failureStreak[e]
    BY <1>1, <1>6 DEF FailPublisher
  <2> QED
    BY <1>1, <2>2, <2>3, <2>4, <2>5 DEF SiteInv, VerifiedIsClean, NeverRevoked
<1> QED
  BY <1>2, <1>3, <1>4, <1>5, <1>6 DEF FinalizeAssignment

\* Every step keeps the status machine in order.
LEMMA SiteInvStep == SiteInv /\ [Next]_vars => SiteInv'
<1> SUFFICES ASSUME SiteInv, [Next]_vars PROVE SiteInv'
  OBVIOUS
<1>1. TypeOK'
  BY NextType DEF SiteInv
<1>2. CASE UNCHANGED siteVars
  BY <1>1, <1>2 DEF SiteInv, VerifiedIsClean, NeverRevoked, siteVars
<1>3. ASSUME NEW d \in Domains, NEW o \in Owners, RegisterWebsite(d, o)
      PROVE  SiteInv'
  BY <1>1, <1>3 DEF RegisterWebsite, Store, SiteInv, VerifiedIsClean, NeverRevoked
<1>4. ASSUME NEW d \in Domains, NEW o \in Owners, RequestReregistration(d, o)
      PROVE  SiteInv'
  <2>1. /\ websites' = [websites EXCEPT ![d].pendingOwner = o] /\ d \in DOMAIN websites
        /\ failureStreak' = failureStreak
    BY <1>4 DEF RequestReregistration
  <2>2. \A e \in DOMAIN websites : websites[e] \in Website
    BY DEF SiteInv, TypeOK, SiteTypeOK
  <2>3. /\ DOMAIN websites' = DOMAIN websites
        /\ \A e \in DOMAIN websites :
              /\ websites'[e].status = websites[e].status
              /\ websites'[e].cooldownUntil = websites[e].cooldownUntil
              /\ websites'[e].cooldownCount = websites[e].cooldownCount
    BY <2>1, <2>2 DEF Website, SiteInv, TypeOK, SiteTypeOK
  <2> QED
    BY <1>1, <2>1, <2>3 DEF SiteInv, VerifiedIsClean, NeverRevoked
<1>5. ASSUME NEW k \in DOMAIN assignments, FinalizeAssignment(k)
      PROVE  SiteInv'
  BY <1>1, <1>5, FinalizeSite DEF SiteInv
<1> QED
  BY <1>2, <1>3, <1>4, <1>5, SiteFrame

\* Whatever the interleaving of rounds, re-registrations and failures, a verified
\* publisher has no failure on record and no cooldown, and with a threshold of at
\* least two finalizeAssignments revokes nobody that the genesis state had not revoked.
THEOREM PublisherStatus == SafetySpec => [](VerifiedIsClean /\ NeverRevoked)
<1>1. SiteInv => VerifiedIsClean /\ NeverRevoked
  BY ZenonT(60) DEF SiteInv
<1> QED
  BY <1>1, SiteInvInit, SiteInvStep, PTL DEF SafetySpec

-----------------------------------------------------------------------------
(* Ownership. *)

\* What a verdict does to the owner of a website: only an accepted candidate
\* changes it.
LEMMA FinalizeOwner ==
  ASSUME TypeOK, NEW k \in DOMAIN assignments, FinalizeAssignment(k), NEW d \in DOMAIN websites
  PROVE  websites'[d].owner = IF AcceptCandidate(k) /\ d = k[2]
                              THEN websites[d].pendingOwner ELSE websites[d].owner
<1>1. /\ k[2] \in DOMAIN websites /\ websites[k[2]] \in Website /\ websites[d] \in Website
      /\ websites \in [DOMAIN websites -> Website]
  BY DEF TypeOK, RoundTypeOK, SiteTypeOK
<1>2. CASE IgnoreStaleCandidate(k) \/ NoQuorum(k)
  BY <1>2, Zenon DEF IgnoreStaleCandidate, NoQuorum, AcceptCandidate, MajorityPass
<1>3. CASE AcceptCandidate(k)
  <2>1. websites' = [websites EXCEPT ![k[2]] = Accepted(websites[k[2]])]
    BY <1>3 DEF AcceptCandidate
  <2> QED
    BY <1>1, <1>3, <2>1 DEF Accepted
<1>4. CASE RejectCandidate(k)
  <2>1. websites' = [websites EXCEPT ![k[2]] = [websites[k[2]] EXCEPT !.pendingOwner = NoOwner]]
    BY <1>1, <1>4 DEF RejectCandidate
  <2>2. ~AcceptCandidate(k)
    BY <1>4, Zenon DEF RejectCandidate, AcceptCandidate
  <2> QED
    BY <1>1, <2>1, <2>2 DEF Website
<1>5. CASE ConfirmPublisher(k)
  <2>1. websites' = [websites EXCEPT ![k[2]] = Confirmed(websites[k[2]])]
    BY <1>5 DEF ConfirmPublisher
  <2>2. ~AcceptCandidate(k)
    BY <1>5, Zenon DEF ConfirmPublisher, AcceptCandidate
  <2>3. Confirmed(websites[k[2]]).owner = websites[k[2]].owner
    BY <1>1 DEF Confirmed, Website
  <2> QED
    BY <1>1, <2>1, <2>2, <2>3
<1>6. CASE FailPublisher(k)
  <2> DEFINE failed == [websites[k[2]] EXCEPT !.status = StatusAfterFailure(@, StreakAfterFailure(k[2]))]
  <2>1. websites' = [websites EXCEPT ![k[2]] =
                        IF ViolatedLeases(k[2]) = {} THEN failed ELSE WithCooldown(failed)]
    BY <1>6 DEF FailPublisher
  <2>2. ~AcceptCandidate(k)
    BY <1>6, ZenonT(60) DEF FailPublisher, PublisherFails, AcceptCandidate
  <2>3. failed.owner = websites[k[2]].owner /\ WithCooldown(failed).owner = websites[k[2]].owner
    BY <1>1 DEF WithCooldown, Website
  <2> QED
    BY <1>1, <2>1, <2>2, <2>3
<1> QED
  BY <1>2, <1>3, <1>4, <1>5, <1>6 DEF FinalizeAssignment

\* A re-registration request and a new registration leave every owner in place.
LEMMA RegistrationOwner ==
  ASSUME TypeOK, NEW e \in Domains, NEW o \in Owners, NEW d \in DOMAIN websites,
         RegisterWebsite(e, o) \/ RequestReregistration(e, o)
  PROVE  d \in DOMAIN websites' /\ websites'[d].owner = websites[d].owner
<1>1. websites[d] \in Website /\ websites \in [DOMAIN websites -> Website]
  BY DEF TypeOK, SiteTypeOK
<1>2. CASE RegisterWebsite(e, o)
  BY <1>2 DEF RegisterWebsite, Store
<1>3. CASE RequestReregistration(e, o)
  BY <1>1, <1>3 DEF RequestReregistration, Website
<1> QED
  BY <1>2, <1>3

\* Ownership of a domain moves only when finalizeAssignments finds that a quorum of
\* the verifiers assigned to check this very candidate voted for it with a majority.
THEOREM OwnershipMovesByVote == SafetySpec => OwnerChangeVerified
<1> DEFINE Change == \A d \in DOMAIN websites :
              websites'[d].owner # websites[d].owner =>
                 \E k \in Due : /\ k[2] = d
                                /\ assignments[k].reregistration
                                /\ assignments[k].owner = websites'[d].owner
                                /\ MajorityPass(k)
<1>1. ASSUME TypeOK, [Next]_vars PROVE [Change]_vars
  <2>1. SUFFICES ASSUME NEW d \in DOMAIN websites, websites'[d].owner # websites[d].owner
                 PROVE  \E k \in Due : /\ k[2] = d
                                       /\ assignments[k].reregistration
                                       /\ assignments[k].owner = websites'[d].owner
                                       /\ MajorityPass(k)
    OBVIOUS
  <2>2. PICK k \in DOMAIN assignments : FinalizeAssignment(k)
    BY <1>1, <2>1, SiteFrame, RegistrationOwner DEF siteVars
  <2>3. AcceptCandidate(k) /\ k[2] = d /\ websites'[d].owner = websites[d].pendingOwner
    BY <1>1, <2>1, <2>2, FinalizeOwner
  <2>4. k \in Due
    BY <2>2 DEF FinalizeAssignment, FirstDue
  <2> QED
    BY <2>3, <2>4 DEF AcceptCandidate, CandidateMatches
<1>2. TypeOK /\ [Next]_vars => [Change]_vars
  BY <1>1
<1> HIDE DEF Change
<1>3. SafetySpec => [][Change]_vars
  BY <1>2, TypeCorrect, PTL DEF SafetySpec
<1> QED
  BY <1>3 DEF Change, OwnerChangeVerified

-----------------------------------------------------------------------------
(* The primary-domain index. *)

\* Every website is in the index that RegisterWebsite consults.
PrimaryInv == TypeOK /\ PrimaryUnique /\ \A d \in DOMAIN websites : PrimaryDomain[d] \in primaryIndex

\* Finalization rewrites records of registered domains and leaves the index alone.
LEMMA FinalizeDomains ==
  ASSUME TypeOK, NEW k \in DOMAIN assignments, FinalizeAssignment(k)
  PROVE  DOMAIN websites' = DOMAIN websites /\ primaryIndex' = primaryIndex
BY DEF FinalizeAssignment, IgnoreStaleCandidate, AcceptCandidate, RejectCandidate,
       ConfirmPublisher, FailPublisher, NoQuorum, Conclude, TypeOK, SiteTypeOK

\* Every step keeps the index complete.
LEMMA PrimaryInvStep == PrimaryInv /\ [Next]_vars => PrimaryInv'
<1> SUFFICES ASSUME PrimaryInv, [Next]_vars PROVE PrimaryInv'
  OBVIOUS
<1>1. TypeOK'
  BY NextType DEF PrimaryInv
<1>2. CASE DOMAIN websites' = DOMAIN websites /\ primaryIndex' = primaryIndex
  BY <1>1, <1>2 DEF PrimaryInv, PrimaryUnique
<1>3. ASSUME NEW d \in Domains, NEW o \in Owners, RegisterWebsite(d, o) PROVE PrimaryInv'
  <2>1. /\ DOMAIN websites' = DOMAIN websites \cup {d} /\ PrimaryDomain[d] \notin primaryIndex
        /\ primaryIndex' = primaryIndex \cup {PrimaryDomain[d]}
    BY <1>3 DEF RegisterWebsite, PrimaryFree, Store
  <2> QED
    BY <1>1, <2>1, ZenonT(60) DEF PrimaryInv, PrimaryUnique
<1>4. ASSUME NEW d \in Domains, NEW o \in Owners, RequestReregistration(d, o) PROVE PrimaryInv'
  BY <1>2, <1>4 DEF RequestReregistration, PrimaryInv, TypeOK, SiteTypeOK
<1>5. ASSUME NEW k \in DOMAIN assignments, FinalizeAssignment(k) PROVE PrimaryInv'
  BY <1>2, <1>5, FinalizeDomains DEF PrimaryInv
<1> QED
  BY <1>2, <1>3, <1>4, <1>5, SiteFrame DEF siteVars

\* On a chain whose genesis has no websites, the index admits one website per primary
\* domain.  The hypothesis is needed: InitGenesis does not fill the index.
THEOREM PrimariesUnique ==
  ASSUME DOMAIN GenesisSites = {}
  PROVE  SafetySpec => []PrimaryUnique
<1>1. Init => PrimaryInv
  BY InitType DEF Init, PrimaryInv, PrimaryUnique
<1>2. PrimaryInv => PrimaryUnique
  BY DEF PrimaryInv
<1> QED
  BY <1>1, <1>2, PrimaryInvStep, PTL DEF SafetySpec

-----------------------------------------------------------------------------
(* Slots and leases. *)

\* The slot market: slots follow ownership, escrow matches the leases, and leases
\* in force are disjoint.
MarketInv == TypeOK /\ SlotsFollowOwner /\ EscrowBacked /\ NoOverlappingLeases

\* There are no slots and no leases at genesis.
LEMMA MarketInvInit == Init => MarketInv
<1> SUFFICES ASSUME Init PROVE MarketInv
  OBVIOUS
<1>1. TypeOK
  BY InitType
<1>2. slots = << >> /\ leases = << >>
  BY DEF Init
<1> QED
  BY <1>1, <1>2 DEF MarketInv, SlotsFollowOwner, EscrowBacked, NoOverlappingLeases

\* transferSlotsForDomain and the owner of the website change together.
LEMMA SlotsFollowStep ==
  ASSUME TypeOK, SlotsFollowOwner, [Next]_vars
  PROVE  SlotsFollowOwner'
<1>0. /\ slots \in Seq(Slot)
      /\ \A s \in DOMAIN slots : slots[s] \in Slot /\ slots[s].domain \in DOMAIN websites
  BY DEF TypeOK, MarketTypeOK
<1>1. ASSUME NEW k \in DOMAIN assignments, FinalizeAssignment(k)
      PROVE  SlotsFollowOwner'
  <2>1. CASE AcceptCandidate(k)
    <3>1. slots' = TransferSlots(k[2], websites[k[2]].owner, websites[k[2]].pendingOwner)
      BY <2>1 DEF AcceptCandidate
    <3>2. ASSUME NEW s \in DOMAIN slots
          PROVE  slots'[s].publisher = websites'[slots'[s].domain].owner
      <4>1. websites'[slots[s].domain].owner
              = IF slots[s].domain = k[2] THEN websites[slots[s].domain].pendingOwner
                                          ELSE websites[slots[s].domain].owner
        BY <1>0, <1>1, <2>1, FinalizeOwner
      <4>2. slots[s].publisher = websites[slots[s].domain].owner /\ slots[s] \in Slot
        BY <1>0 DEF SlotsFollowOwner
      <4>3. /\ slots'[s].domain = slots[s].domain
            /\ slots'[s].publisher = IF slots[s].domain = k[2] THEN websites[k[2]].pendingOwner
                                                               ELSE slots[s].publisher
        BY <3>1, <4>2 DEF TransferSlots, Slot
      <4> QED
        BY <4>1, <4>2, <4>3, ZenonT(60)
    <3>3. DOMAIN slots' = DOMAIN slots
      BY <3>1 DEF TransferSlots
    <3> QED
      BY <3>2, <3>3, ZenonT(60) DEF SlotsFollowOwner
  <2>2. CASE ~AcceptCandidate(k)
    <3>1. slots' = slots
      BY <1>1, <2>2, ZenonT(60) DEF FinalizeAssignment, IgnoreStaleCandidate, RejectCandidate,
                        ConfirmPublisher, FailPublisher, NoQuorum, marketVars
    <3>2. \A s \in DOMAIN slots : websites'[slots[s].domain].owner = websites[slots[s].domain].owner
      BY <1>0, <1>1, <2>2, FinalizeOwner
    <3> QED
      BY <3>1, <3>2 DEF SlotsFollowOwner
  <2> QED
    BY <2>1, <2>2
<1>2. ASSUME NEW d \in Domains, NEW o \in Owners, RegisterWebsite(d, o) \/ RequestReregistration(d, o)
      PROVE  SlotsFollowOwner'
  <2>1. slots' = slots
    BY <1>2 DEF RegisterWebsite, RequestReregistration, marketVars
  <2> QED
    BY <1>0, <1>2, <2>1, RegistrationOwner DEF SlotsFollowOwner
<1>3. ASSUME NEW d \in Domains, NEW o \in Owners, CreateSlot(d, o)
      PROVE  SlotsFollowOwner'
  <2>1. /\ slots' = Append(slots, [publisher |-> o, domain |-> d, status |-> "PAUSED"])
        /\ websites' = websites /\ websites[d].owner = o
    BY <1>3 DEF CreateSlot, siteVars
  <2> QED
    BY <1>0, <2>1 DEF SlotsFollowOwner
<1>4. ASSUME NEW s \in DOMAIN slots, NEW o \in Owners, NEW status \in SlotStatus,
             UpdateSlotStatus(s, o, status)
      PROVE  SlotsFollowOwner'
  <2>1. slots' = [slots EXCEPT ![s].status = status] /\ websites' = websites
    BY <1>4 DEF UpdateSlotStatus, siteVars
  <2>2. /\ DOMAIN slots' = DOMAIN slots
        /\ \A t \in DOMAIN slots : slots'[t].publisher = slots[t].publisher
                                   /\ slots'[t].domain = slots[t].domain
    BY <1>0, <2>1 DEF Slot
  <2> QED
    BY <2>1, <2>2 DEF SlotsFollowOwner
<1>5. CASE UNCHANGED <<slots, websites>>
  BY <1>5, ZenonT(60) DEF SlotsFollowOwner
<1>6. CASE \E s \in DOMAIN slots, lessee \in Lessees, lead \in LeaseLeads, duration \in LeaseDurations :
              LeaseSlot(s, lessee, now + lead, duration)
  BY <1>6, <1>5 DEF LeaseSlot, siteVars
<1>7. CASE \E i \in DOMAIN leases : SettleLease(i)
  BY <1>7, <1>5 DEF SettleLease, siteVars
<1> QED
  BY <1>1, <1>2, <1>3, <1>4, <1>5, <1>6, <1>7, SiteFrame, MarketFrame, ZenonT(60) DEF siteVars, marketVars

\* Lease i is unchanged, or payoutLease or refundLease has closed it.
Untouched(i) == leases'[i] = leases[i] /\ escrow'[i] = escrow[i]
ClosedNow(i) ==
    /\ leases'[i].status \in {"COMPLETED", "VIOLATED"} /\ leases'[i].remaining = 0
    /\ leases'[i].slot = leases[i].slot
    /\ leases'[i].starts = leases[i].starts /\ leases'[i].ends = leases[i].ends
    /\ escrow'[i] = escrow[i] - leases[i].remaining

\* A closed record keeps its slot and its interval.
LEMMA ClosedRecord ==
  ASSUME NEW l \in Lease, NEW status \in {"COMPLETED", "VIOLATED"}
  PROVE  /\ Closed(l, status).status = status /\ Closed(l, status).remaining = 0
         /\ Closed(l, status).slot = l.slot
         /\ Closed(l, status).starts = l.starts /\ Closed(l, status).ends = l.ends
BY DEF Closed, Lease

\* Apart from LeaseSlot, a step only closes leases.
LEMMA LeaseEffect ==
  ASSUME TypeOK, [Next]_vars,
         ~ \E s \in DOMAIN slots, lessee \in Lessees, lead \in LeaseLeads, duration \in LeaseDurations :
               LeaseSlot(s, lessee, now + lead, duration)
  PROVE  /\ DOMAIN leases' = DOMAIN leases
         /\ \A i \in DOMAIN leases : Untouched(i) \/ ClosedNow(i)
<1>0. /\ leases \in Seq(Lease) /\ escrow \in [DOMAIN leases -> Nat]
      /\ \A i \in DOMAIN leases : leases[i] \in Lease
  BY SeqElements, ZenonT(60) DEF TypeOK, MarketTypeOK
<1>1. CASE UNCHANGED <<leases, escrow>>
  BY <1>1, ZenonT(60) DEF Untouched
<1>2. ASSUME NEW k \in DOMAIN assignments, FinalizeAssignment(k)
      PROVE  /\ DOMAIN leases' = DOMAIN leases
             /\ \A i \in DOMAIN leases : Untouched(i) \/ ClosedNow(i)
  <2>1. CASE FailPublisher(k)
    <3>1. Refund(ViolatedLeases(k[2]))
      BY <2>1 DEF FailPublisher
    <3>2. ASSUME NEW i \in DOMAIN leases PROVE Untouched(i) \/ ClosedNow(i)
      <4>1. CASE i \in ViolatedLeases(k[2])
        <5>1. leases'[i] = Closed(leases[i], "VIOLATED") /\ escrow'[i] = escrow[i] - leases[i].remaining
          BY <1>0, <3>1, <4>1, ZenonT(60) DEF Refund
        <5> QED
          BY <1>0, <5>1, ClosedRecord, SMTT(60) DEF ClosedNow
      <4>2. CASE i \notin ViolatedLeases(k[2])
        BY <1>0, <3>1, <4>2 DEF Refund, Untouched
      <4> QED
        BY <4>1, <4>2, ZenonT(60)
    <3> QED
      BY <3>1, <3>2 DEF Refund
  <2>2. CASE ~FailPublisher(k)
    BY <1>1, <1>2, <2>2, ZenonT(60) DEF FinalizeAssignment, IgnoreStaleCandidate, RejectCandidate,
                      AcceptCandidate, ConfirmPublisher, NoQuorum, marketVars
  <2> QED
    BY <2>1, <2>2, ZenonT(60)
<1>3. ASSUME NEW j \in DOMAIN leases, SettleLease(j)
      PROVE  /\ DOMAIN leases' = DOMAIN leases
             /\ \A i \in DOMAIN leases : Untouched(i) \/ ClosedNow(i)
  <2>1. /\ leases' = [leases EXCEPT ![j] = Closed(leases[j], LeaseOutcome(j))]
        /\ escrow' = [escrow EXCEPT ![j] = escrow[j] - leases[j].remaining]
    BY <1>0, <1>3 DEF SettleLease
  <2>2. LeaseOutcome(j) \in {"COMPLETED", "VIOLATED"}
    BY DEF LeaseOutcome
  <2>3. ClosedNow(j)
    BY <1>0, <2>1, <2>2, ClosedRecord DEF ClosedNow
  <2>4. \A i \in DOMAIN leases : i # j => Untouched(i)
    BY <1>0, <2>1, ZenonT(60) DEF Untouched
  <2> QED
    BY <2>1, <2>3, <2>4
<1>4. CASE \E d \in Domains, o \in Owners : CreateSlot(d, o)
  BY <1>1, <1>4 DEF CreateSlot
<1>5. CASE \E s \in DOMAIN slots, o \in Owners, status \in SlotStatus : UpdateSlotStatus(s, o, status)
  BY <1>1, <1>5, ZenonT(60) DEF UpdateSlotStatus
<1> QED
  BY <1>1, <1>2, <1>3, <1>4, <1>5, MarketFrame, ZenonT(60) DEF marketVars

\* The number that LeaseSlot gives to a new lease.
NewLease == Len(leases) + 1

\* What LeaseSlot appends: a lease paid in full.
LEMMA LeaseSlotEffect ==
  ASSUME TypeOK, NEW s \in DOMAIN slots, NEW lessee \in Lessees, NEW starts \in Nat,
         NEW duration \in Nat, LeaseSlot(s, lessee, starts, duration)
  PROVE  /\ DOMAIN leases' = DOMAIN leases \cup {NewLease}
         /\ \A i \in DOMAIN leases : Untouched(i)
         /\ leases'[NewLease].slot = s /\ leases'[NewLease].status = "ACTIVE"
         /\ leases'[NewLease].starts = starts
         /\ leases'[NewLease].ends = starts + duration
         /\ leases'[NewLease].remaining = duration
         /\ escrow'[NewLease] = duration
<1>1. slots \in Seq(Slot) /\ leases \in Seq(Lease) /\ escrow \in [DOMAIN leases -> Nat]
  BY DEF TypeOK, MarketTypeOK
<1>2. escrow \in Seq(Nat) /\ Len(escrow) = Len(leases) /\ DOMAIN escrow = DOMAIN leases
  BY <1>1, MappedSeq
<1>3. slots[s] \in Slot /\ s \in Nat
  BY <1>1, SeqElements, ZenonT(60)
<1> DEFINE new == [slot |-> s, publisher |-> slots[s].publisher, lessee |-> lessee,
                   starts |-> starts, ends |-> starts + duration,
                   remaining |-> duration, status |-> "ACTIVE"]
<1>4. leases' = Append(leases, new) /\ escrow' = Append(escrow, duration)
  BY DEF LeaseSlot
<1>5. /\ new.slot = s /\ new.status = "ACTIVE" /\ new.remaining = duration
      /\ new.starts = starts /\ new.ends = starts + duration
  BY ZenonT(60)
<1>6. new \in Lease
  <2>1. slots[s].publisher \in Owners /\ starts + duration \in Nat /\ "ACTIVE" \in LeaseStatus
    BY <1>3 DEF Slot, LeaseStatus
  <2> QED
    BY <1>3, <2>1, LeaseRecord, ZenonT(60)
<1> HIDE DEF new
<1>7. /\ DOMAIN leases' = DOMAIN leases \cup {NewLease} /\ leases'[NewLease] = new
      /\ \A i \in DOMAIN leases : leases'[i] = leases[i]
  BY <1>1, <1>4, <1>6, AppendEffect, SMTT(60) DEF NewLease
<1>8. escrow'[NewLease] = duration /\ \A i \in DOMAIN escrow : escrow'[i] = escrow[i]
  BY <1>2, <1>4, AppendEffect DEF NewLease
<1> QED
  BY <1>2, <1>5, <1>7, <1>8, ZenonT(60) DEF Untouched

\* The start that a LeaseSlot message asks for.
LEMMA LeaseStartType ==
  ASSUME TypeOK, NEW lead \in LeaseLeads, NEW duration \in LeaseDurations
  PROVE  now + lead \in Nat /\ duration \in Nat
BY ParamsAssumption, SMTT(60) DEF TypeOK, ClockTypeOK

\* Escrow and the lease records change together.
LEMMA EscrowStep ==
  ASSUME TypeOK, EscrowBacked, [Next]_vars
  PROVE  EscrowBacked'
<1>0. \A i \in DOMAIN leases : leases[i] \in Lease /\ escrow[i] \in Nat /\ escrow[i] = leases[i].remaining
  BY SeqElements DEF TypeOK, MarketTypeOK, EscrowBacked
<1>1. ASSUME NEW i \in DOMAIN leases, Untouched(i) \/ ClosedNow(i)
      PROVE  /\ escrow'[i] = leases'[i].remaining
             /\ escrow'[i] = IF leases'[i].status = "ACTIVE" THEN leases'[i].ends - leases'[i].starts ELSE 0
  <2>1. CASE Untouched(i)
    BY <2>1 DEF Untouched, EscrowBacked
  <2>2. CASE ClosedNow(i)
    BY <1>0, <2>2, SMTT(60) DEF ClosedNow
  <2> QED
    BY <1>1, <2>1, <2>2, ZenonT(60)
<1>2. ASSUME NEW s \in DOMAIN slots, NEW lessee \in Lessees, NEW starts \in Nat,
             NEW duration \in Nat, LeaseSlot(s, lessee, starts, duration)
      PROVE  EscrowBacked'
  <2> DEFINE new == NewLease
  <2>1. /\ DOMAIN leases' = DOMAIN leases \cup {new}
        /\ \A i \in DOMAIN leases : Untouched(i)
        /\ leases'[new].slot = s /\ leases'[new].status = "ACTIVE"
        /\ leases'[new].starts = starts
        /\ leases'[new].ends = starts + duration
        /\ leases'[new].remaining = duration
        /\ escrow'[new] = duration
    BY <1>2, LeaseSlotEffect, ZenonT(60)
  <2>2. (starts + duration) - starts = duration
    OBVIOUS
  <2>3. leases'[new].ends - leases'[new].starts = duration
    BY <2>1, <2>2
  <2> QED
    BY <1>1, <2>1, <2>3, ZenonT(60) DEF EscrowBacked
<1>3. CASE \E s \in DOMAIN slots, lessee \in Lessees, lead \in LeaseLeads,
              duration \in LeaseDurations : LeaseSlot(s, lessee, now + lead, duration)
  BY <1>2, <1>3, LeaseStartType
<1> QED
  BY <1>1, <1>3, LeaseEffect, ZenonT(60) DEF EscrowBacked

\* LeaseSlot refuses what would overlap, and closing a lease frees its interval.
LEMMA OverlapStep ==
  ASSUME TypeOK, NoOverlappingLeases, [Next]_vars
  PROVE  NoOverlappingLeases'
<1> DEFINE Disjoint(l, m) == l.ends <= m.starts \/ m.ends <= l.starts
<1>0. \A i, j \in DOMAIN leases :
         /\ leases[i].status = "ACTIVE" /\ leases[j].status = "ACTIVE" /\ i # j
         /\ leases[i].slot = leases[j].slot
         => Disjoint(leases[i], leases[j])
  BY DEF NoOverlappingLeases
<1>1. SUFFICES ASSUME NEW i \in DOMAIN leases', NEW j \in DOMAIN leases', i # j,
                      leases'[i].status = "ACTIVE", leases'[j].status = "ACTIVE",
                      leases'[i].slot = leases'[j].slot
               PROVE  Disjoint(leases'[i], leases'[j])
  BY DEF NoOverlappingLeases
<1>2. ASSUME NEW n \in DOMAIN leases, Untouched(n) \/ ClosedNow(n), leases'[n].status = "ACTIVE"
      PROVE  leases'[n] = leases[n]
  BY <1>2, ZenonT(60) DEF Untouched, ClosedNow
<1>3. \A n \in DOMAIN leases : leases[n] \in Lease
  BY SeqElements, ZenonT(60) DEF TypeOK, MarketTypeOK
<1>4. ASSUME NEW s \in DOMAIN slots, NEW lessee \in Lessees, NEW starts \in Nat,
             NEW duration \in Nat, LeaseSlot(s, lessee, starts, duration)
      PROVE  Disjoint(leases'[i], leases'[j])
  <2> DEFINE new == NewLease
  <2>1. /\ DOMAIN leases' = DOMAIN leases \cup {new}
        /\ \A n \in DOMAIN leases : leases'[n] = leases[n]
        /\ leases'[new].slot = s
        /\ leases'[new].starts = starts /\ leases'[new].ends = starts + duration
    BY <1>4, LeaseSlotEffect, ZenonT(60) DEF Untouched
  <2>2. ASSUME NEW n \in DOMAIN leases, leases[n].slot = s, leases[n].status = "ACTIVE"
        PROVE  leases[n].ends <= starts \/ starts + duration <= leases[n].starts
    <3>1. ~Overlap(starts, starts + duration, leases[n])
      BY <1>4, <2>2, ZenonT(60) DEF LeaseSlot
    <3>2. leases[n].starts \in Nat /\ leases[n].ends \in Nat
      BY <1>3, ZenonT(60) DEF Lease
    <3> QED
      BY <3>1, <3>2 DEF Overlap
  <2>3. CASE i \in DOMAIN leases /\ j \in DOMAIN leases
    BY <1>0, <1>1, <2>1, <2>3, ZenonT(60)
  <2>4. CASE i = new /\ j \in DOMAIN leases
    BY <1>1, <2>1, <2>2, <2>4, ZenonT(60)
  <2>5. CASE j = new /\ i \in DOMAIN leases
    BY <1>1, <2>1, <2>2, <2>5, ZenonT(60)
  <2> QED
    BY <1>1, <2>1, <2>3, <2>4, <2>5, ZenonT(60)
<1>5. CASE \E s \in DOMAIN slots, lessee \in Lessees, lead \in LeaseLeads,
              duration \in LeaseDurations : LeaseSlot(s, lessee, now + lead, duration)
  BY <1>4, <1>5, LeaseStartType, ZenonT(60)
<1>6. CASE ~ \E s \in DOMAIN slots, lessee \in Lessees, lead \in LeaseLeads,
                duration \in LeaseDurations : LeaseSlot(s, lessee, now + lead, duration)
  <2>1. i \in DOMAIN leases /\ j \in DOMAIN leases /\ leases'[i] = leases[i] /\ leases'[j] = leases[j]
    BY <1>1, <1>2, <1>6, LeaseEffect, ZenonT(60)
  <2> QED
    BY <1>0, <1>1, <2>1, ZenonT(60)
<1> QED
  BY <1>5, <1>6

\* Every step keeps the market in order.
LEMMA MarketInvStep == MarketInv /\ [Next]_vars => MarketInv'
BY NextType, SlotsFollowStep, EscrowStep, OverlapStep DEF MarketInv

\* The slot market is safe for any number of slots and leases: slots belong to the
\* owner of their domain, the module account holds exactly the price of the leases
\* in force, and two leases of a slot never share a second.
THEOREM MarketSafe == SafetySpec => [](SlotsFollowOwner /\ EscrowBacked /\ NoOverlappingLeases)
<1>1. MarketInv => SlotsFollowOwner /\ EscrowBacked /\ NoOverlappingLeases
  BY DEF MarketInv
<1> QED
  BY <1>1, MarketInvInit, MarketInvStep, PTL DEF SafetySpec

\* A publisher that loses VERIFIED keeps no running lease: finalizeAssignments
\* refunds all of them in the same step, the previous owner's included.
THEOREM FailureBreaksLeases == SafetySpec => FailureClosesLeases
<1> DEFINE Breaks == \A d \in DOMAIN websites :
              websites[d].status = "VERIFIED" /\ websites'[d].status # "VERIFIED" =>
                 \A i \in DOMAIN leases' :
                    slots[leases[i].slot].domain = d /\ leases'[i].status = "ACTIVE"
                       => leases[i].starts > now \/ leases[i].ends < now
<1>1. ASSUME SiteInv, [Next]_vars PROVE [Breaks]_vars
  <2>1. SUFFICES ASSUME NEW d \in DOMAIN websites, websites[d].status = "VERIFIED",
                        websites'[d].status # "VERIFIED", NEW i \in DOMAIN leases',
                        slots[leases[i].slot].domain = d, leases'[i].status = "ACTIVE"
                 PROVE  leases[i].starts > now \/ leases[i].ends < now
    OBVIOUS
  <2>2. /\ \A e \in DOMAIN websites : websites[e] \in Website
        /\ websites \in [DOMAIN websites -> Website] /\ now \in Nat
        /\ \A j \in DOMAIN leases : leases[j] \in Lease
    BY <1>1, SMTT(60) DEF SiteInv, TypeOK, SiteTypeOK, ClockTypeOK, MarketTypeOK
  <2>3. PICK k \in DOMAIN assignments : FinalizeAssignment(k)
    <3>1. ASSUME NEW e \in Domains, NEW o \in Owners, RegisterWebsite(e, o)
          PROVE  websites'[d].status = websites[d].status
      BY <3>1 DEF RegisterWebsite, Store
    <3>2. ASSUME NEW e \in Domains, NEW o \in Owners, RequestReregistration(e, o)
          PROVE  websites'[d].status = websites[d].status
      BY <2>2, <3>2 DEF RequestReregistration, Website
    <3> QED
      BY <1>1, <2>1, <3>1, <3>2, SiteFrame, ZenonT(60) DEF siteVars
  <2>4. k[2] \in DOMAIN websites
    BY <1>1, ZenonT(60) DEF SiteInv, TypeOK, RoundTypeOK
  <2>5. FailPublisher(k) /\ d = k[2]
    <3>1. CASE IgnoreStaleCandidate(k) \/ NoQuorum(k)
      BY <2>1, <3>1, ZenonT(60) DEF IgnoreStaleCandidate, NoQuorum
    <3>2. CASE AcceptCandidate(k)
      BY <2>1, <2>2, <2>4, <3>2 DEF AcceptCandidate, Accepted
    <3>3. CASE RejectCandidate(k)
      BY <2>1, <2>2, <2>4, <3>3, ZenonT(60) DEF RejectCandidate, Website
    <3>4. CASE ConfirmPublisher(k)
      BY <2>1, <2>2, <2>4, <3>4, ZenonT(60) DEF ConfirmPublisher, Confirmed, Website
    <3>5. CASE FailPublisher(k)
      BY <2>1, <2>2, <2>4, <3>5, ZenonT(60) DEF FailPublisher
    <3> QED
      BY <2>3, <3>1, <3>2, <3>3, <3>4, <3>5, ZenonT(60) DEF FinalizeAssignment
  <2>6. ~InCooldown(websites[d])
    BY <1>1, <2>1, <2>2 DEF SiteInv, VerifiedIsClean, InCooldown
  <2>7. Refund(RunningLeases(d))
    BY <2>5, <2>6 DEF FailPublisher, ViolatedLeases
  <2>8. i \in DOMAIN leases /\ i \notin RunningLeases(d) /\ leases'[i] = leases[i]
    <3>1. \A j \in DOMAIN leases : Closed(leases[j], "VIOLATED").status # "ACTIVE"
      BY <2>2, ClosedRecord, ZenonT(60)
    <3> QED
      BY <2>1, <2>7, <3>1, Zenon DEF Refund
  <2>9. leases[i].starts \in Nat /\ leases[i].ends \in Nat /\ leases[i].status = "ACTIVE"
    BY <2>1, <2>2, <2>8, ZenonT(60) DEF Lease
  <2> QED
    BY <2>1, <2>2, <2>8, <2>9, SMTT(60) DEF RunningLeases
<1>2. SiteInv /\ [Next]_vars => [Breaks]_vars
  BY <1>1, ZenonT(60)
<1>3. SafetySpec => [][Breaks]_vars
  BY <1>2, SiteInvInit, SiteInvStep, PTL DEF SafetySpec
<1> QED
  BY <1>3, ZenonT(60) DEF FailureClosesLeases
=============================================================================
