------------------------------ MODULE Registry ------------------------------
(***************************************************************************)
(* The x/registry module composed with the block cycle of the chain.       *)
(*                                                                         *)
(* A block executes transactions in any order, each of them atomically     *)
(* (phase "txs"), and then EndBlock: finalizeAssignments,                  *)
(* settleFinalizedVerificationRounds, settleLeases and assignNewRound.     *)
(* Each of the first three is a loop over a store; one iteration is one    *)
(* step, in the order of the store's keys.  Once EndBlock has begun it     *)
(* runs to its end: no transaction is enabled before the next block.       *)
(* An error returned by EndBlock halts the chain.                          *)
(***************************************************************************)
EXTENDS RoundRewards

Init ==
    /\ BondInit
    /\ now = GenesisTime
    /\ phase = "txs"
    /\ websites = GenesisSites
    /\ primaryIndex = {}
    /\ failureStreak = [d \in Domains |-> 0]
    /\ assignments = EmptyStore
    /\ roundMeta = EmptyStore
    /\ lastRoundStart = 0
    /\ beacons = {}
    /\ commits = EmptyStore
    /\ submissions = EmptyStore
    /\ penalties = [v \in Verifiers |-> NoPenalty]
    /\ unsettled = {}
    /\ pool = FundedRounds
    /\ payments = {}
    /\ slots = << >>
    /\ leases = << >>
    /\ escrow = << >>

-----------------------------------------------------------------------------
(* The block cycle. *)

\* What makes EndBlock return an error.
EndBlockError == FinalizeFails \/ RewardsFail \/ LeasesFail \/ AssignFails

EndBlockFails ==
    /\ EndBlockError
    /\ phase' = "halted"
    /\ UNCHANGED <<now, siteVars, roundVars, ballotVars, penalties, rewardVars,
                   marketVars, bondVars>>

NextBlock(t) ==
    /\ phase = "committed"
    /\ t <= MaxTime
    /\ now' = t
    /\ phase' = "txs"
    /\ UNCHANGED <<siteVars, roundVars, ballotVars, penalties, rewardVars,
                   marketVars, bondVars>>

\* The end of the modelled time, or a chain that has halted.
Stop ==
    /\ phase = "halted" \/ (phase = "committed" /\ \A gap \in BlockGaps : now + gap > MaxTime)
    /\ UNCHANGED vars

BondTx ==
    /\ phase = "txs"
    /\ BondNext
    /\ UNCHANGED <<now, phase, siteVars, roundVars, ballotVars, penalties, rewardVars,
                   marketVars>>

Transaction ==
    \/ \E d \in Domains, o \in Owners :
          \/ RegisterWebsite(d, o)
          \/ RequestReregistration(d, o)
          \/ CreateSlot(d, o)
    \/ \E k \in DOMAIN assignments, v \in Verifiers, passed \in BOOLEAN :
          \/ SubmitVerificationCommit(k, v, passed)
          \/ RevealVerification(k, v, passed)
    \/ SubmitDrandBeacon(RequiredDrandRound(NextRoundStart(now)))
    \/ \E s \in DOMAIN slots :
          \/ \E o \in Owners, status \in SlotStatus : UpdateSlotStatus(s, o, status)
          \/ \E lessee \in Lessees, lead \in LeaseLeads, duration \in LeaseDurations :
                LeaseSlot(s, lessee, now + lead, duration)
    \/ BondTx

EndBlock ==
    \/ BeginEndBlock
    \/ \E k \in DOMAIN assignments : FinalizeAssignment(k)
    \/ EndFinalize
    \/ \E r \in unsettled : SettleRound(r)
    \/ EndRewards
    \/ \E i \in DOMAIN leases : SettleLease(i)
    \/ EndLeases
    \/ SkipAssignment
    \/ \E offsets \in [RoundPublishers(NextRoundStart(now)) -> 0..(DelayMax - 1)],
          selected \in [RoundPublishers(NextRoundStart(now)) -> Selections] :
             AssignNewRound(offsets, selected)
    \/ EndBlockFails

Next ==
    \/ Transaction
    \/ EndBlock
    \/ \E gap \in BlockGaps : NextBlock(now + gap)
    \/ Stop

\* Blocks keep coming: the chain's consensus runs EndBlock of every block and
\* produces the next one.  No transaction is ever forced.
Fairness == WF_vars(EndBlock) /\ WF_vars(\E gap \in BlockGaps : NextBlock(now + gap))

SafetySpec == Init /\ [][Next]_vars
Spec == SafetySpec /\ Fairness

-----------------------------------------------------------------------------
(* Safety. *)

ClockTypeOK == now \in Nat /\ phase \in Phases

SiteTypeOK ==
    /\ DOMAIN websites \subseteq Domains
    /\ websites \in [DOMAIN websites -> Website]
    /\ primaryIndex \subseteq {PrimaryDomain[d] : d \in Domains}
    /\ failureStreak \in [Domains -> Nat]

RoundTypeOK ==
    /\ DOMAIN assignments \subseteq Nat \X (DOMAIN websites)
    /\ assignments \in [DOMAIN assignments -> Assignment]
    /\ DOMAIN roundMeta \subseteq Nat
    /\ roundMeta \in [DOMAIN roundMeta -> RoundMeta]
    /\ lastRoundStart \in Nat
    /\ beacons \subseteq Int

BallotTypeOK ==
    /\ DOMAIN commits \subseteq (DOMAIN assignments) \X Verifiers
    /\ commits \in [DOMAIN commits -> BOOLEAN]
    /\ DOMAIN submissions \subseteq (DOMAIN assignments) \X Verifiers
    /\ submissions \in [DOMAIN submissions -> BOOLEAN]
    /\ penalties \in [Verifiers -> Penalty]

RewardTypeOK ==
    /\ unsettled \subseteq Nat
    /\ pool \in Nat
    /\ payments \subseteq [key : Keys, owner : Owners, verifiers : SUBSET Verifiers, at : Nat]

MarketTypeOK ==
    /\ slots \in Seq(Slot)
    /\ \A s \in DOMAIN slots : slots[s].domain \in DOMAIN websites
    /\ leases \in Seq(Lease)
    /\ \A i \in DOMAIN leases : leases[i].slot \in DOMAIN slots
    /\ escrow \in [DOMAIN leases -> Nat]

\* The types of all stores, and that stored references resolve: an assignment has
\* its website, a vote its assignment, a slot its website, a lease its slot.
TypeOK == /\ BondTypeOK /\ ClockTypeOK /\ SiteTypeOK /\ RoundTypeOK
          /\ BallotTypeOK /\ RewardTypeOK /\ MarketTypeOK

\* A verified publisher carries no failure and no cooldown: whatever interleaving
\* of rounds, re-registrations and failures led there, every path into VERIFIED
\* clears both.  The cooldown checks of CreateSlot and LeaseSlot never decide.
VerifiedIsClean ==
    \A d \in DOMAIN websites :
        websites[d].status = "VERIFIED" =>
            failureStreak[d] = 0 /\ websites[d].cooldownUntil = 0 /\ websites[d].cooldownCount = 0

\* The verdict stored by finalizeAssignments is what the stored reveals say, for
\* ever: at least half of the assigned verifiers voted and more than half of
\* these voted yes.  No vote is added, lost or changed after the count.
VerdictJustified ==
    \A k \in DOMAIN assignments :
        LET votes == {v \in assignments[k].verifiers : <<k, v>> \in DOMAIN submissions}
            yes == {v \in votes : submissions[<<k, v>>]}
            passed == /\ 2 * Cardinality(votes) >= Cardinality(assignments[k].verifiers)
                      /\ 2 * Cardinality(yes) > Cardinality(votes)
        IN  /\ assignments[k].verified => assignments[k].finalized /\ passed
            /\ assignments[k].finalized /\ ~assignments[k].reregistration
                  => (assignments[k].verified <=> passed)

\* Rounds of one domain may overlap in time, and a stalled chain makes several of
\* them due in one block, yet finalizeAssignments applies their verdicts in the
\* order of the rounds: an offset is shorter than the interval, so that the
\* deadlines of one domain are ordered as its rounds are.
FinalizedInRoundOrder ==
    \A j, k \in DOMAIN assignments :
        j[2] = k[2] /\ j[1] < k[1] /\ assignments[k].finalized => assignments[j].finalized

\* A draw by assignNewRound can be audited afterwards: the round's metadata and
\* the one required beacon are stored, the draw was made before the round began,
\* and the verifiers were taken from those recorded as eligible, as many as
\* there are but not more than MinVerifierCount.
AuditableDraw ==
    \A k \in DOMAIN assignments :
        /\ k[1] \in DOMAIN roundMeta
        /\ LET meta == roundMeta[k[1]]
               n == Cardinality(meta.eligible)
           IN  /\ meta.createdAt < k[1] /\ k[1] <= assignments[k].startAt
               /\ assignments[k].verifiers \subseteq meta.eligible
               /\ Cardinality(assignments[k].verifiers)
                    = IF n < MinVerifierCount THEN n ELSE MinVerifierCount
        /\ DrandEnabled => RequiredDrandRound(k[1]) \in beacons

\* settleFinalizedVerificationRounds pays a round once and completely: of a round
\* that it has dropped from its list, every verified assignment has exactly one
\* payment, to its domain and to the verifiers that voted yes; no other
\* assignment has any.
PaidOnce ==
    /\ \A p \in payments :
          /\ assignments[p.key].verified /\ p.key[1] \notin unsettled
          /\ p.verifiers = {v \in Verifiers : <<p.key, v>> \in DOMAIN submissions
                                                 /\ submissions[<<p.key, v>>]}
          /\ \A q \in payments : p.key = q.key => p = q
    /\ \A k \in DOMAIN assignments :
          assignments[k].verified /\ k[1] \notin unsettled => \E p \in payments : p.key = k

\* Of all errors that EndBlock can return, and that stop the chain, only the
\* exhaustion of the emission pool is reachable: rounds are never partially
\* settled, every lease refers to a slot and a website, and escrow suffices.
OnlyExhaustionHalts == phase = "halted" => pool = 0

\* The slots of a domain belong to its current owner, also after
\* transferSlotsForDomain has moved them any number of times.
SlotsFollowOwner ==
    \A s \in DOMAIN slots : slots[s].publisher = websites[slots[s].domain].owner

\* Two leases of one slot that are both in force never share a second, however
\* far ahead LeaseSlot has booked them.
NoOverlappingLeases ==
    LET active == {i \in DOMAIN leases : leases[i].status = "ACTIVE"}
    IN  \A i, j \in active :
            i # j /\ leases[i].slot = leases[j].slot =>
                leases[i].ends <= leases[j].starts \/ leases[j].ends <= leases[i].starts

\* The module account holds the full price of every lease in force and nothing
\* for the others: payoutLease and refundLease never close a lease twice.
EscrowBacked ==
    \A i \in DOMAIN leases :
        /\ escrow[i] = leases[i].remaining
        /\ escrow[i] = IF leases[i].status = "ACTIVE" THEN leases[i].ends - leases[i].starts ELSE 0

\* The primary-domain index of RegisterWebsite admits one website per primary
\* domain.
PrimaryUnique ==
    \A d, e \in DOMAIN websites : d # e => PrimaryDomain[d] # PrimaryDomain[e]

-----------------------------------------------------------------------------
(* What a step may never do. *)

\* SubmitVerificationCommit and RevealVerification: nobody can commit on an
\* assignment once a vote on it has been revealed.
CommitsPrecedeReveals ==
    [][\A k \in DOMAIN assignments :
          Submitters(k) # {} =>
             \A v \in Verifiers : <<k, v>> \in DOMAIN commits' => <<k, v>> \in DOMAIN commits]_vars

\* Ownership moves only in finalizeAssignments, and only to a candidate for whom
\* a quorum of the verifiers that were assigned to check this very candidate
\* voted with a majority.
OwnerChangeVerified ==
    [][\A d \in DOMAIN websites :
          websites'[d].owner # websites[d].owner =>
             \E k \in Due : /\ k[2] = d
                            /\ assignments[k].reregistration
                            /\ assignments[k].owner = websites'[d].owner
                            /\ MajorityPass(k)]_vars

\* A publisher that loses its verification has no running lease left: the step
\* of finalizeAssignments that takes it away refunds all of them, also those
\* leased from a previous owner of the domain.
FailureClosesLeases ==
    [][\A d \in DOMAIN websites :
          websites[d].status = "VERIFIED" /\ websites'[d].status # "VERIFIED" =>
             \A i \in DOMAIN leases' :
                slots[leases[i].slot].domain = d /\ leases'[i].status = "ACTIVE"
                   => leases[i].starts > now \/ leases[i].ends < now]_vars

-----------------------------------------------------------------------------
(* Liveness. *)

\* The modelled time is long enough for a block at or after t.
WithinHorizon(t) == \A gap \in BlockGaps : t + gap <= MaxTime

\* The chain has halted, no later than in the first block at or after t.
HaltedBy(t) == phase = "halted" /\ \E gap \in BlockGaps : now < t + gap

\* Every round is settled by some EndBlock after its last window has ended, unless
\* the chain halts before.
RoundsSettle ==
    \A r \in 1..MaxTime :
        (r \in unsettled /\ \A k \in RoundKeys(r) : WithinHorizon(assignments[k].deadline))
            ~> (r \notin unsettled \/ \E k \in RoundKeys(r) : HaltedBy(assignments[k].deadline))

\* Every lease is paid or refunded by some EndBlock after it has ended, unless the
\* chain halts before.
LeasesClose ==
    \A i \in 1..MaxLeases :
        (i \in DOMAIN leases /\ WithinHorizon(leases[i].ends))
            ~> (i \in DOMAIN leases /\ (leases[i].status # "ACTIVE" \/ HaltedBy(leases[i].ends)))

-----------------------------------------------------------------------------
(* What the documentation says and the code does not do. *)

\* A publisher that has failed as often as the threshold says, without passing in
\* between, is revoked by finalizeAssignments.
ThresholdRevokes ==
    \A d \in DOMAIN websites :
        failureStreak[d] >= RevokeThreshold => websites[d].status = "REVOKED"

\* The wallet that settleVerificationRound pays for an assignment is the wallet
\* that this assignment had verified.
RewardedOwnerVerified ==
    \A p \in payments : p.owner = assignments[p.key].owner
=============================================================================
