------------------------- MODULE VerificationRounds -------------------------
(***************************************************************************)
(* Publisher registration and the verification rounds of x/registry:       *)
(* re-registration candidates, the drand beacon, the assignment of         *)
(* verifiers, commit and reveal, and the verdict.                          *)
(*                                                                         *)
(* A commit hash is represented by the vote it commits to: the hash binds  *)
(* the vote, and nobody reads it before the reveal.  A verifier that       *)
(* commits to something it cannot reveal is one that does not reveal.  The *)
(* round seed determines start offsets and selected verifiers by hashing;  *)
(* here they are any values that the computation can produce.              *)
(***************************************************************************)
EXTENDS SlotMarket

-----------------------------------------------------------------------------
(* Registration: the two outcomes of MsgRegisterPublisher. *)

\* Wrong variant of PrimaryFree: the index is not consulted.
PrimaryNeverTaken(d) == TRUE

PrimaryFree(d) == PrimaryDomain[d] \notin primaryIndex

\* A domain that is not registered yet.
RegisterWebsite(d, o) ==
    /\ phase = "txs"
    /\ d \notin DOMAIN websites
    /\ PrimaryFree(d)
    /\ websites' = Store(websites, d, [owner |-> o, status |-> "PENDING",
                                       pendingOwner |-> NoOwner,
                                       cooldownUntil |-> 0, cooldownCount |-> 0])
    /\ primaryIndex' = primaryIndex \cup {PrimaryDomain[d]}
    /\ UNCHANGED <<now, phase, failureStreak, roundVars, ballotVars, penalties,
                   rewardVars, marketVars, bondVars>>

\* A registered domain gets a candidate owner.  A candidate that is not the
\* sender is only replaced by the current owner, who thereby cancels it.
RequestReregistration(d, o) ==
    /\ phase = "txs"
    /\ d \in DOMAIN websites
    /\ websites[d].pendingOwner \in {NoOwner, o} \/ o = websites[d].owner
    /\ websites' = [websites EXCEPT ![d].pendingOwner = o]
    /\ UNCHANGED <<now, phase, primaryIndex, failureStreak, roundVars, ballotVars,
                   penalties, rewardVars, marketVars, bondVars>>

-----------------------------------------------------------------------------
(* The drand beacon. *)

\* The next round is still to be assigned.
RoundPending == NextRoundStart(now) > lastRoundStart

\* Only the required beacon is accepted, once.  Its signature exists from the
\* moment the drand network emits it.
SubmitDrandBeacon(n) ==
    /\ phase = "txs"
    /\ DrandEnabled
    /\ RoundPending
    /\ ~PredatesDrand(NextRoundStart(now))
    /\ n = RequiredDrandRound(NextRoundStart(now))
    /\ n \notin beacons
    /\ BeaconTime(n) <= now
    /\ beacons' = beacons \cup {n}
    /\ UNCHANGED <<now, phase, siteVars, assignments, roundMeta, lastRoundStart,
                   ballotVars, penalties, rewardVars, marketVars, bondVars>>

-----------------------------------------------------------------------------
(* Commit and reveal. *)

\* Wrong variant of RevealOpen: reveals start in the last second of commits.
RevealOverlapsCommit(a) == a.startAt + CommitWindow <= now /\ now <= a.deadline

CommitOpen(a) == a.startAt <= now /\ now <= a.startAt + CommitWindow
RevealOpen(a) == a.startAt + CommitWindow < now /\ now <= a.deadline

SubmitVerificationCommit(k, v, passed) ==
    /\ phase = "txs"
    /\ ~assignments[k].finalized
    /\ v \in assignments[k].verifiers
    /\ CommitOpen(assignments[k])
    /\ <<k, v>> \notin DOMAIN commits
    /\ <<k, v>> \notin DOMAIN submissions
    /\ commits' = Store(commits, <<k, v>>, passed)
    /\ UNCHANGED <<now, phase, siteVars, roundVars, submissions, penalties,
                   rewardVars, marketVars, bondVars>>

RevealVerification(k, v, passed) ==
    /\ phase = "txs"
    /\ ~assignments[k].finalized
    /\ v \in assignments[k].verifiers
    /\ RevealOpen(assignments[k])
    /\ <<k, v>> \notin DOMAIN submissions
    /\ <<k, v>> \in DOMAIN commits
    /\ commits[<<k, v>>] = passed
    /\ submissions' = Store(submissions, <<k, v>>, passed)
    /\ commits' = Delete(commits, <<k, v>>)
    /\ UNCHANGED <<now, phase, siteVars, roundVars, penalties,
                   rewardVars, marketVars, bondVars>>

-----------------------------------------------------------------------------
(* EndBlock: finalizeAssignments. *)

BeginEndBlock ==
    /\ phase = "txs"
    /\ phase' = "finalize"
    /\ UNCHANGED <<now, siteVars, roundVars, ballotVars, penalties, rewardVars,
                   marketVars, bondVars>>

Due == {k \in DOMAIN assignments :
           ~assignments[k].finalized /\ assignments[k].deadline <= now}

\* Wrong variant of KeyBefore: later rounds first.
LaterRoundFirst(j, k) == j[1] > k[1] \/ (j[1] = k[1] /\ j[2] < k[2])

\* The order of the store keys: round, then domain.
KeyBefore(j, k) == j[1] < k[1] \/ (j[1] = k[1] /\ j[2] < k[2])

FirstDue(k) == k \in Due /\ \A j \in Due \ {k} : KeyBefore(k, j)

Submitters(k) == {v \in Verifiers : <<k, v>> \in DOMAIN submissions}
Passes(k) == {v \in Submitters(k) : submissions[<<k, v>>]}
Fails(k) == Submitters(k) \ Passes(k)

RequiredQuorum(n) == IF n = 0 THEN 0 ELSE (n + 1) \div 2

HasQuorum(k) ==
    LET quorum == RequiredQuorum(Cardinality(assignments[k].verifiers))
    IN  Cardinality(Submitters(k)) >= quorum /\ quorum > 0

\* Wrong variant of MajorityPass: a tie passes.
TiePasses(k) == HasQuorum(k) /\ Cardinality(Passes(k)) >= Cardinality(Fails(k))

MajorityPass(k) == HasQuorum(k) /\ Cardinality(Passes(k)) > Cardinality(Fails(k))

\* A missing vote is penalized, and with a quorum a vote against the majority.
Penalized(k, v) ==
    \/ v \notin Submitters(k)
    \/ HasQuorum(k) /\ submissions[<<k, v>>] # MajorityPass(k)

\* ApplyVerifierPenalty.
Penalize(p) ==
    LET count == p.count + 1
        until == now + SuspendSeconds
    IN  [count |-> count,
         until |-> IF count >= SuspendThreshold /\ until > p.until THEN until ELSE p.until]

NoPenalty == [count |-> 0, until |-> 0]

\* The common end of an iteration: the assigned verifiers are penalized or
\* cleared, and the assignment is stored as finalized, which marks its round
\* unsettled.
Conclude(k, verified) ==
    /\ penalties' = [v \in Verifiers |->
                        IF v \notin assignments[k].verifiers THEN penalties[v]
                        ELSE IF Penalized(k, v) THEN Penalize(penalties[v])
                        ELSE NoPenalty]
    /\ assignments' = [assignments EXCEPT ![k].finalized = TRUE, ![k].verified = verified]
    /\ unsettled' = IF assignments[k].settled THEN unsettled ELSE unsettled \cup {k[1]}
    /\ UNCHANGED <<now, phase, primaryIndex, roundMeta, lastRoundStart, beacons,
                   ballotVars, pool, payments, bondVars>>

\* Wrong variant of CandidateMatches: any candidate will do.
SomeCandidate(k) == websites[k[2]].pendingOwner # NoOwner

\* The registration still waits for the candidate that was verified.
CandidateMatches(k) == websites[k[2]].pendingOwner = assignments[k].owner

\* A re-registration whose candidate has changed since it was assigned.
IgnoreStaleCandidate(k) ==
    /\ assignments[k].reregistration
    /\ ~CandidateMatches(k)
    /\ Conclude(k, FALSE)
    /\ UNCHANGED <<websites, failureStreak, marketVars>>

\* Wrong variant of StreakCleared: the failures stay on record.
StreakKept(d) == failureStreak

\* ClearPublisherFailureStreak.
StreakCleared(d) == [failureStreak EXCEPT ![d] = 0]

\* The registration that an accepted candidate gets.
Accepted(w) == [owner |-> w.pendingOwner, status |-> "VERIFIED", pendingOwner |-> NoOwner,
                cooldownUntil |-> 0, cooldownCount |-> 0]

AcceptCandidate(k) ==
    LET d == k[2]
    IN  /\ assignments[k].reregistration
        /\ CandidateMatches(k)
        /\ MajorityPass(k)
        /\ websites' = [websites EXCEPT ![d] = Accepted(@)]
        /\ failureStreak' = StreakCleared(d)
        /\ slots' = TransferSlots(d, websites[d].owner, websites[d].pendingOwner)
        /\ Conclude(k, TRUE)
        /\ UNCHANGED <<leases, escrow>>

RejectCandidate(k) ==
    /\ assignments[k].reregistration
    /\ CandidateMatches(k)
    /\ HasQuorum(k)
    /\ ~MajorityPass(k)
    /\ websites' = [websites EXCEPT ![k[2]].pendingOwner = NoOwner]
    /\ Conclude(k, FALSE)
    /\ UNCHANGED <<failureStreak, marketVars>>

\* The registration after a passed verification of the current owner.
Confirmed(w) == [w EXCEPT !.status = "VERIFIED", !.cooldownUntil = 0, !.cooldownCount = 0]

ConfirmPublisher(k) ==
    /\ ~assignments[k].reregistration
    /\ MajorityPass(k)
    /\ websites' = [websites EXCEPT ![k[2]] = Confirmed(@)]
    /\ failureStreak' = StreakCleared(k[2])
    /\ Conclude(k, TRUE)
    /\ UNCHANGED marketVars

NoQuorum(k) ==
    /\ assignments[k].reregistration => CandidateMatches(k)
    /\ ~HasQuorum(k)
    /\ Conclude(k, FALSE)
    /\ UNCHANGED <<websites, failureStreak, marketVars>>

PublisherFails(k) == ~assignments[k].reregistration /\ HasQuorum(k) /\ ~MajorityPass(k)

\* A revoked publisher's streak is not counted on.
StreakAfterFailure(d) ==
    IF websites[d].status \in {"VERIFIED", "PENDING"}
    THEN failureStreak[d] + 1
    ELSE failureStreak[d]

StatusAfterFailure(status, streak) ==
    IF status = "VERIFIED"
    THEN IF streak >= RevokeThreshold THEN "REVOKED" ELSE "PENDING"
    ELSE status

\* A quorum says the publisher fails: the status drops, and if leases are
\* running the publisher enters a cooldown and they are refunded.
FailPublisher(k) ==
    LET d == k[2]
        streak == StreakAfterFailure(d)
        failed == [websites[d] EXCEPT !.status = StatusAfterFailure(@, streak)]
        violated == ViolatedLeases(d)
    IN  /\ PublisherFails(k)
        /\ \A i \in violated : escrow[i] >= leases[i].remaining
        /\ failureStreak' = [failureStreak EXCEPT ![d] = streak]
        /\ websites' = [websites EXCEPT ![d] =
                           IF violated = {} THEN failed ELSE WithCooldown(failed)]
        /\ Refund(violated)
        /\ Conclude(k, FALSE)
        /\ UNCHANGED slots

FinalizeAssignment(k) ==
    /\ phase = "finalize"
    /\ FirstDue(k)
    /\ \/ IgnoreStaleCandidate(k)
       \/ AcceptCandidate(k)
       \/ RejectCandidate(k)
       \/ ConfirmPublisher(k)
       \/ FailPublisher(k)
       \/ NoQuorum(k)

EndFinalize ==
    /\ phase = "finalize"
    /\ Due = {}
    /\ phase' = "rewards"
    /\ UNCHANGED <<now, siteVars, roundVars, ballotVars, penalties, rewardVars,
                   marketVars, bondVars>>

\* The error of finalizeAssignments: a refund that the account cannot cover.
FinalizeFails ==
    /\ phase = "finalize"
    /\ \E k \in Due : /\ FirstDue(k)
                     /\ PublisherFails(k)
                     /\ \E i \in ViolatedLeases(k[2]) : escrow[i] < leases[i].remaining

-----------------------------------------------------------------------------
(* EndBlock: assignNewRound. *)

\* The publishers that round r verifies.
RoundPublishers(r) ==
    {d \in DOMAIN websites :
        \/ websites[d].pendingOwner # NoOwner
        \/ /\ websites[d].cooldownUntil <= r
           /\ websites[d].status \in {"PENDING", "VERIFIED"}}

EligibleVerifiers ==
    {v \in DOMAIN bonds : bonds[v] >= MinBond /\ penalties[v].until <= now}

\* selectDeterministicWeighted: all candidates, or MinVerifierCount of them.
Selections ==
    LET n == Cardinality(EligibleVerifiers)
    IN  {S \in SUBSET EligibleVerifiers :
            Cardinality(S) = IF n <= MinVerifierCount THEN n ELSE MinVerifierCount}

\* Wrong variant of BeaconReady: the round does not wait.
BeaconNotAwaited(r) == TRUE

BeaconReady(r) == DrandEnabled => RequiredDrandRound(r) \in beacons

\* Nothing to assign, or the beacon of the round is still missing.
SkipAssignment ==
    LET r == NextRoundStart(now)
    IN  /\ phase = "assign"
        /\ RoundPending => ~BeaconReady(r) /\ ~PredatesDrand(r)
        /\ phase' = "committed"
        /\ UNCHANGED <<now, siteVars, roundVars, ballotVars, penalties, rewardVars,
                       marketVars, bondVars>>

\* Wrong variant of NewAssignment: the candidate is verified even if there is none.
CandidateAssignment(d, startAt, verifiers) ==
    [startAt |-> startAt, deadline |-> startAt + SubmissionWindow, verifiers |-> verifiers,
     owner |-> websites[d].pendingOwner, reregistration |-> websites[d].pendingOwner # NoOwner,
     finalized |-> FALSE, verified |-> FALSE, settled |-> FALSE]

NewAssignment(d, startAt, verifiers) ==
    LET w == websites[d]
        reregistration == w.pendingOwner # NoOwner
    IN  [startAt |-> startAt, deadline |-> startAt + SubmissionWindow,
         verifiers |-> verifiers,
         owner |-> IF reregistration THEN w.pendingOwner ELSE w.owner,
         reregistration |-> reregistration,
         finalized |-> FALSE, verified |-> FALSE, settled |-> FALSE]

\* One assignment for every publisher.  Start offset and verifiers follow from
\* the round seed.
AssignNewRound(offsets, selected) ==
    LET r == NextRoundStart(now)
        created == {r} \X RoundPublishers(r)
    IN  /\ phase = "assign"
        /\ RoundPending
        /\ ~(DrandEnabled /\ PredatesDrand(r))
        /\ BeaconReady(r)
        /\ roundMeta' = IF r \in DOMAIN roundMeta
                        THEN roundMeta
                        ELSE Store(roundMeta, r, [createdAt |-> now, eligible |-> EligibleVerifiers])
        /\ assignments' = [k \in DOMAIN assignments \cup created |->
                              IF k \in DOMAIN assignments
                              THEN assignments[k]
                              ELSE NewAssignment(k[2], r + offsets[k[2]], selected[k[2]])]
        /\ unsettled' = IF created \subseteq DOMAIN assignments
                        THEN unsettled ELSE unsettled \cup {r}
        /\ lastRoundStart' = r
        /\ phase' = "committed"
        /\ UNCHANGED <<now, siteVars, beacons, ballotVars, penalties, pool, payments,
                       marketVars, bondVars>>

AssignFails ==
    /\ phase = "assign"
    /\ RoundPending
    /\ DrandEnabled
    /\ PredatesDrand(NextRoundStart(now))
=============================================================================
