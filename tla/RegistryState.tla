---------------------------- MODULE RegistryState ---------------------------
(***************************************************************************)
(* The state of the x/registry module: parameters, stores and their types. *)
(*                                                                         *)
(* A store is a function whose domain is the set of keys present.  Left    *)
(* out are descriptive fields (labels, URLs, proofs, heights), referrers   *)
(* and similar-site statistics, which only scale payments, and the counts  *)
(* and seeds that RoundMeta repeats from elsewhere.                        *)
(***************************************************************************)
EXTENDS RoundSchedule, VerifierBonds, FiniteSets, Sequences

CONSTANTS
    Domains,            \* domain names, numbered in store-key order
    PrimaryDomain,      \* GetPrimaryDomain of every domain
    Owners,             \* addresses that register publishers
    Lessees,            \* addresses that lease slots
    NoOwner,            \* the empty address
    GenesisSites,       \* websites of the genesis state
    MinVerifierCount,   \* verifiers drawn per assignment
    DelayMax,           \* an assignment starts less than this after its round
    CommitWindow, SubmissionWindow,
    RevokeThreshold,    \* failures after which a publisher is to be revoked
    SuspendThreshold,   \* penalties after which a verifier is suspended
    SuspendSeconds,     \* for how long: max(60, interval * suspend rounds)
    CooldownBase,       \* first cooldown of a publisher that breaks leases
    DrandEnabled,
    FundedRounds,       \* rounds that the emission pool can pay
    LeaseLeads,         \* how far ahead leases are booked
    LeaseDurations,     \* durations that the slot's unit and bounds admit
    GenesisTime,
    BlockGaps,          \* possible time between two blocks
    MaxTime, MaxSlots, MaxLeases    \* bounds of the model

\* What PublisherParams.Validate enforces on the effective values (zero stands
\* for a default), and a genesis that is not older than the drand chain.
ASSUME ParamsAssumption ==
    /\ Domains \subseteq Nat
    /\ DOMAIN PrimaryDomain = Domains
    /\ NoOwner \notin Owners
    /\ IsFiniteSet(Verifiers)
    /\ MinVerifierCount \in Nat \ {0}
    /\ DelayMax \in 1..RoundInterval
    /\ CommitWindow \in Nat \ {0}
    /\ SubmissionWindow \in Nat
    /\ CommitWindow < SubmissionWindow
    /\ RevokeThreshold \in Nat \ {0}
    /\ SuspendThreshold \in Nat \ {0}
    /\ SuspendSeconds \in Nat \ {0}
    /\ CooldownBase \in Nat \ {0}
    /\ DrandEnabled \in BOOLEAN
    /\ FundedRounds \in Nat
    /\ LeaseLeads \subseteq Nat
    /\ LeaseDurations \subseteq Nat \ {0}
    /\ GenesisTime \in Nat \ {0}
    /\ DrandGenesis + DrandOffset <= GenesisTime
    /\ MaxTime \in Nat
    /\ BlockGaps \subseteq Nat \ {0}

VARIABLES
    now, phase,
    websites, primaryIndex, failureStreak,
    assignments, roundMeta, lastRoundStart, beacons,
    commits, submissions, penalties,
    unsettled, pool, payments,
    slots, leases, escrow

siteVars   == <<websites, primaryIndex, failureStreak>>
roundVars  == <<assignments, roundMeta, lastRoundStart, beacons>>
ballotVars == <<commits, submissions>>
rewardVars == <<unsettled, pool, payments>>
marketVars == <<slots, leases, escrow>>
vars == <<now, phase, siteVars, roundVars, ballotVars, penalties,
          rewardVars, marketVars, bondVars>>

-----------------------------------------------------------------------------
(* Types. *)

Status == {"PENDING", "VERIFIED", "REVOKED"}
Phases == {"txs", "finalize", "rewards", "leases", "assign", "committed", "halted"}

Website == [owner : Owners, status : Status, pendingOwner : Owners \cup {NoOwner},
            cooldownUntil : Int, cooldownCount : Nat]

\* What ValidateWebsite admits in a genesis file, and one thing that it does not ask
\* for: a verified website has no cooldown on record.  ExportGenesis writes no other.
ASSUME GenesisAssumption ==
    /\ DOMAIN GenesisSites \subseteq Domains
    /\ GenesisSites \in [DOMAIN GenesisSites -> Website]
    /\ \A d \in DOMAIN GenesisSites :
          GenesisSites[d].status = "VERIFIED" =>
             GenesisSites[d].cooldownUntil = 0 /\ GenesisSites[d].cooldownCount = 0

\* An assignment is stored under its key <<round start, domain>>.
Keys == Nat \X Domains
Assignment == [startAt : Nat, deadline : Nat, verifiers : SUBSET Verifiers,
               owner : Owners, reregistration : BOOLEAN,
               finalized : BOOLEAN, verified : BOOLEAN, settled : BOOLEAN]

RoundMeta == [createdAt : Nat, eligible : SUBSET Verifiers]

Penalty == [count : Nat, until : Nat]

SlotStatus  == {"LISTED", "PAUSED", "UNLISTED"}
LeaseStatus == {"ACTIVE", "COMPLETED", "VIOLATED"}
Slot  == [publisher : Owners, domain : Domains, status : SlotStatus]
Lease == [slot : Nat, publisher : Owners, lessee : Lessees, starts : Nat,
          ends : Nat, remaining : Nat, status : LeaseStatus]

\* The stores are maps: the empty one, writing and deleting one entry.
EmptyStore == [y \in {} |-> y]
Store(f, x, value) == [y \in DOMAIN f \cup {x} |-> IF y = x THEN value ELSE f[y]]
Delete(f, x) == [y \in DOMAIN f \ {x} |-> f[y]]
=============================================================================
