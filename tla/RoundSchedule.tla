--------------------------- MODULE RoundSchedule ---------------------------
(***************************************************************************)
(* The verification clock of x/registry: when the next round starts and    *)
(* which drand beacon it needs (x/registry/drand_schedule.go).             *)
(*                                                                         *)
(* Times are seconds counted from a round boundary.  The code truncates a  *)
(* time.Time to a multiple of the interval; 0 is such a multiple here.     *)
(***************************************************************************)
EXTENDS Integers

CONSTANTS
    RoundInterval,   \* PublisherParams.RoundIntervalSeconds
    DrandGenesis,    \* PublisherParams.DrandGenesisTimeUnix
    DrandPeriod,     \* PublisherParams.DrandPeriodSeconds
    DrandOffset      \* PublisherParams.DrandRoundOffsetSeconds

\* What PublisherParams.Validate enforces on the schedule.
ASSUME ScheduleAssumption ==
    /\ RoundInterval \in Nat \ {0}
    /\ DrandGenesis \in Nat
    /\ DrandPeriod \in Nat \ {0}
    /\ DrandOffset \in 1..RoundInterval

\* nextVerificationRoundStartUnix: the first boundary strictly after t.
NextRoundStart(t) == (t \div RoundInterval) * RoundInterval + RoundInterval

\* requiredDrandRound rejects rounds whose beacon would predate the drand chain.
PredatesDrand(r) == r - DrandOffset < DrandGenesis

\* requiredDrandRound: the last drand round emitted no later than r - offset.
RequiredDrandRound(r) == (r - DrandOffset - DrandGenesis) \div DrandPeriod + 1

\* The time at which drand round n is emitted; round 1 is emitted at genesis.
BeaconTime(n) == DrandGenesis + (n - 1) * DrandPeriod
=============================================================================
