---------------------------- MODULE RoundRewards ----------------------------
(***************************************************************************)
(* The rewards of a verification round (EndBlock:                          *)
(* settleFinalizedVerificationRounds).  The emission pool is counted in    *)
(* rounds: settling a round takes exactly the publisher pool and the       *)
(* verifier pool of one round out of it, since what is not paid is burned. *)
(* payments remembers who was paid for what; it is not part of the code's  *)
(* state.                                                                  *)
(***************************************************************************)
EXTENDS VerificationRounds

RoundKeys(r) == {k \in DOMAIN assignments : k[1] = r}
UnpaidKeys(r) == {k \in RoundKeys(r) : ~assignments[k].settled}

\* Wrong variants of Settleable: one finalized assignment is enough, or every
\* assignment must have passed.
SettleableEarly(r) == UnpaidKeys(r) = {} \/ \E k \in RoundKeys(r) : assignments[k].finalized
SettleableIfPassed(r) == UnpaidKeys(r) = {} \/ \A k \in RoundKeys(r) : assignments[k].verified

\* The loop skips a round that is neither handled nor completely finalized.
Settleable(r) ==
    \/ UnpaidKeys(r) = {}
    \/ \A k \in RoundKeys(r) : assignments[k].finalized

FirstSettleable(r) ==
    /\ r \in unsettled
    /\ Settleable(r)
    /\ \A q \in unsettled : Settleable(q) => r <= q

\* The errors: a partially settled round, and an emission pool that is short.
RewardsPayable(r) == UnpaidKeys(r) # {} => UnpaidKeys(r) = RoundKeys(r) /\ pool > 0

\* settleVerificationRound pays, for every verified assignment, the current
\* owner of its domain and the verifiers that passed it.
RoundPayments(r) ==
    {[key |-> k, owner |-> websites[k[2]].owner, verifiers |-> Passes(k), at |-> now] :
        k \in {j \in UnpaidKeys(r) : assignments[j].verified}}

SettleRound(r) ==
    /\ phase = "rewards"
    /\ FirstSettleable(r)
    /\ RewardsPayable(r)
    /\ pool' = IF UnpaidKeys(r) = {} THEN pool ELSE pool - 1
    /\ payments' = payments \cup RoundPayments(r)
    /\ assignments' = [k \in DOMAIN assignments |->
                          IF k \in UnpaidKeys(r)
                          THEN [assignments[k] EXCEPT !.settled = TRUE]
                          ELSE assignments[k]]
    /\ unsettled' = unsettled \ {r}
    /\ UNCHANGED <<now, phase, siteVars, roundMeta, lastRoundStart, beacons, ballotVars,
                   penalties, marketVars, bondVars>>

EndRewards ==
    /\ phase = "rewards"
    /\ \A r \in unsettled : ~Settleable(r)
    /\ phase' = "leases"
    /\ UNCHANGED <<now, siteVars, roundVars, ballotVars, penalties, rewardVars,
                   marketVars, bondVars>>

RewardsFail ==
    /\ phase = "rewards"
    /\ \E r \in unsettled : FirstSettleable(r) /\ ~RewardsPayable(r)
=============================================================================
