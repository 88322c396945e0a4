----------------------------- MODULE SlotMarket -----------------------------
(***************************************************************************)
(* Slots and leases of x/registry: the three market messages and the       *)
(* settlement of expired leases in EndBlock.                               *)
(*                                                                         *)
(* Slots and leases are numbered in creation order and never deleted.      *)
(* escrow[i] is the part of the registry's module account that lease i     *)
(* paid in and that has not left it; a payment for a lease must be covered *)
(* by its own part, which is stronger than the bank's check of the total.  *)
(***************************************************************************)
EXTENDS RegistryState

InCooldown(w) == w.cooldownUntil > now

CreateSlot(d, o) ==
    /\ phase = "txs"
    /\ Len(slots) < MaxSlots
    /\ d \in DOMAIN websites
    /\ websites[d].owner = o
    /\ websites[d].status = "VERIFIED"
    /\ ~InCooldown(websites[d])
    /\ slots' = Append(slots, [publisher |-> o, domain |-> d, status |-> "PAUSED"])
    /\ UNCHANGED <<now, phase, siteVars, roundVars, ballotVars, penalties,
                   rewardVars, leases, escrow, bondVars>>

UpdateSlotStatus(s, o, status) ==
    /\ phase = "txs"
    /\ slots[s].publisher = o
    /\ slots' = [slots EXCEPT ![s].status = status]
    /\ UNCHANGED <<now, phase, siteVars, roundVars, ballotVars, penalties,
                   rewardVars, leases, escrow, bondVars>>

\* Wrong variant of Overlap: only the start of the new lease is looked at.
StartsWithin(starts, ends, l) == l.starts <= starts /\ starts < l.ends

\* The intervals [starts, ends) and that of lease l intersect.
Overlap(starts, ends, l) == starts < l.ends /\ ends > l.starts

\* The lessee pays in advance; one second costs one coin.
LeaseSlot(s, lessee, starts, duration) ==
    LET w == websites[slots[s].domain]
    IN  /\ phase = "txs"
        /\ Len(leases) < MaxLeases
        /\ slots[s].status = "LISTED"
        /\ w.status = "VERIFIED"
        /\ starts >= now
        /\ ~(InCooldown(w) /\ starts < w.cooldownUntil)
        /\ \A i \in DOMAIN leases :
              leases[i].slot = s /\ leases[i].status = "ACTIVE"
                 => ~Overlap(starts, starts + duration, leases[i])
        /\ leases' = Append(leases, [slot |-> s, publisher |-> slots[s].publisher,
                                     lessee |-> lessee, starts |-> starts,
                                     ends |-> starts + duration, remaining |-> duration,
                                     status |-> "ACTIVE"])
        /\ escrow' = Append(escrow, duration)
        /\ UNCHANGED <<now, phase, siteVars, roundVars, ballotVars, penalties,
                       rewardVars, slots, bondVars>>

\* Wrong variant of TransferSlots: all but the previous owner's slots move.
TransferOthers(d, previous, next) ==
    [s \in DOMAIN slots |->
        IF slots[s].domain = d /\ slots[s].publisher # previous
        THEN [slots[s] EXCEPT !.publisher = next]
        ELSE slots[s]]

\* transferSlotsForDomain: what becomes of the slots when d changes hands.
TransferSlots(d, previous, next) ==
    [s \in DOMAIN slots |->
        IF slots[s].domain = d /\ slots[s].publisher = previous
        THEN [slots[s] EXCEPT !.publisher = next]
        ELSE slots[s]]

\* Wrong variant of RunningLeases: the leases sold by the current owner, which is
\* what activeLeasesForPublisher collects.
RunningLeasesOfOwner(d) ==
    {i \in DOMAIN leases : /\ leases[i].status = "ACTIVE"
                           /\ leases[i].starts <= now /\ now <= leases[i].ends
                           /\ leases[i].publisher = websites[d].owner}

\* activeLeasesForDomain: here the interval is closed at both ends.
RunningLeases(d) ==
    {i \in DOMAIN leases : /\ leases[i].status = "ACTIVE"
                           /\ leases[i].starts <= now /\ now <= leases[i].ends
                           /\ slots[leases[i].slot].domain = d}

\* The leases that a failed verification of d breaks: none during a cooldown.
ViolatedLeases(d) == IF InCooldown(websites[d]) THEN {} ELSE RunningLeases(d)

\* computeCooldownSeconds: the cooldown doubles with every repetition.
CooldownSeconds(count) == CooldownBase * 2^(count - 1)

\* applyPublisherCooldown.
WithCooldown(w) ==
    LET count == w.cooldownCount + 1
    IN  [w EXCEPT !.cooldownUntil = now + CooldownSeconds(count), !.cooldownCount = count]

\* Wrong variants of Closed: the amount stays, or the record is not saved.
ClosedUnemptied(l, status) == [l EXCEPT !.status = status]
NotSaved(l, status) == l

\* The record that payoutLease and refundLease leave behind.
Closed(l, status) == [l EXCEPT !.remaining = 0, !.status = status]

\* refundLease for every lease of a set.
Refund(refunded) ==
    /\ leases' = [i \in DOMAIN leases |->
                     IF i \in refunded THEN Closed(leases[i], "VIOLATED") ELSE leases[i]]
    /\ escrow' = [i \in DOMAIN escrow |->
                     IF i \in refunded THEN escrow[i] - leases[i].remaining ELSE escrow[i]]

-----------------------------------------------------------------------------
(* EndBlock: settleLeases. *)

\* Wrong variant of Expired: only a block at the very end counts.
ExpiresNow(i) == leases[i].status = "ACTIVE" /\ now = leases[i].ends

Expired(i) == leases[i].status = "ACTIVE" /\ now >= leases[i].ends

FirstExpired(i) ==
    /\ i \in DOMAIN leases
    /\ Expired(i)
    /\ \A j \in DOMAIN leases : Expired(j) => i <= j

\* The errors of settleLeases are a dangling reference and a payment that the
\* module account cannot cover.
LeasePayable(i) ==
    /\ leases[i].slot \in DOMAIN slots
    /\ slots[leases[i].slot].domain \in DOMAIN websites
    /\ escrow[i] >= leases[i].remaining

\* An expired lease is refunded to the lessee during a cooldown and paid to
\* its publisher otherwise.
LeaseOutcome(i) ==
    IF InCooldown(websites[slots[leases[i].slot].domain]) THEN "VIOLATED" ELSE "COMPLETED"

SettleLease(i) ==
    /\ phase = "leases"
    /\ FirstExpired(i)
    /\ LeasePayable(i)
    /\ leases' = [leases EXCEPT ![i] = Closed(@, LeaseOutcome(i))]
    /\ escrow' = [escrow EXCEPT ![i] = @ - leases[i].remaining]
    /\ UNCHANGED <<now, phase, siteVars, roundVars, ballotVars, penalties,
                   rewardVars, slots, bondVars>>

EndLeases ==
    /\ phase = "leases"
    /\ \A i \in DOMAIN leases : ~Expired(i)
    /\ phase' = "assign"
    /\ UNCHANGED <<now, siteVars, roundVars, ballotVars, penalties, rewardVars,
                   marketVars, bondVars>>

LeasesFail ==
    /\ phase = "leases"
    /\ \E i \in DOMAIN leases : FirstExpired(i) /\ ~LeasePayable(i)
=============================================================================
