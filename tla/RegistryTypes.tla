--------------------------- MODULE RegistryTypes ---------------------------
(***************************************************************************)
(* Proofs about the verifiers' bonds, which Registry takes over from       *)
(* VerifierBonds, and of type correctness of Registry: one lemma per       *)
(* action.                                                                 *)
(***************************************************************************)
EXTENDS Registry, TLAPS, SequenceTheorems

(***************************************************************************)
(* VerifierBonds, for any set of verifiers, any minimum bond and any       *)
(* amounts.                                                                *)
(***************************************************************************)
\* BondsCovered needs nothing but the types to be inductive.
BondInv == BondTypeOK /\ BondsCovered

\* The genesis state satisfies the invariant.
LEMMA BondInitInv == BondInit => BondInv
<1> SUFFICES ASSUME BondInit PROVE BondInv
  OBVIOUS
<1>1. BondTypeOK
  BY BondAssumption DEF BondInit, BondTypeOK
<1>2. ASSUME NEW v \in Verifiers PROVE deposits[v] = BondOf(v)
  BY GenesisFunded DEF BondInit, BondOf
<1>3. BondsCovered
  <2> SUFFICES ASSUME NEW v \in Verifiers
               PROVE  BondOf(v) <= deposits[v] /\ wallets[v] + deposits[v] = Wallet + GenesisDeposits[v]
    BY DEF BondsCovered
  <2>1. deposits[v] = BondOf(v) /\ wallets[v] = Wallet /\ deposits[v] = GenesisDeposits[v]
    BY <1>2 DEF BondInit
  <2>2. deposits[v] \in Nat /\ Wallet \in Nat
    BY <1>1, BondAssumption DEF BondTypeOK
  <2> QED
    BY <2>1, <2>2
<1> QED
  BY <1>1, <1>3 DEF BondInv

\* BondCoins preserves the invariant.
LEMMA BondPreserves ==
  ASSUME BondInv, NEW v \in Verifiers, NEW amount \in BondAmounts, Bond(v, amount)
  PROVE  BondInv'
<1>1. BondOf(v) \in Nat /\ amount \in Nat
  BY BondAssumption DEF BondInv, BondTypeOK, BondOf
<1>2. BondTypeOK'
  <2>1. DOMAIN bonds' = DOMAIN bonds \cup {v}
    BY DEF Bond
  <2>2. \A u \in DOMAIN bonds' : bonds'[u] \in Nat
    BY <1>1 DEF Bond, BondInv, BondTypeOK
  <2>3. wallets' \in [Verifiers -> Nat] /\ deposits' \in [Verifiers -> Nat]
    BY <1>1 DEF Bond, BondInv, BondTypeOK
  <2>4. bonds' = [u \in DOMAIN bonds' |-> bonds'[u]]
    BY <2>1 DEF Bond
  <2> QED
    BY <2>1, <2>2, <2>3, <2>4 DEF BondInv, BondTypeOK
<1>3. BondsCovered'
  <2> SUFFICES ASSUME NEW u \in Verifiers
               PROVE  BondOf(u)' <= deposits'[u] /\ wallets'[u] + deposits'[u] = Wallet + GenesisDeposits[u]
    BY DEF BondsCovered
  <2>1. BondOf(u)' = IF u = v THEN BondOf(v) + amount ELSE BondOf(u)
    BY DEF Bond, BondOf
  <2>2. /\ wallets'[u] = IF u = v THEN wallets[v] - amount ELSE wallets[u]
        /\ deposits'[u] = IF u = v THEN deposits[v] + amount ELSE deposits[u]
    BY DEF Bond, BondInv, BondTypeOK
  <2>3. /\ BondOf(u) \in Nat /\ wallets[u] \in Nat /\ deposits[u] \in Nat
        /\ BondOf(u) <= deposits[u] /\ wallets[u] + deposits[u] = Wallet + GenesisDeposits[u]
    BY DEF BondInv, BondTypeOK, BondsCovered, BondOf
  <2> QED
    BY <1>1, <2>1, <2>2, <2>3, BondAssumption
<1> QED
  BY <1>2, <1>3 DEF BondInv

\* UnbondCoins preserves the invariant, whether or not it deletes the record.
LEMMA UnbondPreserves ==
  ASSUME BondInv, NEW v \in Verifiers, NEW amount \in BondAmounts, Unbond(v, amount)
  PROVE  BondInv'
<1>1. /\ bonds[v] \in Nat /\ amount \in Nat /\ amount <= bonds[v]
      /\ bonds[v] - amount \in Nat /\ BondOf(v) = bonds[v] /\ MinBond \in Nat
  BY BondAssumption DEF BondInv, BondTypeOK, BondOf, Unbond
<1>2. BondTypeOK'
  <2>1. DOMAIN bonds' \subseteq DOMAIN bonds
    BY DEF Unbond, BondsAfterUnbond
  <2>2. \A u \in DOMAIN bonds' : bonds'[u] \in Nat
    BY <1>1 DEF Unbond, BondsAfterUnbond, BondInv, BondTypeOK
  <2>3. wallets' \in [Verifiers -> Nat] /\ deposits' \in [Verifiers -> Nat]
    BY <1>1 DEF Unbond, BondInv, BondTypeOK
  <2>4. bonds' = [u \in DOMAIN bonds' |-> bonds'[u]]
    BY Zenon DEF Unbond, BondsAfterUnbond, BondInv, BondTypeOK
  <2> QED
    BY <2>1, <2>2, <2>3, <2>4 DEF BondInv, BondTypeOK
<1>3. BondsCovered'
  <2> SUFFICES ASSUME NEW u \in Verifiers
               PROVE  BondOf(u)' <= deposits'[u] /\ wallets'[u] + deposits'[u] = Wallet + GenesisDeposits[u]
    BY DEF BondsCovered
  <2>1. /\ u # v => BondOf(u)' = BondOf(u)
        /\ BondOf(v)' \in {0, bonds[v] - amount}
    BY <1>1 DEF Unbond, BondsAfterUnbond, BondOf, BondInv, BondTypeOK
  <2>2. /\ wallets'[u] = IF u = v THEN wallets[v] + amount ELSE wallets[u]
        /\ deposits'[u] = IF u = v THEN deposits[v] - amount ELSE deposits[u]
    BY DEF Unbond, BondInv, BondTypeOK
  <2>3. /\ BondOf(u) \in Nat /\ wallets[u] \in Nat /\ deposits[u] \in Nat
        /\ BondOf(u) <= deposits[u] /\ wallets[u] + deposits[u] = Wallet + GenesisDeposits[u]
    BY DEF BondInv, BondTypeOK, BondsCovered, BondOf
  <2> QED
    BY <1>1, <2>1, <2>2, <2>3, BondAssumption
<1> QED
  BY <1>2, <1>3 DEF BondInv

\* Every step of the module preserves the invariant.
LEMMA BondStep == BondInv /\ [BondNext]_bondVars => BondInv'
<1> SUFFICES ASSUME BondInv, [BondNext]_bondVars PROVE BondInv'
  OBVIOUS
<1>1. CASE BondNext
  BY <1>1, BondPreserves, UnbondPreserves DEF BondNext
<1>2. CASE UNCHANGED bondVars
  BY <1>2 DEF bondVars, BondInv, BondTypeOK, BondsCovered, BondOf
<1> QED
  BY <1>1, <1>2

\* Bonds are covered by the module account and coins are conserved, whatever
\* sequence of BondCoins and UnbondCoins is executed.
THEOREM BondsAlwaysCovered == BondSpec => [](BondTypeOK /\ BondsCovered)
<1>1. BondSpec => []BondInv
  BY BondInitInv, BondStep, PTL DEF BondSpec
<1>2. BondInv => BondTypeOK /\ BondsCovered
  BY DEF BondInv
<1> QED
  BY <1>1, <1>2, PTL

-----------------------------------------------------------------------------
(* Nothing is stranded as long as the minimum bond is at most one. *)

\* At genesis every deposit is a bond.
LEMMA StrandInit == BondInit => NothingStranded
BY GenesisFunded DEF BondInit, NothingStranded, BondOf

\* With a minimum bond of at most one coin, only an empty record is deleted.
LEMMA StrandStep ==
  ASSUME MinBond <= 1, BondInv, NothingStranded, [BondNext]_bondVars
  PROVE  NothingStranded'
<1>1. ASSUME NEW v \in Verifiers, NEW amount \in BondAmounts, Bond(v, amount)
      PROVE  NothingStranded'
  <2> SUFFICES ASSUME NEW u \in Verifiers PROVE deposits'[u] = BondOf(u)'
    BY DEF NothingStranded
  <2>1. BondOf(u)' = IF u = v THEN BondOf(v) + amount ELSE BondOf(u)
    BY <1>1 DEF Bond, BondOf
  <2>2. deposits'[u] = IF u = v THEN deposits[v] + amount ELSE deposits[u]
    BY <1>1 DEF Bond, BondInv, BondTypeOK
  <2> QED
    BY <2>1, <2>2 DEF NothingStranded
<1>2. ASSUME NEW v \in Verifiers, NEW amount \in BondAmounts, Unbond(v, amount)
      PROVE  NothingStranded'
  <2> SUFFICES ASSUME NEW u \in Verifiers PROVE deposits'[u] = BondOf(u)'
    BY DEF NothingStranded
  <2>1. bonds[v] - amount \in Nat /\ BondOf(v) = bonds[v] /\ MinBond \in Nat
    BY <1>2, BondAssumption DEF BondInv, BondTypeOK, BondOf, Unbond
  <2>2. bonds[v] - amount < MinBond => bonds[v] - amount = 0
    BY <2>1
  <2>3. BondOf(u)' = IF u = v THEN bonds[v] - amount ELSE BondOf(u)
    BY <1>2, <2>1, <2>2 DEF Unbond, BondsAfterUnbond, BondOf, BondInv, BondTypeOK
  <2>4. deposits'[u] = IF u = v THEN deposits[v] - amount ELSE deposits[u]
    BY <1>2 DEF Unbond, BondInv, BondTypeOK
  <2> QED
    BY <2>1, <2>3, <2>4 DEF NothingStranded
<1>3. CASE UNCHANGED bondVars
  BY <1>3 DEF bondVars, NothingStranded, BondOf
<1> QED
  BY <1>1, <1>2, <1>3 DEF BondNext

\* With a minimum bond of at most one, which is the default, UnbondCoins can
\* return everything that BondCoins took.
THEOREM NothingEverStranded ==
  ASSUME MinBond <= 1
  PROVE  BondSpec => []NothingStranded
<1>1. BondSpec => []BondInv
  BY BondInitInv, BondStep, PTL DEF BondSpec
<1>2. BondInv /\ NothingStranded /\ [BondNext]_bondVars => NothingStranded'
  BY StrandStep
<1> QED
  BY <1>1, <1>2, StrandInit, PTL DEF BondSpec

(***************************************************************************)
(* The types of Registry.                                                  *)
(***************************************************************************)
\* A function on the domain of a sequence is a sequence of the same length: the
\* loops over slots and leases rewrite records and add none.
LEMMA MappedSeq ==
  ASSUME NEW S, NEW T, NEW s \in Seq(T), NEW f \in [DOMAIN s -> S]
  PROVE  f \in Seq(S) /\ Len(f) = Len(s)
OBVIOUS

\* The records that the slot and lease stores hold.
LEMMA SeqElements ==
  ASSUME NEW S, NEW q \in Seq(S)
  PROVE  \A i \in DOMAIN q : q[i] \in S /\ i \in Nat
OBVIOUS

\* A new slot, lease or escrow entry takes the next number and leaves the ones
\* before it alone.
LEMMA AppendEffect ==
  ASSUME NEW S, NEW q \in Seq(S), NEW e \in S
  PROVE  /\ Append(q, e) \in Seq(S)
         /\ DOMAIN Append(q, e) = DOMAIN q \cup {Len(q) + 1}
         /\ Append(q, e)[Len(q) + 1] = e
         /\ \A i \in DOMAIN q : Append(q, e)[i] = q[i]
OBVIOUS

\* The record that LeaseSlot appends.
LEMMA LeaseRecord ==
  ASSUME NEW s \in Nat, NEW publisher \in Owners, NEW lessee \in Lessees, NEW starts \in Nat,
         NEW ends \in Nat, NEW remaining \in Nat, NEW status \in LeaseStatus
  PROVE  [slot |-> s, publisher |-> publisher, lessee |-> lessee, starts |-> starts,
          ends |-> ends, remaining |-> remaining, status |-> status] \in Lease
BY DEF Lease

\* nextVerificationRoundStartUnix returns a time after its argument.
LEMMA NextRoundStartAfter ==
  ASSUME NEW t \in Nat
  PROVE  NextRoundStart(t) \in Nat /\ NextRoundStart(t) > t
<1>1. RoundInterval \in Nat \ {0}
  BY ScheduleAssumption
<1>2. t \div RoundInterval \in Nat
  BY <1>1
<1>3. (t \div RoundInterval) * RoundInterval \in Nat
  BY <1>1, <1>2
<1>4. (t \div RoundInterval) * RoundInterval + RoundInterval > t
  BY <1>1
<1> QED
  BY <1>1, <1>3, <1>4 DEF NextRoundStart

\* Writing an entry of a store keeps its type.
LEMMA StoreType ==
  ASSUME NEW S, NEW f, f \in [DOMAIN f -> S], NEW x, NEW value \in S
  PROVE  /\ DOMAIN Store(f, x, value) = DOMAIN f \cup {x}
         /\ Store(f, x, value) \in [DOMAIN f \cup {x} -> S]
BY DEF Store

\* Deleting an entry of a store keeps its type.
LEMMA DeleteType ==
  ASSUME NEW S, NEW f, f \in [DOMAIN f -> S], NEW x
  PROVE  /\ DOMAIN Delete(f, x) = DOMAIN f \ {x}
         /\ Delete(f, x) \in [DOMAIN f \ {x} -> S]
BY DEF Delete

-----------------------------------------------------------------------------
\* The genesis state.
LEMMA InitType == Init => TypeOK
<1> SUFFICES ASSUME Init PROVE TypeOK
  OBVIOUS
<1>1. BondTypeOK
  BY BondInitInv DEF Init, BondInv
<1>2. ClockTypeOK
  BY ParamsAssumption DEF Init, ClockTypeOK, Phases
<1>3. SiteTypeOK
  BY ParamsAssumption, GenesisAssumption DEF Init, SiteTypeOK
<1>4. RoundTypeOK
  BY DEF Init, RoundTypeOK, EmptyStore
<1>5. BallotTypeOK
  BY DEF Init, BallotTypeOK, EmptyStore, NoPenalty, Penalty
<1>6. RewardTypeOK
  BY ParamsAssumption DEF Init, RewardTypeOK
<1>7. MarketTypeOK
  BY DEF Init, MarketTypeOK
<1> QED
  BY <1>1, <1>2, <1>3, <1>4, <1>5, <1>6, <1>7 DEF TypeOK

-----------------------------------------------------------------------------
(* Registration. *)

\* A first registration adds one website of the right type.
LEMMA RegisterWebsiteType ==
  ASSUME TypeOK, NEW d \in Domains, NEW o \in Owners, RegisterWebsite(d, o)
  PROVE  TypeOK'
<1> USE DEF TypeOK
<1>1. SiteTypeOK'
  <2>1. [owner |-> o, status |-> "PENDING", pendingOwner |-> NoOwner,
         cooldownUntil |-> 0, cooldownCount |-> 0] \in Website
    BY DEF Website, Status
  <2>2. /\ DOMAIN websites' = DOMAIN websites \cup {d}
        /\ websites' \in [DOMAIN websites \cup {d} -> Website]
    BY <2>1 DEF RegisterWebsite, SiteTypeOK, Store
  <2> QED
    BY <2>2 DEF RegisterWebsite, SiteTypeOK
<1>2. DOMAIN websites \subseteq DOMAIN websites'
  BY DEF RegisterWebsite, Store
<1>3. ClockTypeOK' /\ BondTypeOK' /\ BallotTypeOK' /\ RewardTypeOK'
  BY DEF RegisterWebsite, ClockTypeOK, BondTypeOK, BallotTypeOK, RewardTypeOK,
         bondVars, roundVars, ballotVars, rewardVars
<1>4. RoundTypeOK'
  BY <1>2 DEF RegisterWebsite, RoundTypeOK, roundVars
<1>5. MarketTypeOK'
  BY <1>2 DEF RegisterWebsite, MarketTypeOK, marketVars
<1> QED
  BY <1>1, <1>3, <1>4, <1>5

\* A re-registration request only sets the candidate.
LEMMA RequestReregistrationType ==
  ASSUME TypeOK, NEW d \in Domains, NEW o \in Owners, RequestReregistration(d, o)
  PROVE  TypeOK'
<1> USE DEF TypeOK
<1>1. SiteTypeOK' /\ DOMAIN websites' = DOMAIN websites
  BY DEF RequestReregistration, SiteTypeOK, Website
<1>2. ClockTypeOK' /\ BondTypeOK' /\ BallotTypeOK' /\ RewardTypeOK'
  BY DEF RequestReregistration, ClockTypeOK, BondTypeOK, BallotTypeOK, RewardTypeOK,
         bondVars, roundVars, ballotVars, rewardVars
<1>3. RoundTypeOK' /\ MarketTypeOK'
  BY <1>1 DEF RequestReregistration, RoundTypeOK, MarketTypeOK, roundVars, marketVars
<1> QED
  BY <1>1, <1>2, <1>3

-----------------------------------------------------------------------------
(* Bonds, beacons and ballots. *)

\* Bonding and unbonding keep the types of x/verifiers and touch nothing else.
LEMMA BondTxType == ASSUME TypeOK, BondTx PROVE TypeOK'
<1> USE DEF TypeOK
<1>1. ASSUME NEW v \in Verifiers, NEW amount \in BondAmounts, Bond(v, amount)
      PROVE  BondTypeOK'
  <2>1. amount \in Nat /\ BondOf(v) \in Nat
    BY BondAssumption DEF BondTypeOK, BondOf
  <2> QED
    BY <1>1, <2>1 DEF Bond, BondTypeOK
<1>2. ASSUME NEW v \in Verifiers, NEW amount \in BondAmounts, Unbond(v, amount)
      PROVE  BondTypeOK'
  <2>1. amount \in Nat /\ bonds[v] - amount \in Nat
    BY <1>2, BondAssumption DEF BondTypeOK, Unbond
  <2> QED
    BY <1>2, <2>1 DEF Unbond, BondTypeOK, BondsAfterUnbond
<1>3. BondTypeOK'
  BY <1>1, <1>2 DEF BondTx, BondNext
<1>4. ClockTypeOK' /\ SiteTypeOK' /\ RoundTypeOK' /\ BallotTypeOK' /\ RewardTypeOK' /\ MarketTypeOK'
  BY ZenonT(60) DEF BondTx, ClockTypeOK, SiteTypeOK, RoundTypeOK, BallotTypeOK, RewardTypeOK, MarketTypeOK,
         siteVars, roundVars, ballotVars, rewardVars, marketVars
<1> QED
  BY <1>3, <1>4

\* A submitted beacon adds a drand round number.
LEMMA SubmitDrandBeaconType ==
  ASSUME TypeOK, NEW n \in Int, SubmitDrandBeacon(n)
  PROVE  TypeOK'
<1> USE DEF TypeOK
<1>1. RoundTypeOK'
  BY DEF SubmitDrandBeacon, RoundTypeOK, siteVars
<1>2. ClockTypeOK' /\ BondTypeOK' /\ SiteTypeOK' /\ BallotTypeOK' /\ RewardTypeOK' /\ MarketTypeOK'
  BY ZenonT(60) DEF SubmitDrandBeacon, ClockTypeOK, BondTypeOK, SiteTypeOK, BallotTypeOK, RewardTypeOK,
         MarketTypeOK, siteVars, bondVars, ballotVars, rewardVars, marketVars
<1> QED
  BY <1>1, <1>2

\* A commit is stored for an existing assignment.
LEMMA SubmitVerificationCommitType ==
  ASSUME TypeOK, NEW k \in DOMAIN assignments, NEW v \in Verifiers, NEW passed \in BOOLEAN,
         SubmitVerificationCommit(k, v, passed)
  PROVE  TypeOK'
<1> USE DEF TypeOK
<1>1. BallotTypeOK'
  BY DEF SubmitVerificationCommit, BallotTypeOK, roundVars, Store
<1>2. ClockTypeOK' /\ BondTypeOK' /\ SiteTypeOK' /\ RoundTypeOK' /\ RewardTypeOK' /\ MarketTypeOK'
  BY Zenon DEF SubmitVerificationCommit, ClockTypeOK, BondTypeOK, SiteTypeOK, RoundTypeOK, RewardTypeOK,
         MarketTypeOK, siteVars, bondVars, roundVars, rewardVars, marketVars
<1> QED
  BY <1>1, <1>2

\* A reveal moves a vote from the commits to the submissions.
LEMMA RevealVerificationType ==
  ASSUME TypeOK, NEW k \in DOMAIN assignments, NEW v \in Verifiers, NEW passed \in BOOLEAN,
         RevealVerification(k, v, passed)
  PROVE  TypeOK'
<1> USE DEF TypeOK
<1>1. BallotTypeOK'
  BY DEF RevealVerification, BallotTypeOK, roundVars, Store, Delete
<1>2. ClockTypeOK' /\ BondTypeOK' /\ SiteTypeOK' /\ RoundTypeOK' /\ RewardTypeOK' /\ MarketTypeOK'
  BY ZenonT(60) DEF RevealVerification, ClockTypeOK, BondTypeOK, SiteTypeOK, RoundTypeOK, RewardTypeOK,
         MarketTypeOK, siteVars, bondVars, roundVars, rewardVars, marketVars
<1> QED
  BY <1>1, <1>2

-----------------------------------------------------------------------------
(* The slot market. *)

\* A new slot refers to a registered website.
LEMMA CreateSlotType ==
  ASSUME TypeOK, NEW d \in Domains, NEW o \in Owners, CreateSlot(d, o)
  PROVE  TypeOK'
<1> USE DEF TypeOK
<1>1. MarketTypeOK'
  <2> DEFINE new == [publisher |-> o, domain |-> d, status |-> "PAUSED"]
  <2>1. new \in Slot
    BY DEF Slot, SlotStatus
  <2>2. /\ slots' \in Seq(Slot) /\ DOMAIN slots \subseteq DOMAIN slots'
        /\ \A s \in DOMAIN slots' : slots'[s] = IF s \in DOMAIN slots THEN slots[s] ELSE new
    BY <2>1 DEF CreateSlot, MarketTypeOK
  <2>3. d \in DOMAIN websites /\ websites' = websites /\ leases' = leases /\ escrow' = escrow
    BY DEF CreateSlot, siteVars
  <2> QED
    BY <2>2, <2>3 DEF MarketTypeOK
<1>2. ClockTypeOK' /\ BondTypeOK' /\ SiteTypeOK' /\ RoundTypeOK' /\ BallotTypeOK' /\ RewardTypeOK'
  BY Zenon DEF CreateSlot, ClockTypeOK, BondTypeOK, SiteTypeOK, RoundTypeOK, BallotTypeOK, RewardTypeOK,
         siteVars, bondVars, roundVars, ballotVars, rewardVars
<1> QED
  BY <1>1, <1>2

\* A status update keeps the domain of the slot.
LEMMA UpdateSlotStatusType ==
  ASSUME TypeOK, NEW s \in DOMAIN slots, NEW o \in Owners, NEW status \in SlotStatus,
         UpdateSlotStatus(s, o, status)
  PROVE  TypeOK'
<1> USE DEF TypeOK
<1>1. MarketTypeOK'
  <2>0. slots[s] \in Slot
    BY DEF MarketTypeOK
  <2>1. [slots[s] EXCEPT !.status = status] \in Slot
    BY <2>0 DEF Slot
  <2>2. /\ slots' \in Seq(Slot) /\ DOMAIN slots' = DOMAIN slots
        /\ \A t \in DOMAIN slots : slots'[t].domain = slots[t].domain
    BY <2>1 DEF UpdateSlotStatus, MarketTypeOK, Slot
  <2> QED
    BY <2>2 DEF UpdateSlotStatus, MarketTypeOK, siteVars
<1>2. ClockTypeOK' /\ BondTypeOK' /\ SiteTypeOK' /\ RoundTypeOK' /\ BallotTypeOK' /\ RewardTypeOK'
  BY DEF UpdateSlotStatus, ClockTypeOK, BondTypeOK, SiteTypeOK, RoundTypeOK, BallotTypeOK,
         RewardTypeOK, siteVars, bondVars, roundVars, ballotVars, rewardVars
<1> QED
  BY <1>1, <1>2

\* A new lease refers to an existing slot and has its escrow.
LEMMA LeaseSlotType ==
  ASSUME TypeOK, NEW s \in DOMAIN slots, NEW lessee \in Lessees, NEW starts \in Nat,
         NEW duration \in Nat, LeaseSlot(s, lessee, starts, duration)
  PROVE  TypeOK'
<1> USE DEF TypeOK
<1>1. MarketTypeOK'
  <2> DEFINE new == [slot |-> s, publisher |-> slots[s].publisher, lessee |-> lessee,
                     starts |-> starts, ends |-> starts + duration, remaining |-> duration,
                     status |-> "ACTIVE"]
  <2>0. slots[s] \in Slot /\ s \in Nat
    BY SMTT(60) DEF MarketTypeOK
  <2>1. new \in Lease
    <3>1. slots[s].publisher \in Owners /\ starts + duration \in Nat /\ "ACTIVE" \in LeaseStatus
      BY <2>0, SMTT(60) DEF Slot, LeaseStatus
    <3> QED
      BY <2>0, <3>1, LeaseRecord
  <2>2. /\ leases' \in Seq(Lease) /\ DOMAIN leases' = DOMAIN leases \cup {Len(leases) + 1}
        /\ leases'[Len(leases) + 1] = new /\ \A i \in DOMAIN leases : leases'[i] = leases[i]
    <3>1. leases' = Append(leases, new)
      BY ZenonT(60) DEF LeaseSlot
    <3>2. leases \in Seq(Lease)
      BY DEF MarketTypeOK
    <3> HIDE DEF new
    <3> QED
      BY <2>1, <3>1, <3>2, AppendEffect
  <2>3. escrow \in Seq(Nat) /\ Len(escrow) = Len(leases)
    BY MappedSeq DEF MarketTypeOK
  <2>4. escrow' \in [DOMAIN leases' -> Nat]
    <3>1. escrow' = Append(escrow, duration)
      BY ZenonT(60) DEF LeaseSlot
    <3>2. DOMAIN escrow' = DOMAIN leases' /\ escrow' \in Seq(Nat)
      BY <2>2, <2>3, <3>1, AppendEffect DEF MarketTypeOK
    <3> QED
      BY <3>2
  <2>5. slots' = slots /\ websites' = websites
    BY ZenonT(60) DEF LeaseSlot, siteVars
  <2> HIDE DEF new
  <2>6. \A i \in DOMAIN leases' : leases'[i].slot \in DOMAIN slots
    <3>1. \A i \in DOMAIN leases : leases[i].slot \in DOMAIN slots
      BY DEF MarketTypeOK
    <3>2. new.slot = s
      BY DEF new
    <3> QED
      BY <2>2, <3>1, <3>2
  <2> QED
    BY <2>2, <2>4, <2>5, <2>6 DEF MarketTypeOK
<1>2. ClockTypeOK' /\ BondTypeOK' /\ SiteTypeOK' /\ RoundTypeOK' /\ BallotTypeOK' /\ RewardTypeOK'
  BY Zenon DEF LeaseSlot, ClockTypeOK, BondTypeOK, SiteTypeOK, RoundTypeOK, BallotTypeOK, RewardTypeOK,
         siteVars, bondVars, roundVars, ballotVars, rewardVars
<1> QED
  BY <1>1, <1>2

\* Settling an expired lease takes no more than its escrow.
LEMMA SettleLeaseType ==
  ASSUME TypeOK, NEW i \in DOMAIN leases, SettleLease(i)
  PROVE  TypeOK'
<1> USE DEF TypeOK
<1>1. MarketTypeOK'
  <2>1. leases[i] \in Lease
    BY DEF MarketTypeOK
  <2>2. LeaseOutcome(i) \in LeaseStatus
    BY DEF LeaseOutcome, LeaseStatus
  <2>3. Closed(leases[i], LeaseOutcome(i)) \in Lease
    BY <2>1, <2>2, ZenonT(60) DEF Closed, Lease
  <2>4. Closed(leases[i], LeaseOutcome(i)).slot = leases[i].slot
    BY <2>1 DEF Closed, Lease
  <2>5. /\ leases' \in Seq(Lease) /\ DOMAIN leases' = DOMAIN leases
        /\ \A j \in DOMAIN leases : leases'[j].slot = leases[j].slot
    BY <2>3, <2>4 DEF SettleLease, MarketTypeOK
  <2>6. escrow[i] - leases[i].remaining \in Nat
    <3>1. escrow[i] \in Nat /\ leases[i].remaining \in Nat
      BY <2>1 DEF MarketTypeOK, Lease
    <3>2. escrow[i] >= leases[i].remaining
      BY DEF SettleLease, LeasePayable
    <3> QED
      BY <3>1, <3>2
  <2>7. escrow' \in [DOMAIN leases -> Nat]
    BY <2>6 DEF SettleLease, MarketTypeOK
  <2> QED
    BY <2>5, <2>7 DEF SettleLease, MarketTypeOK, siteVars
<1>2. ClockTypeOK' /\ BondTypeOK' /\ SiteTypeOK' /\ RoundTypeOK' /\ BallotTypeOK' /\ RewardTypeOK'
  BY DEF SettleLease, ClockTypeOK, BondTypeOK, SiteTypeOK, RoundTypeOK, BallotTypeOK,
         RewardTypeOK, siteVars, bondVars, roundVars, ballotVars, rewardVars
<1> QED
  BY <1>1, <1>2

-----------------------------------------------------------------------------
(* The block cycle: steps that change only the clock and the phase. *)

StoresUnchanged ==
    UNCHANGED <<siteVars, roundVars, ballotVars, penalties, rewardVars, marketVars, bondVars>>

\* A step of the block cycle keeps the stores, hence their types.
LEMMA ClockStepType ==
  ASSUME TypeOK, StoresUnchanged, now' \in Nat, phase' \in Phases
  PROVE  TypeOK'
<1> USE DEF TypeOK, StoresUnchanged
<1>1. ClockTypeOK'
  BY DEF ClockTypeOK
<1>2. BondTypeOK' /\ SiteTypeOK' /\ RoundTypeOK' /\ BallotTypeOK' /\ RewardTypeOK' /\ MarketTypeOK'
  BY ZenonT(60) DEF BondTypeOK, SiteTypeOK, RoundTypeOK, BallotTypeOK, RewardTypeOK, MarketTypeOK,
         siteVars, bondVars, roundVars, ballotVars, rewardVars, marketVars
<1> QED
  BY <1>1, <1>2

\* The ends of the EndBlock loops, a failing EndBlock and the final stop.
LEMMA PhaseStepType ==
  ASSUME TypeOK, BeginEndBlock \/ EndFinalize \/ EndRewards \/ EndLeases \/ SkipAssignment
                   \/ EndBlockFails \/ Stop
  PROVE  TypeOK'
<1>1. now' = now /\ StoresUnchanged
  BY DEF BeginEndBlock, EndFinalize, EndRewards, EndLeases, SkipAssignment, EndBlockFails, Stop,
         vars, StoresUnchanged
<1>2. phase' = phase \/ phase' \in Phases
  BY DEF BeginEndBlock, EndFinalize, EndRewards, EndLeases, SkipAssignment, EndBlockFails, Stop,
         vars, Phases
<1> QED
  BY <1>1, <1>2, ClockStepType DEF TypeOK, ClockTypeOK

\* The next block advances the clock.
LEMMA NextBlockType ==
  ASSUME TypeOK, NEW gap \in BlockGaps, NextBlock(now + gap)
  PROVE  TypeOK'
<1>1. StoresUnchanged
  BY DEF NextBlock, StoresUnchanged
<1>2. now' \in Nat /\ phase' \in Phases
  BY ParamsAssumption DEF NextBlock, Phases, TypeOK, ClockTypeOK
<1> QED
  BY <1>1, <1>2, ClockStepType

-----------------------------------------------------------------------------
(* finalizeAssignments. *)

\* The common end of an iteration of finalizeAssignments.
LEMMA ConcludeType ==
  ASSUME TypeOK, NEW k \in DOMAIN assignments, NEW verified \in BOOLEAN, Conclude(k, verified),
         DOMAIN websites' = DOMAIN websites
  PROVE  ClockTypeOK' /\ BondTypeOK' /\ RoundTypeOK' /\ BallotTypeOK' /\ RewardTypeOK'
<1> USE DEF TypeOK
<1>1. assignments[k] \in Assignment /\ k[1] \in Nat
  BY DEF RoundTypeOK
<1>2. [assignments[k] EXCEPT !.finalized = TRUE, !.verified = verified] \in Assignment
  BY <1>1, Zenon DEF Assignment
<1>3. assignments' = [assignments EXCEPT ![k] =
                         [assignments[k] EXCEPT !.finalized = TRUE, !.verified = verified]]
  BY ZenonT(60) DEF Conclude, RoundTypeOK
<1>4. RoundTypeOK' /\ DOMAIN assignments' = DOMAIN assignments
  BY <1>2, <1>3 DEF RoundTypeOK, Conclude
<1>5. ASSUME NEW p \in Penalty PROVE Penalize(p) \in Penalty
  BY <1>5, ParamsAssumption, SMTT(60) DEF Penalty, Penalize, ClockTypeOK
<1>6. NoPenalty \in Penalty
  BY DEF Penalty, NoPenalty
<1>7. penalties' \in [Verifiers -> Penalty]
  BY <1>5, <1>6 DEF Conclude, BallotTypeOK
<1>8. BallotTypeOK'
  BY <1>4, <1>7 DEF BallotTypeOK, Conclude, ballotVars
<1>9. RewardTypeOK'
  BY <1>1 DEF RewardTypeOK, Conclude
<1>10. ClockTypeOK' /\ BondTypeOK'
  BY DEF ClockTypeOK, BondTypeOK, Conclude, bondVars
<1> QED
  BY <1>4, <1>8, <1>9, <1>10

\* A registration that only one website's record replaces.
LEMMA SiteUpdateType ==
  ASSUME TypeOK, NEW d \in DOMAIN websites, NEW w \in Website,
         websites' = [websites EXCEPT ![d] = w],
         failureStreak' \in [Domains -> Nat], primaryIndex' = primaryIndex
  PROVE  SiteTypeOK' /\ DOMAIN websites' = DOMAIN websites
BY DEF TypeOK, SiteTypeOK

\* A cooldown is a number of seconds.
LEMMA CooldownType ==
  ASSUME NEW count \in Nat \ {0}
  PROVE  CooldownSeconds(count) \in Int
<1>1. ASSUME NEW n \in Nat PROVE 2^n \in Int
  OBVIOUS
<1>2. count - 1 \in Nat
  OBVIOUS
<1>3. 2^(count - 1) \in Int
  BY <1>1, <1>2, Zenon
<1>4. ASSUME NEW x \in Int PROVE CooldownBase * x \in Int
  BY ParamsAssumption
<1> QED
  BY <1>3, <1>4, Zenon DEF CooldownSeconds

\* The records that a verdict leaves behind are of the right type.
LEMMA SiteRecordTypes ==
  ASSUME NEW w \in Website
  PROVE  /\ Confirmed(w) \in Website
         /\ \A status \in Status : [w EXCEPT !.status = status] \in Website
         /\ now \in Nat => WithCooldown(w) \in Website
<1>1. ASSUME NEW status \in Status, NEW until \in Int, NEW count \in Nat
      PROVE  [w EXCEPT !.status = status, !.cooldownUntil = until, !.cooldownCount = count]
                \in Website
  BY ZenonT(60) DEF Website
<1>2. Confirmed(w) \in Website
  <2>1. "VERIFIED" \in Status /\ 0 \in Int /\ 0 \in Nat
    BY DEF Status
  <2> QED
    BY <1>1, <2>1, Zenon DEF Confirmed
<1>3. ASSUME NEW status \in Status PROVE [w EXCEPT !.status = status] \in Website
  BY DEF Website
<1>4. ASSUME now \in Nat PROVE WithCooldown(w) \in Website
  <2>1. w.cooldownCount + 1 \in Nat \ {0}
    BY DEF Website
  <2>2. CooldownSeconds(w.cooldownCount + 1) \in Int
    BY <2>1, CooldownType
  <2>3. now + CooldownSeconds(w.cooldownCount + 1) \in Int
    BY <1>4, <2>2
  <2>4. ASSUME NEW until \in Int, NEW count \in Nat
        PROVE  [w EXCEPT !.cooldownUntil = until, !.cooldownCount = count] \in Website
    BY Zenon DEF Website
  <2> QED
    BY <2>1, <2>3, <2>4, Zenon DEF WithCooldown
<1> QED
  BY <1>2, <1>3, <1>4

\* refundLease keeps the types if the account covers every refund.
LEMMA RefundType ==
  ASSUME TypeOK, NEW refunded \in SUBSET DOMAIN leases, Refund(refunded),
         \A i \in refunded : escrow[i] >= leases[i].remaining
  PROVE  /\ leases' \in Seq(Lease) /\ DOMAIN leases' = DOMAIN leases
         /\ escrow' \in [DOMAIN leases -> Nat]
         /\ \A i \in DOMAIN leases : leases'[i].slot = leases[i].slot
<1>1. leases \in Seq(Lease) /\ escrow \in [DOMAIN leases -> Nat]
      /\ \A i \in DOMAIN leases : leases[i] \in Lease
  BY DEF TypeOK, MarketTypeOK
<1>2. \A i \in DOMAIN leases : /\ Closed(leases[i], "VIOLATED") \in Lease
                               /\ Closed(leases[i], "VIOLATED").slot = leases[i].slot
  BY <1>1, ZenonT(60) DEF Closed, Lease, LeaseStatus
<1>3. /\ leases' \in [DOMAIN leases -> Lease]
      /\ \A i \in DOMAIN leases : leases'[i].slot = leases[i].slot
  BY <1>1, <1>2 DEF Refund
<1>4. leases' \in Seq(Lease) /\ DOMAIN leases' = DOMAIN leases
  BY <1>1, <1>3, MappedSeq
<1>5. \A i \in refunded : escrow[i] - leases[i].remaining \in Nat
  <2> TAKE i \in refunded
  <2>1. escrow[i] \in Nat /\ leases[i].remaining \in Nat
    BY <1>1 DEF Lease
  <2> QED
    BY <2>1
<1>6. escrow' \in [DOMAIN leases -> Nat]
  BY <1>1, <1>5 DEF Refund
<1> QED
  BY <1>3, <1>4, <1>6

\* A stale candidate or a missing quorum leaves the website alone.
LEMMA NoSiteChangeType ==
  ASSUME TypeOK, NEW k \in DOMAIN assignments, IgnoreStaleCandidate(k) \/ NoQuorum(k)
  PROVE  TypeOK'
<1>1. Conclude(k, FALSE) /\ websites' = websites /\ failureStreak' = failureStreak
      /\ UNCHANGED marketVars
  BY Zenon DEF IgnoreStaleCandidate, NoQuorum
<1>2. ClockTypeOK' /\ BondTypeOK' /\ RoundTypeOK' /\ BallotTypeOK' /\ RewardTypeOK'
  BY <1>1, ConcludeType, ZenonT(60)
<1>3. SiteTypeOK' /\ MarketTypeOK'
  BY <1>1 DEF TypeOK, SiteTypeOK, MarketTypeOK, marketVars, Conclude
<1> QED
  BY <1>2, <1>3 DEF TypeOK

\* An accepted candidate is an owner, and the moved slots keep their domain.
LEMMA AcceptCandidateType ==
  ASSUME TypeOK, NEW k \in DOMAIN assignments, AcceptCandidate(k)
  PROVE  TypeOK'
<1> DEFINE d == k[2]
<1>1. d \in DOMAIN websites /\ d \in Domains /\ websites[d] \in Website
      /\ assignments[k] \in Assignment
  BY DEF TypeOK, RoundTypeOK, SiteTypeOK
<1>2. websites[d].pendingOwner \in Owners
  BY <1>1 DEF AcceptCandidate, CandidateMatches, Assignment
<1>3. Accepted(websites[d]) \in Website
  BY <1>2 DEF Accepted, Website, Status
<1>4. failureStreak' \in [Domains -> Nat]
  BY Zenon DEF AcceptCandidate, StreakCleared, TypeOK, SiteTypeOK
<1>5. SiteTypeOK' /\ DOMAIN websites' = DOMAIN websites
  <2>1. websites' = [websites EXCEPT ![d] = Accepted(websites[d])] /\ primaryIndex' = primaryIndex
    BY <1>1, ZenonT(60) DEF AcceptCandidate, Conclude
  <2> QED
    BY <1>1, <1>3, <1>4, <2>1, SiteUpdateType, ZenonT(60)
<1>6. ClockTypeOK' /\ BondTypeOK' /\ RoundTypeOK' /\ BallotTypeOK' /\ RewardTypeOK'
  BY <1>5, ConcludeType, Zenon DEF AcceptCandidate
<1>7. MarketTypeOK'
  <2> DEFINE moved == TransferSlots(d, websites[d].owner, websites[d].pendingOwner)
  <2>1. slots \in Seq(Slot) /\ \A s \in DOMAIN slots : slots[s] \in Slot
    BY DEF TypeOK, MarketTypeOK
  <2>2. \A s \in DOMAIN slots :
           LET t == [slots[s] EXCEPT !.publisher = websites[d].pendingOwner]
           IN  t \in Slot /\ t.domain = slots[s].domain
    BY <1>2, <2>1 DEF Slot
  <2>3. /\ moved \in [DOMAIN slots -> Slot]
        /\ \A s \in DOMAIN slots : moved[s].domain = slots[s].domain
    BY <2>1, <2>2, ZenonT(60) DEF TransferSlots
  <2>4. moved \in Seq(Slot) /\ DOMAIN moved = DOMAIN slots
    BY <2>1, <2>3, MappedSeq, ZenonT(60)
  <2>5. slots' = moved /\ leases' = leases /\ escrow' = escrow
    BY ZenonT(60) DEF AcceptCandidate
  <2> HIDE DEF moved, d
  <2>6. \A s \in DOMAIN slots' : slots'[s].domain \in DOMAIN websites'
    BY <1>5, <2>3, <2>4, <2>5 DEF TypeOK, MarketTypeOK
  <2> QED
    BY <2>4, <2>5, <2>6, ZenonT(60) DEF TypeOK, MarketTypeOK
<1> QED
  BY <1>5, <1>6, <1>7 DEF TypeOK

\* A rejected candidate is dropped.
LEMMA RejectCandidateType ==
  ASSUME TypeOK, NEW k \in DOMAIN assignments, RejectCandidate(k)
  PROVE  TypeOK'
<1> DEFINE d == k[2]
<1>1. d \in DOMAIN websites /\ websites[d] \in Website
  BY DEF TypeOK, RoundTypeOK, SiteTypeOK
<1>2. [websites[d] EXCEPT !.pendingOwner = NoOwner] \in Website
  BY <1>1 DEF Website
<1>3. SiteTypeOK' /\ DOMAIN websites' = DOMAIN websites
  <2>1. websites' = [websites EXCEPT ![d] = [websites[d] EXCEPT !.pendingOwner = NoOwner]]
        /\ primaryIndex' = primaryIndex /\ failureStreak' = failureStreak
    BY <1>1 DEF RejectCandidate, Conclude
  <2> QED
    BY <1>1, <1>2, <2>1, SiteUpdateType DEF TypeOK, SiteTypeOK
<1>4. ClockTypeOK' /\ BondTypeOK' /\ RoundTypeOK' /\ BallotTypeOK' /\ RewardTypeOK'
  BY <1>3, ConcludeType, Zenon DEF RejectCandidate
<1>5. MarketTypeOK'
  BY <1>3 DEF TypeOK, MarketTypeOK, RejectCandidate, marketVars
<1> QED
  BY <1>3, <1>4, <1>5 DEF TypeOK

\* A passed verification confirms the website.
LEMMA ConfirmPublisherType ==
  ASSUME TypeOK, NEW k \in DOMAIN assignments, ConfirmPublisher(k)
  PROVE  TypeOK'
<1> DEFINE d == k[2]
<1>1. d \in DOMAIN websites /\ websites[d] \in Website
  BY DEF TypeOK, RoundTypeOK, SiteTypeOK
<1>2. Confirmed(websites[d]) \in Website
  BY <1>1, SiteRecordTypes
<1>3. failureStreak' \in [Domains -> Nat]
  BY Zenon DEF ConfirmPublisher, StreakCleared, TypeOK, SiteTypeOK
<1>4. SiteTypeOK' /\ DOMAIN websites' = DOMAIN websites
  <2>1. websites' = [websites EXCEPT ![d] = Confirmed(websites[d])] /\ primaryIndex' = primaryIndex
    BY <1>1 DEF ConfirmPublisher, Conclude
  <2> QED
    BY <1>1, <1>2, <1>3, <2>1, SiteUpdateType, Zenon
<1>5. ClockTypeOK' /\ BondTypeOK' /\ RoundTypeOK' /\ BallotTypeOK' /\ RewardTypeOK'
  BY <1>4, ConcludeType, ZenonT(60) DEF ConfirmPublisher
<1>6. MarketTypeOK'
  BY <1>4 DEF TypeOK, MarketTypeOK, ConfirmPublisher, marketVars
<1> QED
  BY <1>4, <1>5, <1>6 DEF TypeOK

\* A failed verification changes the status, and refunds what escrow covers.
LEMMA FailPublisherType ==
  ASSUME TypeOK, NEW k \in DOMAIN assignments, FailPublisher(k)
  PROVE  TypeOK'
<1> DEFINE d == k[2]
           failed == [websites[d] EXCEPT !.status = StatusAfterFailure(@, StreakAfterFailure(d))]
           violated == ViolatedLeases(d)
<1>1. d \in DOMAIN websites /\ d \in Domains /\ websites[d] \in Website
  BY DEF TypeOK, RoundTypeOK, SiteTypeOK
<1>2. StreakAfterFailure(d) \in Nat
  BY <1>1 DEF StreakAfterFailure, TypeOK, SiteTypeOK
<1>3. failureStreak' \in [Domains -> Nat]
  BY <1>1, <1>2 DEF FailPublisher, TypeOK, SiteTypeOK
<1>4. failed \in Website
  <2>1. websites[d].status \in Status
    BY <1>1 DEF Website
  <2>2. StatusAfterFailure(websites[d].status, StreakAfterFailure(d)) \in Status
    BY <2>1 DEF StatusAfterFailure, Status
  <2> QED
    BY <1>1, <2>2, SiteRecordTypes
<1>5. (IF violated = {} THEN failed ELSE WithCooldown(failed)) \in Website
  BY <1>4, SiteRecordTypes DEF TypeOK, ClockTypeOK
<1>6. SiteTypeOK' /\ DOMAIN websites' = DOMAIN websites
  <2>1. websites' = [websites EXCEPT ![d] =
                        IF violated = {} THEN failed ELSE WithCooldown(failed)]
        /\ primaryIndex' = primaryIndex
    BY DEF FailPublisher, Conclude
  <2> QED
    BY <1>1, <1>3, <1>5, <2>1, SiteUpdateType
<1>7. ClockTypeOK' /\ BondTypeOK' /\ RoundTypeOK' /\ BallotTypeOK' /\ RewardTypeOK'
  BY <1>6, ConcludeType, ZenonT(60) DEF FailPublisher
<1>8. MarketTypeOK'
  <2>1. violated \in SUBSET DOMAIN leases
    BY DEF ViolatedLeases, RunningLeases
  <2>2. Refund(violated) /\ \A i \in violated : escrow[i] >= leases[i].remaining
    BY DEF FailPublisher
  <2>3. /\ leases' \in Seq(Lease) /\ DOMAIN leases' = DOMAIN leases
        /\ escrow' \in [DOMAIN leases -> Nat]
        /\ \A i \in DOMAIN leases : leases'[i].slot = leases[i].slot
    BY <2>1, <2>2, RefundType
  <2>4. slots' = slots
    BY DEF FailPublisher
  <2> QED
    BY <1>6, <2>3, <2>4 DEF TypeOK, MarketTypeOK
<1> QED
  BY <1>6, <1>7, <1>8 DEF TypeOK

\* All verdicts of finalizeAssignments.
LEMMA FinalizeAssignmentType ==
  ASSUME TypeOK, NEW k \in DOMAIN assignments, FinalizeAssignment(k)
  PROVE  TypeOK'
BY NoSiteChangeType, AcceptCandidateType, RejectCandidateType, ConfirmPublisherType,
   FailPublisherType DEF FinalizeAssignment

-----------------------------------------------------------------------------
(* settleFinalizedVerificationRounds and assignNewRound. *)

\* Settling a round takes one round out of a pool that has one.
LEMMA SettleRoundType ==
  ASSUME TypeOK, NEW r \in unsettled, SettleRound(r)
  PROVE  TypeOK'
<1> USE DEF TypeOK
<1>1. \A k \in DOMAIN assignments : assignments[k] \in Assignment
  BY DEF RoundTypeOK
<1>2. \A k \in DOMAIN assignments : [assignments[k] EXCEPT !.settled = TRUE] \in Assignment
  BY <1>1, ZenonT(60) DEF Assignment
<1>3. DOMAIN assignments' = DOMAIN assignments /\ assignments' \in [DOMAIN assignments -> Assignment]
  BY <1>1, <1>2 DEF SettleRound
<1>4. RoundTypeOK'
  BY <1>3 DEF RoundTypeOK, SettleRound, siteVars
<1>5. BallotTypeOK'
  BY <1>3 DEF BallotTypeOK, SettleRound, ballotVars
<1>6. RewardTypeOK'
  <2>1. pool' \in Nat /\ unsettled' \subseteq Nat
    BY DEF SettleRound, RewardsPayable, RewardTypeOK
  <2>2. ASSUME NEW k \in UnpaidKeys(r)
        PROVE  k \in Keys /\ websites[k[2]].owner \in Owners /\ Passes(k) \in SUBSET Verifiers
    <3>1. k \in Nat \X (DOMAIN websites) /\ DOMAIN websites \subseteq Domains
      BY DEF UnpaidKeys, RoundKeys, RoundTypeOK, SiteTypeOK
    <3>2. k \in Keys /\ k[2] \in DOMAIN websites
      BY <3>1 DEF Keys
    <3>3. websites[k[2]] \in Website
      BY <3>2, ZenonT(60) DEF SiteTypeOK
    <3> QED
      BY <3>2, <3>3 DEF Website, Passes, Submitters
  <2>3. RoundPayments(r) \subseteq [key : Keys, owner : Owners, verifiers : SUBSET Verifiers, at : Nat]
    BY <2>2 DEF RoundPayments, ClockTypeOK
  <2> QED
    BY <2>1, <2>3 DEF SettleRound, RewardTypeOK
<1>7. ClockTypeOK' /\ BondTypeOK' /\ SiteTypeOK' /\ MarketTypeOK'
  BY DEF SettleRound, ClockTypeOK, BondTypeOK, SiteTypeOK, MarketTypeOK, siteVars, bondVars, marketVars
<1> QED
  BY <1>4, <1>5, <1>6, <1>7

\* A new round has assignments for registered websites only.
LEMMA AssignNewRoundType ==
  ASSUME TypeOK,
         NEW offsets \in [RoundPublishers(NextRoundStart(now)) -> 0..(DelayMax - 1)],
         NEW selected \in [RoundPublishers(NextRoundStart(now)) -> Selections],
         AssignNewRound(offsets, selected)
  PROVE  TypeOK'
<1> DEFINE r == NextRoundStart(now)
           created == {r} \X RoundPublishers(r)
<1>1. now \in Nat /\ r \in Nat
  BY NextRoundStartAfter DEF TypeOK, ClockTypeOK
<1>2. EligibleVerifiers \subseteq Verifiers
  BY DEF EligibleVerifiers, TypeOK, BondTypeOK
<1>3. RoundPublishers(r) \subseteq DOMAIN websites
  BY ZenonT(60) DEF RoundPublishers
<1>4. ASSUME NEW d \in RoundPublishers(r)
      PROVE  NewAssignment(d, r + offsets[d], selected[d]) \in Assignment
  <2>1. websites[d] \in Website
    BY <1>3 DEF TypeOK, SiteTypeOK
  <2>2. (IF websites[d].pendingOwner # NoOwner THEN websites[d].pendingOwner ELSE websites[d].owner)
           \in Owners
    BY <2>1 DEF Website
  <2>3. selected[d] \in SUBSET Verifiers
    BY <1>2 DEF Selections
  <2>4. offsets[d] \in Nat
    OBVIOUS
  <2>5. r + offsets[d] \in Nat /\ r + offsets[d] + SubmissionWindow \in Nat
    BY <1>1, <2>4, ParamsAssumption, SMTT(60)
  <2> QED
    BY <2>2, <2>3, <2>5 DEF NewAssignment, Assignment
<1>5. /\ DOMAIN assignments' = DOMAIN assignments \cup created
      /\ assignments' \in [DOMAIN assignments \cup created -> Assignment]
  <2>1. assignments' = [k \in DOMAIN assignments \cup created |->
                          IF k \in DOMAIN assignments
                          THEN assignments[k]
                          ELSE NewAssignment(k[2], r + offsets[k[2]], selected[k[2]])]
    BY DEF AssignNewRound
  <2>2. \A k \in created : k[2] \in RoundPublishers(r)
    OBVIOUS
  <2>3. \A k \in DOMAIN assignments : assignments[k] \in Assignment
    BY DEF TypeOK, RoundTypeOK
  <2> HIDE DEF r, created
  <2> QED
    BY <1>4, <2>1, <2>2, <2>3, ZenonT(60)
<1>6. created \subseteq Nat \X (DOMAIN websites)
  BY <1>1, <1>3
<1>7. /\ DOMAIN roundMeta' \subseteq Nat
      /\ roundMeta' \in [DOMAIN roundMeta' -> RoundMeta]
  <2>1. [createdAt |-> now, eligible |-> EligibleVerifiers] \in RoundMeta
    BY <1>1, <1>2, ZenonT(60) DEF RoundMeta
  <2>2. roundMeta' = IF r \in DOMAIN roundMeta THEN roundMeta
                     ELSE Store(roundMeta, r, [createdAt |-> now, eligible |-> EligibleVerifiers])
    BY ZenonT(60) DEF AssignNewRound
  <2> QED
    BY <1>1, <2>1, <2>2 DEF TypeOK, RoundTypeOK, Store
<1>8. lastRoundStart' \in Nat /\ beacons' = beacons /\ websites' = websites
  BY <1>1 DEF AssignNewRound, siteVars
<1>9. RoundTypeOK'
  BY <1>5, <1>6, <1>7, <1>8, ZenonT(60) DEF TypeOK, RoundTypeOK
<1>10. BallotTypeOK'
  BY <1>5, ZenonT(60) DEF TypeOK, BallotTypeOK, AssignNewRound, ballotVars
<1>11. RewardTypeOK'
  BY <1>1, ZenonT(60) DEF TypeOK, RewardTypeOK, AssignNewRound
<1>12. ClockTypeOK' /\ BondTypeOK' /\ SiteTypeOK' /\ MarketTypeOK'
  BY DEF TypeOK, AssignNewRound, ClockTypeOK, Phases, BondTypeOK, SiteTypeOK, MarketTypeOK,
         siteVars, bondVars, marketVars
<1> QED
  BY <1>9, <1>10, <1>11, <1>12 DEF TypeOK

-----------------------------------------------------------------------------
\* Every step of a block keeps the types.
LEMMA NextType == TypeOK /\ [Next]_vars => TypeOK'
<1> SUFFICES ASSUME TypeOK, [Next]_vars PROVE TypeOK'
  OBVIOUS
<1>1. CASE UNCHANGED vars
  BY <1>1 , ClockStepType, ZenonT(60) DEF vars, StoresUnchanged, TypeOK, ClockTypeOK
<1>2. CASE Transaction
  <2>1. RequiredDrandRound(NextRoundStart(now)) \in Int
    BY NextRoundStartAfter, ScheduleAssumption DEF RequiredDrandRound, TypeOK, ClockTypeOK
  <2>2. \A lead \in LeaseLeads : now + lead \in Nat
    BY ParamsAssumption DEF TypeOK, ClockTypeOK
  <2>3. LeaseDurations \subseteq Nat
    BY ParamsAssumption
  <2> QED
    BY <1>2, <2>1, <2>2, <2>3, RegisterWebsiteType, RequestReregistrationType, CreateSlotType,
       SubmitVerificationCommitType, RevealVerificationType, SubmitDrandBeaconType,
       UpdateSlotStatusType, LeaseSlotType, BondTxType, ZenonT(60) DEF Transaction
<1>3. CASE EndBlock
  BY <1>3, PhaseStepType, FinalizeAssignmentType, SettleRoundType, SettleLeaseType,
     AssignNewRoundType DEF EndBlock
<1>4. CASE \E gap \in BlockGaps : NextBlock(now + gap)
  BY <1>4, NextBlockType
<1>5. CASE Stop
  BY <1>5, PhaseStepType
<1> QED
  BY <1>1, <1>2, <1>3, <1>4, <1>5 DEF Next

\* Type correctness: in every reachable state every store has its type and every
\* stored reference resolves, whatever the parameters, domains and verifiers.
THEOREM TypeCorrect == SafetySpec => []TypeOK
<1>1. Init => TypeOK
  BY InitType
<1>2. TypeOK /\ [Next]_vars => TypeOK'
  BY NextType
<1> QED
  BY <1>1, <1>2, PTL DEF SafetySpec
=============================================================================
