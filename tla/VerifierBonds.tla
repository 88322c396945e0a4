--------------------------- MODULE VerifierBonds ---------------------------
(***************************************************************************)
(* Verifier bonding: BondCoins and UnbondCoins of x/verifiers.  The module *)
(* account is kept split by depositor: deposits[v] is the part of it that  *)
(* v's transfers put in and has not got back.  A payment to v must be      *)
(* covered by v's own part, which is stronger than the bank's check of the *)
(* total.                                                                  *)
(***************************************************************************)
EXTENDS Integers

CONSTANTS
    Verifiers,     \* addresses that may bond
    MinBond,       \* Params.MinBond
    Wallet,        \* coins of an address in the bank's genesis state
    BondAmounts,   \* amounts carried by MsgBond and MsgUnbond
    GenesisBonds,  \* verifiers of the genesis state, with their bond
    GenesisDeposits   \* the module account in the bank's genesis state

ASSUME BondAssumption ==
    /\ MinBond \in Nat
    /\ Wallet \in Nat
    /\ BondAmounts \subseteq Nat
    /\ DOMAIN GenesisBonds \subseteq Verifiers
    /\ GenesisBonds \in [DOMAIN GenesisBonds -> Nat]
    /\ \A v \in DOMAIN GenesisBonds : GenesisBonds[v] >= MinBond
    /\ GenesisDeposits \in [Verifiers -> Nat]

\* InitGenesis stores the records of the verifiers and does not look at the bank.
\* That a genesis file also gives the module account the coins they stand for is
\* an assumption on that file.
ASSUME GenesisFunded ==
    \A v \in Verifiers :
        GenesisDeposits[v] = IF v \in DOMAIN GenesisBonds THEN GenesisBonds[v] ELSE 0

VARIABLES
    bonds,      \* the verifier store: bonded amount of every verifier record
    wallets,    \* bank balance of every address
    deposits    \* module account, split by depositor

bondVars == <<bonds, wallets, deposits>>

BondOf(v) == IF v \in DOMAIN bonds THEN bonds[v] ELSE 0

BondInit ==
    /\ bonds = GenesisBonds
    /\ wallets = [v \in Verifiers |-> Wallet]
    /\ deposits = GenesisDeposits

\* Wrong variant of Bond: the transfer is not checked against the balance.
BondUnfunded(v, amount) ==
    /\ amount > 0
    /\ BondOf(v) + amount >= MinBond
    /\ wallets' = [wallets EXCEPT ![v] = @ - amount]
    /\ deposits' = [deposits EXCEPT ![v] = @ + amount]
    /\ bonds' = [u \in DOMAIN bonds \cup {v} |->
                    IF u = v THEN BondOf(v) + amount ELSE bonds[u]]

\* SetVerifier refuses a record below the minimum bond, so a first bond that
\* is too small fails as a whole.
Bond(v, amount) ==
    /\ amount > 0
    /\ wallets[v] >= amount
    /\ BondOf(v) + amount >= MinBond
    /\ wallets' = [wallets EXCEPT ![v] = @ - amount]
    /\ deposits' = [deposits EXCEPT ![v] = @ + amount]
    /\ bonds' = [u \in DOMAIN bonds \cup {v} |->
                    IF u = v THEN BondOf(v) + amount ELSE bonds[u]]

\* Wrong variants of BondsAfterUnbond: the record is not saved, or it is deleted
\* at the minimum already.
BondsNotSaved(v, rest) == bonds
DeletedAtMinimum(v, rest) ==
    IF rest <= MinBond
    THEN [u \in DOMAIN bonds \ {v} |-> bonds[u]]
    ELSE [bonds EXCEPT ![v] = rest]

\* What is left of the store when v's bond drops to rest: below the minimum
\* the record is deleted.
BondsAfterUnbond(v, rest) ==
    IF rest < MinBond
    THEN [u \in DOMAIN bonds \ {v} |-> bonds[u]]
    ELSE [bonds EXCEPT ![v] = rest]

Unbond(v, amount) ==
    /\ amount > 0
    /\ v \in DOMAIN bonds
    /\ amount <= bonds[v]
    /\ amount <= deposits[v]
    /\ wallets' = [wallets EXCEPT ![v] = @ + amount]
    /\ deposits' = [deposits EXCEPT ![v] = @ - amount]
    /\ bonds' = BondsAfterUnbond(v, bonds[v] - amount)

BondNext ==
    \E v \in Verifiers, amount \in BondAmounts : Bond(v, amount) \/ Unbond(v, amount)

BondSpec == BondInit /\ [][BondNext]_bondVars

\* The types of the store and of the balances.
BondTypeOK ==
    /\ DOMAIN bonds \subseteq Verifiers
    /\ bonds \in [DOMAIN bonds -> Nat]
    /\ wallets \in [Verifiers -> Nat]
    /\ deposits \in [Verifiers -> Nat]

\* Every bond is covered by its verifier's own transfers to the module account,
\* and coins are neither made nor lost: a call of UnbondCoins that passes the
\* check of the bonded amount can always be paid.
BondsCovered ==
    \A v \in Verifiers :
        /\ BondOf(v) <= deposits[v]
        /\ wallets[v] + deposits[v] = Wallet + GenesisDeposits[v]

\* UnbondCoins releases escrowed coins back to the verifier: whatever an address
\* has put into the module account it can still get back with MsgUnbond.
NothingStranded ==
    \A v \in Verifiers : deposits[v] = BondOf(v)
=============================================================================
