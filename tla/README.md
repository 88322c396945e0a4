# Content Grid Chain: TLA+ models and proofs

A verification project for three parts of the repository:

* the state machine of the chain: the publisher registry with its verification rounds,
  rewards and slot market (`x/registry`), the verifier bonds (`x/verifiers`), and the block
  cycle that drives them;
* the verifier daemon `offchain/verifierd`, with crashes and an unreliable mempool;
* the wallet page of the web site, `cmd/congrid-site/static/wallet.js`, with the Keplr
  extension, the node and the site's badge check around it.

Models are checked with TLC on small instances; the main safety properties are proved with
TLAPS for all parameters.

## 1. The system

**On chain** (a Cosmos SDK application, Go):

| part | what it does |
|---|---|
| `x/registry` registration | websites with an owner and a status; a candidate owner for re-registration; an index of primary domains |
| `x/registry` rounds | each interval, every publisher is assigned verifiers drawn by a seed; they commit to a vote, reveal it, and a quorum decides in EndBlock |
| `x/registry` drand | the seed of a round needs one particular drand beacon, submitted by anybody; without it the round is skipped |
| `x/registry` rewards | a completely finalized round is paid out of the emission pool, the remainder burned |
| `x/registry` slots | verified publishers offer slots; leases are prepaid into escrow, paid out at the end, refunded when the publisher fails |
| `x/registry` similar-site settlement | statistics over the votes that scale a publisher's reward |
| `x/verifiers` | bonding and unbonding; a verifier record entitles to be drawn |
| `x/tokenomics` | the emission pool and its schedule |
| `x/nodes` | validates its genesis; its in-memory table of node records is not used by the application |
| `app` | wiring, fees, upgrades, IBC |

**Off chain**: `offchain/verifierd` (the daemon that checks homepages, commits and
reveals, and relays drand), `offchain/registry` (the homepage check), `offchain/indexerd`,
`offchain/dht`, `offchain/executor`, `offchain/chromad`, the web site `cmd/congrid-site`
and the command lines `cmd/content-grid-d` and `cmd/tokenomics`.

How they interact: transactions of a block change registrations, ballots, beacons, slots,
leases and bonds in any order; then EndBlock runs `finalizeAssignments`,
`settleFinalizedVerificationRounds`, `settleLeases` and `assignNewRound`, in this order,
over the same stores.  An error of EndBlock halts the chain.  The verdict on a publisher
moves its ownership and slots, breaks its leases and decides its rewards; bonds and
penalties decide who votes.  A verifierd polls the chain for its assignments, sends commits,
reveals and beacons through the command line of the node, and keeps each vote in a file
between commit and reveal.  The wallet page builds the messages for registration, slots and
leases from forms, has them signed by Keplr and broadcasts them.

## 2. Modules

| module | models | source |
|---|---|---|
| `RoundSchedule` | round boundaries, the beacon a round needs | `drand_schedule.go` |
| `VerifierBonds` | bonding and unbonding | `x/verifiers` |
| `RegistryState` | parameters, stores and types of the registry | `types.go`, `verification.go`, `slots.go`, `verification_keeper.go` |
| `SlotMarket` | slot and lease messages, lease settlement, cooldowns | `msg_server.go`, `slot_keeper.go`, `lease_settlement.go` |
| `VerificationRounds` | registration, beacons, commit and reveal, verdicts, assignment | `keeper.go`, `msg_server.go`, `verification_rounds.go` |
| `RoundRewards` | settlement of finalized rounds | `verification_rounds.go` |
| `Registry` | genesis, the block cycle, the specification and its properties | `module.go`, `verification_rounds.go` |
| `Verifierd` | a daemon, its files, the mempool and the chain's answers | `offchain/verifierd/agent.go`, `pending.go`, `drand.go`, `main.go`; `msg_server.go` |
| `WalletMessages` | the page's protobuf codecs, and the chain's schema | `wallet.js`, `tx.proto` |
| `WalletForms` | parsing and checking of the forms, the messages built from them | `wallet.js` |
| `WalletPage` | the page's handlers, Keplr, the badge check, node and chain | `wallet.js`, `publisher_register.go` |
| `TxSubmission` | the abstract specification of a page that submits transactions | (a promise, not code) |
| `MCRegistry`, `MCVerifierBonds`, `MCVerifierd`, `MCWalletPage` | instances for TLC | |
| `RegistryTypes` (bonds and types), `RegistrySafety`, `RoundSafety`, `RoundAudit` | theorems about the chain | |
| `VerifierdProofs` | theorems about the daemon | |
| `WalletFormsProofs`, `WalletPageProofs` | theorems about the codecs and numbers of the page, and about its handlers | |

`WalletPage` extends `WalletForms`, which extends `WalletMessages`, and instantiates
`TxSubmission`; `Verifierd` extends `RoundSchedule` only.  In the model of the chain each module extends the
one before it: `RoundSchedule`, `VerifierBonds` -> `RegistryState` -> `SlotMarket` -> `VerificationRounds` -> `RoundRewards` -> `Registry`.
`PROJECT.json` maps every definition to source lines.

### How state and actions correspond to the code: the chain

* A key-value store is a function whose domain is the set of keys present
  (`websites`, `assignments`, `roundMeta`, `commits`, `submissions`, `bonds`), a set
  (`primaryIndex`, `beacons`, `unsettled`) or, for slots and leases, which are never
  deleted, a sequence in creation order.
* A message handler is one action; its error returns are missing conjuncts of the guard,
  and a failed transaction changes nothing.
* EndBlock is not one action: each loop iteration is one, in the order of the store's
  keys, and `phase` makes the four loops run to the end in their order, with no
  transaction in between.  So the model shows states between two iterations, and a
  property that holds there holds after the block as well.
* `EndBlockFails` is the error path of all four loops and leads to `phase = "halted"`.
* `SubmitDrandBeacon` is enabled from the beacon's time on: the handler does not look at the
  clock, but the signature that it checks does not exist earlier.
* Time is the block time in seconds, counted from some round boundary.  `NextBlock` advances it by
  any member of `BlockGaps`; a chain that stalls is a large gap.

### Abstractions

* A commit hash is the vote it commits to.  The hash binds the vote, and no handler looks
  at it before the reveal; a verifier whose hash does not match cannot reveal.
* The round seed is a hash: start offsets and selected verifiers are any values that the
  computation from it can produce (an offset below the bound, a selection of the right size).
* A module account is split by depositor (`deposits`) or by lease (`escrow`), and a payment
  must be covered by its own part.  This is stronger than the bank's check of the total,
  and `BondsCovered` and `EscrowBacked` show that it never decides.
* One second of a lease costs one coin.  Rates, units and duration bounds are what
  `LeaseDurations` admits.
* The emission pool counts rounds: settling a round takes the same amount out of it
  whatever is paid, because the remainder is burned.  `payments` records who was paid for
  what and is not state of the code.
* A genesis state holds any websites that `Validate` admits, of any status, with the one
  restriction that a VERIFIED one has no cooldown on record (`GenesisAssumption`): every exported
  state is of this kind by `VerifiedIsClean`.  Genesis bonds are assumed to
  come with as many coins in the module account (`GenesisFunded`); the code does not check this.
* Left out: descriptive fields, events, referrers, similar-site statistics, the height and
  anchor fields, legacy assignments without an owner.

### The daemon

* `poll` is where `PollOnce` stands, `job` where the goroutine of each assignment (and the
  relay, which runs inside the poll loop) stands, `mu` who holds `txMu`, `file` the directory
  of pending reveals.  A goroutine's code between two waits (for the clock, the mutex, a
  command, a file) is one action.
* `PollOnce` reads the clock once and then walks through the answer of its query while
  goroutines go on; `QueryAssignments` therefore takes a snapshot (`left`, `late`), and
  `ScanEntry` and `Launch` work from it.
* `Broadcast`, `ExecFails` and `ExecLost` are the outcomes of the command that sends a
  transaction, `WaitAnswered` and `WaitFails` those of `wait-tx`.  An error belongs to one of
  the classes that the code finds by its text: already recorded, retriable, any other.
* `Execute` runs a transaction in a block whose time may be up to `MaxLag` behind the daemon's
  clock; `CommitAnswer` and `RevealAnswer` are the checks of the chain's handlers, in their
  order, with `Finalize` for the assignments that the chain has closed.  A beacon is accepted as
  long as it is the one that `DrandRequirement` names for the next round.  `Drop` loses a transaction.  `Crash` loses all memory and keeps the files.
* A vote is its nonce: the hash that is committed binds both, and the vote's content never
  changes after the nonce is drawn.  Transactions with the same content are one.
* Which entries pass `validateAssignmentDeterministic`, and the rank of this daemon among the
  relays, are results of hashes: an entry may be skipped, a rank is any of `Ranks`.  Gas is a
  number, as the default configuration has it, so that sending does not simulate a transaction.

### The wallet page

* A click or a submit starts a handler (`Activate`); `task[h].pc` is the `await` at which it
  stands, and everything up to the next `await` is one action.  Handlers interleave there,
  and the user may select another account in Keplr or reload the page at any time.
* `state`, `deps` and `imports` are the module's variables: signer, address and client, and
  `walletDepsPromise`.  `connects` counts how often the address was written and is not state
  of the code; it tells whether a handler's address was replaced while it waited.
* `ReadForm` is the part of a handler that reads `FormData`, parses and checks.  Texts are
  members of small sets; `Trimmed`, `Lowered`, `Decimal` and `DayOf` say what the browser's
  functions make of them.  `Number` rounds to `MantissaBits` bits, ties to even, in halves, so
  that fractions, negative numbers, empty texts and rounding are all there.
* A message is encoded by the page's field tables and decoded by those of `tx.proto`.  Of
  several entries with the number and wire type of a field the decoder takes the last.
* After a broadcast a handler waits for the result (`poll`).  A lost answer, a failed query and
  the minute's timeout all throw in `signAndBroadcast`, and the handler's `catch` shows the error
  as it shows a refusal: `PollGivesUp` ends with the notice `failure`, whatever the chain does
  with the transaction.
* A connect button also writes the address into form fields; a form is read with any contents,
  so this needs no state.  The page's clock and the chain's are one.
* `Execute` is the chain: any transaction may fail, and a lease whose start is before its
  block always does.

## 3. Runs

| run | instance | checks |
|---|---|---|
| `ballots` | two domains, two verifiers, one round with offsets 0 and 1 | `TypeOK`, `VerdictJustified`, `PaidOnce`, `CommitsPrecedeReveals` |
| `transfer` | two domains sharing a primary domain, two owners, one verifier, up to four rounds, gaps 1 and 4 | `VerifiedIsClean`, `FinalizedInRoundOrder`, `PrimaryUnique`, `OwnerChangeVerified` |
| `market` | one domain, two owners, one slot, two leases of 8 s booked 0 or 2 s ahead, three rounds | `SlotsFollowOwner`, `NoOverlappingLeases`, `EscrowBacked`, `FailureClosesLeases` |
| `beacons` | two verifiers that bond and unbond with a minimum bond of 1, suspension after one penalty, drand enabled | `AuditableDraw`, `BondTypeOK`, `BondsCovered`, `NothingStranded` |
| `liveness` | a pool for one round, leases of 1 s, gaps 1 and 2 | `OnlyExhaustionHalts`, `RoundsSettle`, `LeasesClose` |
| `wallet` | two handlers, two accounts, five configurations of the page, numbers of 4 bits | `PageTypeOK`, `OneImport`, `ChainSeesForm`, `RegisteredWalletVerified`, `BegunDayAccepted`, `SubmissionKept`, `HandlersSettle` |
| `verifierd` | one assignment, the beacons of the rounds within its time, a commit window shorter than, equal to and longer than the chain's, one crash | `DaemonTypeOK`, `CommittedVoteKept`, `OneVote`, `RevealAfterCommits`, `JobsEnd`, `PollReturns` |
| `bonds_stranded` | minimum bond 2 | violates `NothingStranded` |
| `rewarded_owner` | re-registration accepted between assignment and verdict | violates `RewardedOwnerVerified` |
| `genesis_index` | a genesis website and a second domain with its primary domain | violates `PrimaryUnique` |
| `late_relay` | the relay alone, one unit of time a minute: offset and stagger 1, largest delay 3, ranks 2 and 3 | violates `FallbackHadItsTurn` |
| `threshold_revokes` | a threshold of two and a publisher that fails | violates `ThresholdRevokes` |

What the properties say:

* **Verdicts** (`VerdictJustified`): a stored verdict is what the stored reveals say, for
  ever; ties and missing quorums do not pass.
* **Secrecy** (`CommitsPrecedeReveals`): no commit on an assignment after its first reveal.
* **Order** (`FinalizedInRoundOrder`): verdicts on a domain are applied round by round, even
  if the chain stalls and several rounds are due in one block.
* **Ownership** (`OwnerChangeVerified`): a domain moves only to the candidate that a majority
  of the verifiers assigned to check it voted for.  A candidate that was replaced in the
  meantime is not installed by an older vote.
* **Status** (`VerifiedIsClean`): every path into VERIFIED clears streak and cooldown.  Because the first failure already leaves VERIFIED and failures in PENDING do not
  revoke, a threshold of two or more is never reached by a verified publisher.
* **Draw** (`AuditableDraw`): the verifiers of a round come from the recorded eligible set,
  as many as possible up to the minimum count, drawn before the round with its beacon.
* **Rewards** (`PaidOnce`, `RoundsSettle`): a round is paid once, completely, and eventually.
* **Market** (`SlotsFollowOwner`, `NoOverlappingLeases`, `EscrowBacked`,
  `FailureClosesLeases`, `LeasesClose`).
* **Availability** (`OnlyExhaustionHalts`): of all errors EndBlock can return, only an
  exhausted emission pool is reachable.
* **The daemon's vote** (`CommittedVoteKept`, `OneVote`): a vote whose commit is on the chain
  is on disk until its deadline, and never is there a second vote on the same assignment, in
  the file, in the mempool or on the chain, whatever crashed or was lost, late or repeated.
  The one exception is in the code: an error of a reveal that is not on its list of retriable
  errors deletes the file (`agent.go:285`), a refused connection among them.
* **Secrecy, seen from the daemon** (`RevealAfterCommits`): no reveal is broadcast while a
  block could still take a commit, given the six seconds of slack and a window that is not
  configured shorter than the chain's.
* **Progress of the daemon** (`JobsEnd`, `PollReturns`): no goroutine stays in flight for ever and
  the poll loop, which waits for `txMu` when it relays a beacon, comes round again.
* **What the page sends** (`ChainSeesForm`, `RegisteredWalletVerified`, `BegunDayAccepted`): the
  chain decodes what stood in the form, rates and durations included as long as a JavaScript
  number holds them exactly (up to 2^53); the owner of a registration is the wallet whose badge
  was checked, unless a connection in another handler replaced the address during the check
  (`wallet.js:650` reads it again); a lease for today is not refused for its start date within
  the five minutes that the page adds.
* **What the page says** (`SubmissionKept`): the page implements `TxSubmission`: a submit sends at
  most one transaction, none once its handler has shown a notice, and a hash is announced only of
  an executed transaction.  An error says less: one that `signAndBroadcast` throws after the
  node has taken the transaction looks like any other, and the transaction may be executed.  And a
  reload, which every success triggers after 1.5 seconds, ends the other handlers without a
  notice; `SubmissionKept` and `HandlersSettle` allow it because the page does it.
* **The page's concurrency** (`OneImport`, `HandlersSettle`).

### Bounds

`MaxTime`, `MaxSlots` and `MaxLeases` bound the runs; the sets of domains, owners and
verifiers are small.  `ballots` has two verifiers because that is where quorum and majority
meet their edges (one vote is a quorum of two, and a tie is possible) and two domains because
partial settlement needs two assignments of one round.  `transfer` runs long enough for a
failure, a re-registration and a confirmation in any order, with stalls longer than a round.
`market` needs three rounds and a lease that outlives them.  The first round accepts a new
owner; the second was assigned before that verdict, still as a check of the candidate; the third
is the first whose failure costs the new owner the verification while a lease of the old owner
is running.

What the bounds leave out.  Blocks are one second apart except in `transfer`, `market` and
`liveness`, so only these have blocks that pass over a window boundary.  In `transfer` windows are shorter
than the interval: several rounds of a domain become due together because the chain stalls, not
because their windows overlap; overlapping windows are covered by the theorem `VerdictsInOrder`.
No run has more than two verifiers, and `beacons` is the only one in which they bond and unbond.
`payments` is a set: a second payment to the same receiver for the same assignment in the block
of the first would not show in it, and is excluded by `SettleRound` taking the round off the list.

`wallet` has two handlers because every race of the page is between two; its texts are one or
two for each branch of a check.  With four bits, 16 is exact and 17 is rounded, as 2^53 and
2^53 + 1 are.  A tick is half a second, so that `Math.floor` has something to cut, and the
times 3 and 5 lie within a day that has begun, and where the grace period of that form ends; at
5 the dates of both forms are past.
`MaxHandlers` bounds clicks and submits.

`verifierd` has one assignment, because assignments only share the mutex, the poll loop and
the relay, and the relay is there as a second user of the mutex; the theorems have any number.
Time goes one step past the deadline.  `MaxNonces` is two: a second nonce would be the error
that `OneVote` looks for.  One crash suffices to lose the memory at any point; `MaxCrashes` and
`MaxTime` have any value in the theorems.  A window of 6 reaches the
deadline, which `runAssignment` refuses.

### Fairness

For the chain, `Fairness` is weak fairness of EndBlock and of the next block, and nothing else.  Consensus
produces blocks and every block runs EndBlock to its end; no user is obliged to send anything.
`WithinHorizon` restricts the liveness properties to windows that end early enough for a later
block to exist within `MaxTime`, and `HaltedBy` excuses only a halt that happens no later than
the block that would have done the work.

For the daemon: goroutines and the poll loop run, commands return, the clock advances.  Of
`wait-tx` the code itself sees to it (`agent.go:563`, with `tx_inclusion_timeout_seconds`).  That
the command which sends a transaction returns is an assumption: `agent.go:407` gives it no time
limit, and while it runs it holds `txMu`.  `TakeLock` is strongly fair because Go's
mutex hands over to a waiter that has starved.  Nothing is assumed of the chain: commits, reveals
and beacons may all be lost.

For the page: an import or a request to the node or the site is answered or fails, and timers
of the browser fire.  Nothing is assumed of the user, of Keplr or of the chain.

### Disagreements with the documentation

Five runs show states that a statement of the documentation excludes; `PROJECT.json` quotes
them.

1. `rewarded_owner`: a normal assignment of the old owner that is finalized after a
   re-registration pays the new owner for a verification of the old owner's badge.
2. `genesis_index`: genesis websites are not in the primary-domain index.
3. `bonds_stranded`: with a minimum bond above one coin, unbonding to a positive rest below
   it strands the rest.  The default is one.

4. `late_relay`: the chain wants a beacon for the offset of 60 seconds and at most one drand
   period more, and fallbacks wait 60 seconds for each rank.  From rank two on it is never a
   fallback's turn in time, so that the relays of ranks zero and one decide whether the round is
   held.  The delay of 180 seconds at which the fallbacks are to race is out of reach.
5. `threshold_revokes`: only a VERIFIED publisher can be revoked, its first failure makes it
   PENDING, and a pass clears the streak.  With a threshold of two or more, and three is the
   default, failures never revoke anybody; `PublisherStatus` proves it for all parameters.
   `whitepaper.md:110` describes the transition as the code has it and line 208 lists a
   consistent one as future work.

One more remark that needs no run: `docs/marketplace.md:74-76` describes re-registration rules
that `README.md:48` and the code have replaced.

## 4. Theorems

All proofs hold for every set of domains, owners and lessees, every finite set of verifiers and
every number of slots, leases and rounds; for every number of assignments, nonces, polls and
crashes; and for every number of handlers and accounts, every form and every configuration.

Those about the chain assume `ScheduleAssumption`, `ParamsAssumption`, `BondAssumption`,
`GenesisFunded` and `GenesisAssumption`:

* what `PublisherParams.Validate` (`types.go:344`) enforces, for the effective values: a
  threshold or a drand parameter of zero stands for its default.  `Validate` bounds the drand
  offset only if drand is enabled; nothing reads the offset otherwise;
* a genesis no earlier than the drand chain's genesis plus the offset.  This is not checked by
  the code; before that time assignment returns an error;
* genesis bonds of at least the minimum, funded, and genesis websites as described in section 2;
* **parameters do not change.**  No message changes them, but the upgrade handlers of
  `app/upgrades.go` call `SetParams`.  The theorems hold between two upgrades, not across one.

| theorem | statement |
|---|---|
| `BondsAlwaysCovered` | `BondSpec => [](BondTypeOK /\ BondsCovered)` |
| `NothingEverStranded` | with `MinBond <= 1`: `BondSpec => []NothingStranded` |
| `TypeCorrect` | `SafetySpec => []TypeOK` |
| `PublisherStatus` | `SafetySpec => [](VerifiedIsClean /\ NeverRevoked)`: with a threshold of two or more only those revoked at genesis are REVOKED |
| `OwnershipMovesByVote` | `SafetySpec => OwnerChangeVerified` |
| `PrimariesUnique` | without genesis websites: `SafetySpec => []PrimaryUnique` |
| `MarketSafe` | `SafetySpec => [](SlotsFollowOwner /\ EscrowBacked /\ NoOverlappingLeases)` |
| `FailureBreaksLeases` | `SafetySpec => FailureClosesLeases` |
| `VerdictsInOrder` | `SafetySpec => []FinalizedInRoundOrder` |
| `HaltsOnlyWhenExhausted` | `SafetySpec => []OnlyExhaustionHalts` |
| `SecretBallot` | `SafetySpec => CommitsPrecedeReveals` |
| `DrawsAuditable` | `SafetySpec => []AuditableDraw` |
| `VerdictsJustified` | `SafetySpec => []VerdictJustified` |
| `RoundsPaidOnce` | `SafetySpec => []PaidOnce` |
| `MutexExcludes` | `Verifierd`: `SafetySpec => []DaemonTypeOK` |
| `CommittedVoteSurvives` | `SafetySpec => []CommittedVoteKept` |
| `VotesOnce` | `SafetySpec => []OneVote` |
| `RevealsWait` | `SafetySpec => []RevealAfterCommits` |
| `PageImplementsSubmission` | `WalletPage`: `SafetySpec => SubmissionKept`, the refinement |
| `BundleImportedOnce` | `SafetySpec => []OneImport` |
| `PageTypesKept` | `SafetySpec => []PageTypeOK` |
| `CodecRoundTrip` | every complete message is decoded by the chain, field by field, as it was encoded by the page |
| `ChainReadsForm` | `SafetySpec => []ChainSeesForm` |
| `BadgeBeforeRegistration` | `SafetySpec => []RegisteredWalletVerified` |
| `BegunDayNotRefused` | `SafetySpec => []BegunDayAccepted` |

The arguments:

* `TypeOK` is inductive as it stands, because it includes that references resolve.  The proof
  has one lemma per action; those of `finalizeAssignments` share `ConcludeType`.
* `NeverRevoked` is inductive only together with `VerifiedIsClean` (`SiteInv`): the failure
  that takes VERIFIED away counts from zero.  `FailureBreaksLeases` uses the same invariant:
  a verified publisher is not in a cooldown, so the branch that skips the refunds is not taken.
* Frame lemmas (`SiteFrame`, `MarketFrame`, `RoundFrame`, `BallotFrame`) say which actions
  write which stores; each invariant looks at those actions only.
* `FinalizedInRoundOrder` needs `WindowsOK`: round starts are multiples of the interval and an
  offset is shorter than it, so deadlines of a domain are ordered as its rounds are, and the
  earlier round is due whenever the later one is.
* `OnlyExhaustionHalts` needs that rounds are settled as a whole (`SettledWhole`), which needs
  that new assignments belong to a later round than all others (`WindowsOK`); that escrow
  covers every lease (`EscrowBacked`); and that the clock is past genesis (`AfterGenesis`).
* `CommitsPrecedeReveals` follows from `BallotInv`: revealed votes exist only after the commit
  window of their assignment.
* `AuditableDraw` needs `MetaOfPast`: metadata exists only for rounds already assigned, so that
  the code's test whether it exists never keeps an older list of eligible verifiers.
* `VerdictJustified` needs that votes are of assigned verifiers (`VotesOfAssigned`) and that
  votes on a finalized assignment stay (`VotesKept`).  `CountIsMajority` relates the code's
  rounded quorum and its comparison of yes with no to the halves in the property.
* `PaidOnce` needs `LedgerOK`: a round is on the list exactly as long as its assignments are
  unsettled.  A verdict therefore never changes an assignment that has been paid, and a
  settlement finds none that has been paid before.

Those about the daemon assume `DaemonAssumption`: a commit start buffer smaller than the commit
window, which `Config.Validate` enforces, and blocks that lag less behind the daemon's clock
than the reveal slack.  The second is an assumption about the network; the code's slack of six
seconds is its answer to it.  Those about the page assume `FormAssumption` (a mantissa of at
least two bits, a positive day and clock resolution) and `PageAssumption` (the configurations
name an endpoint or none, and a form is of the kind that its handler binds).  Nothing is assumed
of `Trimmed`, `Lowered`, `Decimal`, `DayOf`, `GridLike` and `Badges` beyond what the assumptions
list, so the theorems hold for whatever the browser's text functions return.

* `DaemonInv` is the inductive invariant of the daemon: `Shapes` (types), `Locked` (who holds
  `txMu`), `RelayInv`, `PollInv`, and for each assignment `JobInv`, `VoteInv` and `TxInv`.  The
  core of `OneVote` and `CommittedVoteKept` is that an assignment draws one nonce: a goroutine
  without a file begins only while commits are taken, and a file is deleted only after that, so
  nobody who finds no file is in time to draw another.  Each action is local to one assignment
  (`LocalStep`) or leaves all of them alone (`QuietStep`), and has a lemma of its own.
* `PageImplementsSubmission` maps a handler's transaction to `ledger` and its notice to `told`.
  A broadcast maps to a step of `TxSubmission` because a handler that has not come to `poll` has
  neither a transaction nor a notice; this and the types are its inductive invariant.

* `PageInv` is the inductive invariant behind the last four theorems about the page, next to
  the two invariants above (`HandlersInv`, `ImportsInv`).  It says what a handler has established
  at the `await` where it stands (`TaskForm`).  At `verify` the wallet of its form is the address
  it read, and still the connected one unless `connects` has moved on; from then on, at `client`
  and `sign`, its form has passed the handler's checks and the badge of the form's wallet was
  found (`Passed`).  A transaction is `Wire` of such a form, charged to the one who signed it
  (`TxForm`).  `HandlerKept` and `OthersKept` separate a handler's own step from the others,
  which see it only through `state`, `connects` and `imports`.
* `CodecRoundTrip` rests on `CodecTables`: each hand-written table and its message in `tx.proto`
  have the same names, numbers and wire types in the same order.  A tag then belongs to one
  field (`FieldNumber`), so what the decoder finds under a number is what `encode` wrote for it,
  and a field that `encode` left out has the zero value that the decoder fills in.
* `Nearest` keeps a whole number up to 2^`MantissaBits` (`NearestExact`), because its unit, one
  half, two or, for that power of two itself, four, divides it.
* `WrittenElements` (what a writer holds), `PowersOfTwo` and `NearestExact` are about recursive
  functions.  The prover cannot instantiate induction over a predicate, so `Induction` and
  `Recursion` are stated over sets and functions and proved from the well-foundedness of `<`:
  a set of naturals with 0 and closed under successor is all of them, and a step function has
  a sequence of iterates.

Only model-checked: liveness (`RoundsSettle`, `LeasesClose`, `JobsEnd`, `PollReturns`,
`HandlersSettle`), which is out of the prover's reach.

## 5. Not modelled

* Cryptography: signature checks, commit hashes and the hashes behind seeds and ranks.  Their
  results are any value they can produce.
* `wallet-deps.bundle.mjs`: CosmJS, protobufjs and Long as a bundler minified them, two thirds
  of the JavaScript of the repository.  It is other projects' code in a form that nobody reads;
  the model has what `wallet.js` sees of it.
* `i18n.js` and `language-menu.js`: wording and presentation.
* Reward amounts, similar-site statistics and the emission schedule: pure arithmetic that
  decides how much is paid, never who or when.  `payments` says who is paid for what.
* ExportGenesis, store migrations and changes of parameters by an upgrade.
* Queries and `health.go` (read only), HTTP and HTML handling, command lines, scripts,
  generated code.
* The server of the web site, the indexer, the DHT and `x/nodes`: their state is a database
  table or a map, and no protocol between actors depends on it.

`PROJECT.json` lists every component with its status, and the hazards that no property covers
with the reason.
