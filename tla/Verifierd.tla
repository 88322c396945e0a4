----------------------------- MODULE Verifierd -----------------------------
(***************************************************************************)
(* One verifierd daemon: its poll loop, a goroutine for each assignment,   *)
(* the mutex around its transactions, the files of pending reveals, and    *)
(* crashes; with the mempool and the assignments of the chain.  A vote is  *)
(* named by its nonce, and the commit hash that binds a vote is the vote.  *)
(* Transactions with the same content are one.                             *)
(***************************************************************************)
EXTENDS RoundSchedule

CONSTANTS
    Assignments,
    StartAt, DeadlineAt,   \* for each assignment
    Relay,                 \* the sender of drand beacons, next to the assignments
    ChainWindow,           \* commit_window_seconds of the chain
    CommitWindows,         \* what commit_window_seconds of the daemon may be
    CommitStartBuffer, RevealSlack, RetryBackoff,
    Ranks,                 \* the daemon's rank among the relayers of a beacon
    RelayStagger, RelayMaxDelay,
    MaxLag,                \* how far a block's time may be behind the daemon's clock
    MaxTime, MaxNonces, MaxCrashes

Clients == Assignments \cup {Relay}
Nobody == "nobody"

ASSUME DaemonAssumption ==
    /\ Relay \notin Assignments /\ Nobody \notin Clients
    /\ StartAt \in [Assignments -> Nat] /\ DeadlineAt \in [Assignments -> Nat]
    /\ {ChainWindow, CommitStartBuffer, RevealSlack, RetryBackoff, RelayStagger,
        RelayMaxDelay, MaxLag, MaxTime, MaxNonces, MaxCrashes} \subseteq Nat
    /\ CommitWindows \subseteq Nat /\ Ranks \subseteq Nat
    \* Config.Validate rejects any other.
    /\ \A w \in CommitWindows : CommitStartBuffer < w
    \* Otherwise a block may still take commits when the first reveal is sent.
    /\ MaxLag < RevealSlack

VARIABLES
    now,        \* the clock
    window,     \* the daemon's commit_window_seconds
    file,       \* the pending reveal of each assignment on disk
    refused,    \* the assignments whose file was deleted for an error of the reveal
    nonces,     \* nonces drawn for each assignment
    job,        \* the goroutine of each assignment, and the relay in the poll loop
    mu,         \* who holds txMu
    poll,       \* PollOnce
    mempool,    \* transactions that were broadcast and not yet executed or dropped
    chain,      \* commit and submission of this verifier for each assignment
    final,      \* the assignments that the chain has finalized
    beacons,    \* the drand rounds whose beacon is on the chain
    crashes

diskVars == <<file, refused>>
chainVars == <<mempool, chain, final, beacons>>
vars == <<now, window, diskVars, nonces, job, mu, poll, chainVars, crashes>>

NoVote == 0
NoFile == [vote |-> NoVote, recorded |-> FALSE]
Off == [pc |-> "off", kind |-> "", vote |-> NoVote, round |-> 0, wake |-> 0, result |-> ""]
NoScan == [pc |-> "idle", left |-> {}, late |-> {}, next |-> Nobody]

CommitDeadline(a) == StartAt[a] + window
\* A bug: the reveal is sent as soon as the commit window is over.
RevealAtOnce(a) == CommitDeadline(a)
RevealAt(a) == CommitDeadline(a) + RevealSlack

Init ==
    /\ now = 0 /\ window \in CommitWindows
    /\ file = [a \in Assignments |-> NoFile]
    /\ refused = {}
    /\ nonces = [a \in Assignments |-> 0]
    /\ job = [c \in Clients |-> Off]
    /\ mu = Nobody /\ poll = NoScan
    /\ mempool = {} /\ final = {} /\ beacons = {}
    /\ chain = [a \in Assignments |-> [commit |-> NoVote, submission |-> NoVote]]
    /\ crashes = 0

(***************************************************************************)
(* The file of a pending reveal, replaced by a rename.                     *)
(***************************************************************************)
\* A bug: the vote is not on disk before its commit is sent.
SaveLater(a, vote, recorded) ==
    file' = IF recorded THEN [file EXCEPT ![a] = [vote |-> vote, recorded |-> recorded]] ELSE file
SavePendingReveal(a, vote, recorded) ==
    file' = [file EXCEPT ![a] = [vote |-> vote, recorded |-> recorded]]
DeletePendingReveal(a) == file' = [file EXCEPT ![a] = NoFile]

SetJob(c, j) == job' = [job EXCEPT ![c] = j]
Goto(c, pc) == SetJob(c, [job[c] EXCEPT !.pc = pc])

(***************************************************************************)
(* runAssignment up to the first transaction.                              *)
(***************************************************************************)
\* A bug: only a vote whose commit is recorded is taken up again.
ResumeRecorded(a) == file[a].recorded
ResumesPending(a) == file[a] # NoFile

\* The commit is due, or the vote waits for the reveal window.
Decided(vote, recorded, deadline) ==
    IF ~recorded /\ now <= deadline
    THEN [Off EXCEPT !.pc = "lock", !.kind = "commit", !.vote = vote]
    ELSE [Off EXCEPT !.pc = "reveal", !.kind = "reveal", !.vote = vote]

RunAssignment(a) ==
    /\ job[a].pc = "start"
    /\ \/ /\ CommitDeadline(a) >= DeadlineAt[a]
          /\ SetJob(a, Off) /\ UNCHANGED diskVars
       \/ /\ CommitDeadline(a) < DeadlineAt[a] /\ now > DeadlineAt[a]
          /\ SetJob(a, Off) /\ DeletePendingReveal(a) /\ refused' = refused
       \/ /\ CommitDeadline(a) < DeadlineAt[a] /\ now <= DeadlineAt[a]
          /\ SetJob(a, IF ResumesPending(a)
                       THEN Decided(file[a].vote, file[a].recorded, CommitDeadline(a))
                       ELSE [Off EXCEPT !.pc = "sleep"])
          /\ UNCHANGED diskVars
    /\ UNCHANGED <<now, window, nonces, mu, poll, chainVars, crashes>>

\* The commit start buffer is over; the homepage is fetched while the window is open.
CommitStarts(a) ==
    /\ job[a].pc = "sleep" /\ now >= StartAt[a] + CommitStartBuffer
    /\ SetJob(a, IF now > CommitDeadline(a) THEN Off ELSE [job[a] EXCEPT !.pc = "verify"])
    /\ UNCHANGED <<now, window, diskVars, nonces, mu, poll, chainVars, crashes>>

\* Verify has an answer: a nonce is drawn and the vote is saved before it is committed.
Verified(a) ==
    /\ job[a].pc = "verify" /\ nonces[a] < MaxNonces
    /\ nonces' = [nonces EXCEPT ![a] = @ + 1]
    /\ SavePendingReveal(a, nonces'[a], FALSE)
    /\ SetJob(a, Decided(nonces'[a], FALSE, CommitDeadline(a)))
    /\ UNCHANGED <<now, window, refused, mu, poll, chainVars, crashes>>

\* The owner is unknown, or no nonce is drawn, or a file cannot be read or written.
RunFails(a) ==
    /\ job[a].pc \in {"start", "verify", "record"}
    /\ SetJob(a, Off)
    /\ UNCHANGED <<now, window, diskVars, nonces, mu, poll, chainVars, crashes>>

\* submitCommitUntil has succeeded.
RecordCommit(a) ==
    /\ job[a].pc = "record"
    /\ SavePendingReveal(a, job[a].vote, TRUE)
    /\ SetJob(a, [job[a] EXCEPT !.pc = "reveal", !.kind = "reveal"])
    /\ UNCHANGED <<now, window, refused, nonces, mu, poll, chainVars, crashes>>

RevealStarts(a) ==
    /\ job[a].pc = "reveal" /\ now >= RevealAt(a)
    /\ \/ /\ now > DeadlineAt[a]
          /\ SetJob(a, Off) /\ DeletePendingReveal(a) /\ refused' = refused
       \/ /\ now <= DeadlineAt[a]
          /\ Goto(a, "lock") /\ UNCHANGED diskVars
    /\ UNCHANGED <<now, window, nonces, mu, poll, chainVars, crashes>>

\* submitRevealUntil has succeeded.
ClearPending(a) ==
    /\ job[a].pc = "clear"
    /\ SetJob(a, Off) /\ DeletePendingReveal(a) /\ refused' = refused
    /\ UNCHANGED <<now, window, nonces, mu, poll, chainVars, crashes>>

(***************************************************************************)
(* submitCommit, submitReveal and submitDrandBeacon: a command of the node *)
(* under txMu, and another one that waits for the transaction.             *)
(***************************************************************************)
TakeLock(c) ==
    /\ job[c].pc = "lock" /\ mu = Nobody
    /\ mu' = c
    /\ Goto(c, "exec")
    /\ UNCHANGED <<now, window, diskVars, nonces, poll, chainVars, crashes>>

TxOf(c) == [from |-> c, kind |-> job[c].kind, vote |-> job[c].vote, round |-> job[c].round]
Broadcast(c) ==
    /\ job[c].pc = "exec"
    /\ mempool' = mempool \cup {TxOf(c)}
    /\ Goto(c, "wait")
    /\ UNCHANGED <<now, window, diskVars, nonces, mu, poll, chain, final, beacons, crashes>>

\* A bug: an error leaves txMu locked.
UnlockIfAccepted(outcome) == mu' = IF outcome = "ok" THEN Nobody ELSE mu
Unlock(outcome) == mu' = Nobody

UntilOf(c) == IF job[c].kind = "commit" THEN CommitDeadline(c) ELSE DeadlineAt[c]
\* A bug: retriable errors are retried whatever the time is.
RetryAlways(c) == TRUE
SleepForRetry(c) == now < UntilOf(c)
Earlier(s, t) == IF s < t THEN s ELSE t

\* submitCommitUntil and submitRevealUntil with what runAssignment does after them, for
\* an answer of one of the classes ok, already (recorded), retriable, and other errors.
JobAnswered(a, outcome) ==
    LET done == outcome \in {"ok", "already"}
        again == outcome = "retriable" /\ SleepForRetry(a)
        j == [job[a] EXCEPT !.result = ""]
    IN  \/ /\ done
           /\ SetJob(a, [j EXCEPT !.pc = IF j.kind = "commit" THEN "record" ELSE "clear"])
           /\ UNCHANGED diskVars
        \/ /\ again
           /\ SetJob(a, [j EXCEPT !.pc = "backoff", !.wake = Earlier(now + RetryBackoff, UntilOf(a))])
           /\ UNCHANGED diskVars
        \/ /\ ~done /\ ~again
           /\ SetJob(a, Off)
           /\ IF j.kind = "reveal" /\ (outcome # "retriable" \/ now > DeadlineAt[a])
              THEN /\ DeletePendingReveal(a)
                   /\ refused' = IF outcome = "retriable" THEN refused ELSE refused \cup {a}
              ELSE UNCHANGED diskVars

\* A bug: the relay sends a beacon until it is accepted, and the poll loop waits.
RelayUntilAccepted(c, outcome) ==
    /\ Unlock(outcome)
    /\ IF c # Relay THEN JobAnswered(c, outcome)
       ELSE /\ SetJob(c, IF outcome = "ok" THEN Off ELSE [job[c] EXCEPT !.pc = "lock", !.result = ""])
            /\ UNCHANGED diskVars
Answered(c, outcome) ==
    /\ Unlock(outcome)
    /\ IF c = Relay THEN SetJob(c, Off) /\ UNCHANGED diskVars ELSE JobAnswered(c, outcome)

\* The command fails before the node has the transaction: a sequence mismatch, or no
\* connection to the node.
ExecFails(c) ==
    /\ job[c].pc = "exec"
    /\ \E outcome \in {"retriable", "error"} : Answered(c, outcome)
    /\ UNCHANGED <<now, window, nonces, poll, chainVars, crashes>>

\* The node has the transaction, its answer is lost.
ExecLost(c) ==
    /\ job[c].pc = "exec"
    /\ mempool' = mempool \cup {TxOf(c)}
    /\ Answered(c, "error")
    /\ UNCHANGED <<now, window, nonces, poll, chain, final, beacons, crashes>>

\* wait-tx times out or loses its connection.
WaitFails(c) ==
    /\ job[c].pc = "wait" /\ job[c].result = ""
    /\ \E outcome \in {"retriable", "error"} : Answered(c, outcome)
    /\ UNCHANGED <<now, window, nonces, poll, chainVars, crashes>>

WaitAnswered(c) ==
    /\ job[c].pc = "wait" /\ job[c].result # ""
    /\ Answered(c, job[c].result)
    /\ UNCHANGED <<now, window, nonces, poll, chainVars, crashes>>

BackoffOver(a) ==
    /\ job[a].pc = "backoff" /\ now >= job[a].wake
    /\ SetJob(a, [job[a] EXCEPT !.pc = "lock", !.wake = 0])
    /\ UNCHANGED <<now, window, diskVars, nonces, mu, poll, chainVars, crashes>>

(***************************************************************************)
(* PollOnce.                                                               *)
(***************************************************************************)
\* The scan goes on with the entries left, or ends.
Scanning(left, late, next) ==
    IF left = {} /\ next = Nobody
    THEN NoScan
    ELSE [pc |-> "scan", left |-> left, late |-> late \cap left, next |-> next]

BlockTimes == {at \in now - MaxLag .. now : at >= 0}

\* PendingDrandRequirement: as of a block's time the chain wants the beacon of the
\* round that comes next, and no other.  (A round that has been assigned already has
\* its beacon, so that it needs no test of its own.)
DrandRequirement(at) == RequiredDrandRound(NextRoundStart(at))
BeaconWanted(n, at) ==
    /\ ~PredatesDrand(NextRoundStart(at))
    /\ n = DrandRequirement(at)
    /\ n \notin beacons

\* No RelayMaxDelay is no bound.
DrandRelayDelay(rank) ==
    IF RelayMaxDelay > 0 THEN Earlier(rank * RelayStagger, RelayMaxDelay) ELSE rank * RelayStagger

BeaconDue(n, rank) == now >= BeaconTime(n) /\ now >= BeaconTime(n) + DrandRelayDelay(rank)

\* relayRequiredDrand: what the latest block wants is fetched and sent.
RelayRequiredDrand ==
    /\ poll.pc = "idle"
    /\ \E at \in BlockTimes, rank \in Ranks :
           LET n == DrandRequirement(at)
           IN  /\ BeaconWanted(n, at) /\ BeaconDue(n, rank)
               /\ SetJob(Relay, [Off EXCEPT !.pc = "lock", !.kind = "beacon", !.round = n])
    /\ poll' = [NoScan EXCEPT !.pc = "relay"]
    /\ UNCHANGED <<now, window, diskVars, nonces, mu, chainVars, crashes>>

\* The relay is over, or there is nothing to relay, or the beacon cannot be fetched: the
\* assignments that are open, without a submission and before their deadline as of now,
\* unless the query fails.  Late are those that now need a pending reveal.
QueryAssignments ==
    /\ poll.pc = "idle" \/ (poll.pc = "relay" /\ job[Relay].pc = "off")
    /\ \E left \in {{}, {a \in Assignments \ final : chain[a].submission = NoVote
                                                         /\ now <= DeadlineAt[a]}} :
           poll' = Scanning(left, {a \in left : now > CommitDeadline(a)}, Nobody)
    /\ UNCHANGED <<now, window, diskVars, nonces, job, mu, chainVars, crashes>>

\* An entry passes the checks, the validation of its schedule among them, or is skipped.
ScanEntry(a) ==
    /\ poll.pc = "scan" /\ poll.next = Nobody /\ a \in poll.left
    /\ \/ poll' = Scanning(poll.left \ {a}, poll.late, Nobody)
       \/ /\ a \notin poll.late \/ file[a] # NoFile
          /\ poll' = Scanning(poll.left \ {a}, poll.late, a)
    /\ UNCHANGED <<now, window, diskVars, nonces, job, mu, chainVars, crashes>>

\* A goroutine is started unless one is in flight.
Launch(a) ==
    /\ poll.next = a
    /\ job' = IF job[a].pc = "off" THEN [job EXCEPT ![a] = [Off EXCEPT !.pc = "start"]] ELSE job
    /\ poll' = Scanning(poll.left, poll.late, Nobody)
    /\ UNCHANGED <<now, window, diskVars, nonces, mu, chainVars, crashes>>

\* The process ends and is started again: memory is lost, the files are not.
Crash ==
    /\ crashes < MaxCrashes
    /\ crashes' = crashes + 1
    /\ job' = [c \in Clients |-> Off] /\ mu' = Nobody /\ poll' = NoScan
    /\ UNCHANGED <<now, window, diskVars, nonces, chainVars>>

(***************************************************************************)
(* The chain.  A transaction is executed in a block with time at.          *)
(***************************************************************************)
CommitAnswer(a, at) ==
    IF a \in final THEN "error"
    ELSE IF at < StartAt[a] \/ at > StartAt[a] + ChainWindow THEN "retriable"
    ELSE IF chain[a].commit # NoVote THEN "already"
    ELSE IF chain[a].submission # NoVote THEN "error"
    ELSE "ok"
RevealAnswer(a, vote, at) ==
    IF a \in final THEN "error"
    ELSE IF at <= StartAt[a] + ChainWindow THEN "retriable"
    ELSE IF at > DeadlineAt[a] THEN "error"
    ELSE IF chain[a].submission # NoVote THEN "already"
    ELSE IF chain[a].commit = NoVote THEN "retriable"
    ELSE IF chain[a].commit # vote THEN "error"
    ELSE "ok"
TxAnswer(t, at) ==
    CASE t.kind = "commit" -> CommitAnswer(t.from, at)
      [] t.kind = "reveal" -> RevealAnswer(t.from, t.vote, at)
      [] OTHER -> IF BeaconWanted(t.round, at) THEN "ok" ELSE "error"

Execute(t, at) ==
    LET answer == TxAnswer(t, at)
    IN  /\ mempool' = mempool \ {t}
        /\ chain' = CASE answer = "ok" /\ t.kind = "commit" -> [chain EXCEPT ![t.from].commit = t.vote]
                      [] answer = "ok" /\ t.kind = "reveal" ->
                             [chain EXCEPT ![t.from] = [commit |-> NoVote, submission |-> t.vote]]
                      [] OTHER -> chain
        /\ beacons' = IF answer = "ok" /\ t.kind = "beacon" THEN beacons \cup {t.round} ELSE beacons
        /\ job' = IF job[t.from].pc = "wait" /\ job[t.from].kind = t.kind
                  THEN [job EXCEPT ![t.from].result = answer]
                  ELSE job
        /\ UNCHANGED <<now, window, diskVars, nonces, mu, poll, final, crashes>>

Drop(t) ==
    /\ mempool' = mempool \ {t}
    /\ UNCHANGED <<now, window, diskVars, nonces, job, mu, poll, chain, final, beacons, crashes>>

\* finalizeAssignments, in a block at or after the deadline.
Finalize(a) ==
    /\ a \notin final /\ \E at \in BlockTimes : at >= DeadlineAt[a]
    /\ final' = final \cup {a}
    /\ UNCHANGED <<now, window, diskVars, nonces, job, mu, poll, mempool, chain, beacons, crashes>>

\* Another verifier relays a beacon that is out.
OtherRelay ==
    /\ \E at \in BlockTimes :
           LET n == DrandRequirement(at)
           IN  /\ BeaconWanted(n, at) /\ now >= BeaconTime(n)
               /\ beacons' = beacons \cup {n}
    /\ UNCHANGED <<now, window, diskVars, nonces, job, mu, poll, mempool, chain, final, crashes>>

Tick ==
    /\ now < MaxTime
    /\ now' = now + 1
    /\ UNCHANGED <<window, diskVars, nonces, job, mu, poll, chainVars, crashes>>

\* What an assignment's goroutine does without waiting for the node or the mutex.
Work(a) ==
    \/ RunAssignment(a) \/ CommitStarts(a) \/ Verified(a) \/ RunFails(a)
    \/ RecordCommit(a) \/ RevealStarts(a) \/ ClearPending(a) \/ BackoffOver(a)

\* A command of the node ends.
Command(c) ==
    Broadcast(c) \/ ExecFails(c) \/ ExecLost(c) \/ WaitFails(c) \/ WaitAnswered(c)

Poll ==
    \/ RelayRequiredDrand \/ QueryAssignments
    \/ \E a \in Assignments : ScanEntry(a) \/ Launch(a)

Next ==
    \/ \E a \in Assignments : Work(a) \/ Finalize(a)
    \/ \E c \in Clients : TakeLock(c) \/ Command(c)
    \/ Poll \/ Crash \/ OtherRelay \/ Tick
    \/ \E t \in mempool : Drop(t) \/ \E at \in BlockTimes : Execute(t, at)

SafetySpec == Init /\ [][Next]_vars

\* Goroutines run, Go's mutex starves nobody and the clock advances.  The commands of
\* the node return: wait-tx has a time limit; of the one that sends it is assumed.
Fairness ==
    /\ WF_vars(Tick) /\ WF_vars(Poll)
    /\ \A a \in Assignments : WF_vars(Work(a))
    /\ \A c \in Clients : WF_vars(Command(c)) /\ SF_vars(TakeLock(c))
Spec == SafetySpec /\ Fairness

-----------------------------------------------------------------------------
Vote == NoVote .. MaxNonces

\* Types; txMu is held by the one whose command runs, and nothing else holds it.
DaemonTypeOK ==
    /\ now \in 0 .. MaxTime /\ window \in CommitWindows
    /\ file \in [Assignments -> [vote : Vote, recorded : BOOLEAN]]
    /\ refused \subseteq Assignments
    /\ chain \in [Assignments -> [commit : Vote, submission : Vote]]
    /\ final \subseteq Assignments /\ beacons \subseteq Int
    /\ \A c \in Clients : job[c].pc \in {"exec", "wait"} <=> mu = c

\* A vote that the chain has the commit of can be revealed until its deadline: its
\* nonce is on disk, whatever crashed, timed out or came late since it was drawn.  The
\* exception is the one the code makes: an error of the reveal that is not on its list
\* of retriable errors deletes the file.
CommittedVoteKept ==
    \A a \in Assignments :
        chain[a].commit # NoVote /\ now <= DeadlineAt[a] /\ a \notin refused
        => file[a].vote = chain[a].commit

\* An assignment is voted on once: the file, the transactions under way and the chain
\* never hold two votes.
OneVote ==
    \A a \in Assignments :
        LET sent == {t.vote : t \in {x \in mempool : x.from = a}}
            votes == ({file[a].vote, chain[a].commit, chain[a].submission} \cup sent) \ {NoVote}
        IN  \A v, w \in votes : v = w

\* No reveal is broadcast while a block could still take a commit, so that nobody can
\* commit to a vote that was seen in the mempool; if the daemon's commit window is not
\* shorter than the chain's.
RevealAfterCommits ==
    window >= ChainWindow =>
        \A t \in mempool : t.kind = "reveal" => \A at \in BlockTimes : at > StartAt[t.from] + ChainWindow

\* A goroutine does not stay for ever: its assignment is not in flight for good.
JobsEnd == \A a \in Assignments : job[a].pc # "off" ~> job[a].pc = "off"

\* The poll loop does not stand still: whatever the goroutines do with txMu, for which
\* the relay has to wait, PollOnce comes to its end.
PollReturns == poll.pc # "idle" ~> poll.pc = "idle"

\* The relay's fallbacks become eligible one after the other, so that an offline primary
\* cannot stall the assignments: no round begins without its beacon before it was every
\* fallback's turn to deliver it.
FallbackHadItsTurn ==
    \A r \in 1 .. now :
        r % RoundInterval = 0 /\ ~PredatesDrand(r) /\ RequiredDrandRound(r) \notin beacons
        => \A rank \in Ranks : BeaconTime(RequiredDrandRound(r)) + DrandRelayDelay(rank) < r
=============================================================================
