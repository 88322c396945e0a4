-------------------------- MODULE VerifierdProofs --------------------------
(***************************************************************************)
(* The safety of one verifierd daemon, for every set of assignments, every *)
(* schedule and window, and any number of crashes.  The heart of it: one   *)
(* nonce is drawn for an assignment.  A job without a file starts only     *)
(* while commits are taken, and a file is deleted only after that.         *)
(***************************************************************************)
EXTENDS Verifierd, TLAPS

Busy == {"lock", "exec", "wait", "backoff"}
Answers == {"", "ok", "already", "retriable", "error"}
Places == Busy \cup {"off", "start", "sleep", "verify", "record", "reveal", "clear"}
JobKinds == {"", "commit", "reveal", "beacon"}
JobRec == [pc : Places, kind : JobKinds, vote : {0, 1},
           round : Int, wake : Nat, result : Answers]
FileRec == [vote : {0, 1}, recorded : BOOLEAN]
Tx == [from : Clients, kind : {"commit", "reveal", "beacon"}, vote : {0, 1}, round : Int]

Shapes ==
    /\ now \in 0 .. MaxTime /\ window \in CommitWindows
    /\ file \in [Assignments -> FileRec]
    /\ refused \subseteq Assignments
    /\ nonces \in [Assignments -> {0, 1}]
    /\ job \in [Clients -> JobRec]
    /\ mempool \subseteq Tx
    /\ chain \in [Assignments -> [commit : {0, 1}, submission : {0, 1}]]
    /\ final \subseteq Assignments /\ beacons \subseteq Int

\* txMu is held by the one whose command runs.
Locked == \A c \in Clients : job[c].pc \in {"exec", "wait"} <=> mu = c

\* The relay sends beacons only, and nobody else does.
RelayInv ==
    /\ job[Relay].pc \in {"off", "lock", "exec", "wait"}
    /\ job[Relay].pc # "off" => job[Relay].kind = "beacon"
    /\ \A t \in mempool : t.kind = "beacon" <=> t.from = Relay

\* The relay runs while the poll loop waits for it.
PollInv ==
    /\ job[Relay].pc # "off" => poll.pc = "relay"
    /\ poll.pc # "scan" => poll.next = Nobody

\* Where the goroutine of a is, the file of a agrees.
JobInv(a) ==
    /\ job[a].result # "" => job[a].pc = "wait"
    /\ job[a].pc \in Busy \cup {"record", "reveal", "clear"} =>
           /\ job[a].vote = 1 /\ file[a].vote = 1
           /\ job[a].kind \in {"commit", "reveal"}
    /\ job[a].pc = "record" => job[a].kind = "commit"
    /\ job[a].pc \in {"reveal", "clear"} => job[a].kind = "reveal"
    /\ job[a].pc \in {"sleep", "verify"} => file[a] = NoFile
    /\ job[a].pc = "verify" => nonces[a] = 0
    /\ job[a].kind = "reveal" /\ job[a].pc \in Busy \cup {"clear"} => now >= RevealAt(a)
    /\ job[a].kind = "reveal" /\ (job[a].pc = "clear" \/ job[a].result \in {"ok", "already"})
           => chain[a].submission # NoVote

\* A vote is in its file until the reveal is recorded, refused or too late.
VoteInv(a) ==
    /\ nonces[a] <= MaxNonces
    /\ file[a].vote = 0 => file[a] = NoFile
    /\ nonces[a] = 0 => /\ file[a].vote = 0
                        /\ chain[a].commit = 0 /\ chain[a].submission = 0
    /\ nonces[a] = 1 /\ file[a].vote = 0 =>
           /\ now > CommitDeadline(a)
           /\ a \in refused \/ now > DeadlineAt[a] \/ chain[a].submission # NoVote
    /\ chain[a].submission # NoVote => chain[a].commit = NoVote

TxInv(a) ==
    \A t \in mempool : t.from = a =>
        /\ t.vote = 1 /\ nonces[a] = 1
        /\ t.kind = "reveal" => now >= RevealAt(a)

AssignmentInv(a) == JobInv(a) /\ VoteInv(a) /\ TxInv(a)

DaemonInv == Shapes /\ Locked /\ RelayInv /\ PollInv /\ \A a \in Assignments : AssignmentInv(a)

\* What the parameters are.
LEMMA Parameters ==
    /\ Relay \notin Assignments /\ Nobody \notin Clients
    /\ \A a \in Assignments : StartAt[a] \in Nat /\ DeadlineAt[a] \in Nat /\ a \in Clients
    /\ Relay \in Clients
    /\ \A w \in CommitWindows : w \in Nat
    /\ ChainWindow \in Nat /\ RevealSlack \in Nat /\ RetryBackoff \in Nat
    /\ MaxLag \in Nat /\ MaxTime \in Nat /\ MaxNonces \in Nat
    /\ MaxLag < RevealSlack
BY DaemonAssumption DEF Clients

\* The record of no goroutine and the record of no file.
LEMMA OffFields ==
    /\ Off.pc = "off" /\ Off.kind = "" /\ Off.vote = 0 /\ Off.wake = 0 /\ Off.round = 0 /\ Off.result = ""
    /\ Off \in JobRec
    /\ NoFile.vote = 0 /\ NoFile \in FileRec
BY DEF Off, JobRec, JobKinds, Places, Busy, Answers, NoVote, NoFile, FileRec

\* The rounds of drand that the chain asks for are integers.
LEMMA BeaconRounds ==
    ASSUME Shapes, NEW at \in BlockTimes
    PROVE  DrandRequirement(at) \in Int
<1>1. at \in Int /\ RoundInterval \in Nat \ {0} /\ DrandPeriod \in Nat \ {0}
      /\ DrandOffset \in Int /\ DrandGenesis \in Int
  BY Parameters, ScheduleAssumption DEF Shapes, BlockTimes
<1>2. NextRoundStart(at) \in Int
  BY <1>1 DEF NextRoundStart
<1> QED BY <1>1, <1>2 DEF DrandRequirement, RequiredDrandRound

\* The daemon starts without files and without votes.
LEMMA DaemonStarts == Init => DaemonInv
<1> SUFFICES ASSUME Init PROVE DaemonInv
  OBVIOUS
<1>2. Shapes
  <2>2. file \in [Assignments -> FileRec]
    BY OffFields DEF Init
  <2>3. chain \in [Assignments -> [commit : {0, 1}, submission : {0, 1}]]
    BY DEF Init, NoVote
  <2>4. job \in [Clients -> JobRec]
    BY OffFields DEF Init
  <2>5. now \in 0 .. MaxTime /\ nonces \in [Assignments -> {0, 1}]
    BY Parameters DEF Init
  <2> QED BY <2>2, <2>3, <2>4, <2>5, ZenonT(60) DEF Init, Shapes
<1>3. Locked /\ RelayInv /\ PollInv
  BY Parameters, OffFields DEF Init, Locked, RelayInv, PollInv, NoScan
<1>4. ASSUME NEW a \in Assignments PROVE AssignmentInv(a)
  <2>1. job[a] = Off /\ file[a] = NoFile /\ nonces[a] = 0 /\ mempool = {}
    BY Parameters DEF Init
  <2>2. chain[a].commit = NoVote /\ chain[a].submission = NoVote
    BY DEF Init
  <2>3. file[a].vote = 0
    BY <2>1, OffFields
  <2>4. JobInv(a)
    <3>1. job[a].pc = "off" /\ job[a].kind = "" /\ job[a].result = ""
      BY <2>1, OffFields
    <3> QED BY <3>1 DEF JobInv, Busy
  <2>5. VoteInv(a)
    <3>1. nonces[a] <= MaxNonces /\ nonces[a] # 1
      BY <2>1, Parameters
    <3> QED BY <2>1, <2>2, <2>3, <3>1 DEF VoteInv, NoVote
  <2>6. TxInv(a)
    BY <2>1 DEF TxInv
  <2> QED BY <2>4, <2>5, <2>6 DEF AssignmentInv
<1> QED BY <1>2, <1>3, <1>4 DEF DaemonInv

\* An assignment whose file, goroutine and state on the chain stay as they are keeps its
\* invariant while time passes and transactions of others come.
LEMMA Frame ==
    ASSUME NEW b \in Assignments, Shapes, AssignmentInv(b),
           now' \in Nat, now <= now', window' = window,
           job'[b] = job[b], file'[b] = file[b], nonces'[b] = nonces[b], chain'[b] = chain[b],
           b \in refused => b \in refused',
           \A t \in mempool' : t.from = b => t \in mempool
    PROVE  AssignmentInv(b)'
<1>1. now \in Nat /\ window \in Nat /\ StartAt[b] \in Nat /\ DeadlineAt[b] \in Nat /\ RevealSlack \in Nat
  BY Parameters DEF Shapes
<1>2. RevealAt(b)' = RevealAt(b) /\ RevealAt(b) \in Nat
  BY <1>1 DEF RevealAt, CommitDeadline
<1>3. now >= RevealAt(b) => (now >= RevealAt(b))'
  BY <1>1, <1>2
<1>4. JobInv(b)'
  BY <1>3 DEF AssignmentInv, JobInv
<1>5. VoteInv(b)'
  BY <1>1 DEF AssignmentInv, VoteInv, CommitDeadline, NoFile, NoVote
<1>6. TxInv(b)'
  BY <1>3 DEF AssignmentInv, TxInv
<1> QED BY <1>4, <1>5, <1>6 DEF AssignmentInv

\* A step of the goroutine of a that leaves the clock, the configuration and the chain
\* alone concerns the invariant of a and the mutex.
LEMMA LocalStep ==
    ASSUME NEW a \in Assignments, NEW j \in JobRec, DaemonInv, SetJob(a, j),
           UNCHANGED <<now, window, chain, final, beacons>>, poll' = poll \/ PollInv',
           file' \in [Assignments -> FileRec],
           \A b \in Assignments \ {a} : file'[b] = file[b],
           nonces' \in [Assignments -> {0, 1}],
           \A b \in Assignments \ {a} : nonces'[b] = nonces[b],
           refused \subseteq refused', refused' \subseteq Assignments,
           mempool' \subseteq Tx,
           \A t \in mempool' : t \in mempool \/ (t.from = a /\ t.kind # "beacon"),
           Locked', AssignmentInv(a)'
    PROVE  DaemonInv'
<1>1. Relay # a /\ a \in Clients
  BY Parameters
<1>2. job \in [Clients -> JobRec] /\ job' = [job EXCEPT ![a] = j]
  BY DEF DaemonInv, Shapes, SetJob
<1>3. job' \in [Clients -> JobRec]
  BY <1>2, ZenonT(60)
<1>4. \A c \in Clients \ {a} : job'[c] = job[c]
  BY <1>2
<1>5. Shapes'
  BY <1>3 DEF DaemonInv, Shapes
<1>6. RelayInv'
  BY <1>1, <1>4, Parameters DEF DaemonInv, RelayInv
<1>7. PollInv'
  BY <1>1, <1>4, Parameters DEF DaemonInv, PollInv
<1>8. ASSUME NEW b \in Assignments PROVE AssignmentInv(b)'
  <2>1. CASE b = a
    BY <2>1
  <2>2. CASE b # a
    <3>1. now' \in Nat /\ now <= now'
      BY Parameters DEF DaemonInv, Shapes
    <3>2. job'[b] = job[b]
      BY <2>2, <1>4, Parameters
    <3>3. \A t \in mempool' : t.from = b => t \in mempool
      BY <2>2
    <3> QED BY <2>2, <3>1, <3>2, <3>3, Frame DEF DaemonInv
  <2> QED BY <2>1, <2>2
<1> QED BY <1>5, <1>6, <1>8, <1>7 DEF DaemonInv

\* The mutex, when the goroutine of c goes to j: it stays as it is, is taken, or is freed.
LEMMA MutexStep ==
    ASSUME NEW c \in Clients, NEW j \in JobRec, Locked, job \in [Clients -> JobRec], SetJob(c, j),
           \/ mu' = mu /\ (job[c].pc \in {"exec", "wait"} <=> j.pc \in {"exec", "wait"})
           \/ mu = Nobody /\ mu' = c /\ j.pc \in {"exec", "wait"}
           \/ mu = c /\ mu' = Nobody /\ j.pc \notin {"exec", "wait"}
    PROVE  Locked'
<1>1. Nobody \notin Clients
  BY Parameters
<1>2. job'[c] = j /\ \A d \in Clients \ {c} : job'[d] = job[d]
  BY DEF SetJob
<1> QED BY <1>1, <1>2 DEF Locked

\* The fields of a goroutine that goes to another place.
LEMMA PlaceSet ==
    ASSUME NEW r \in JobRec, NEW pc \in Places
    PROVE  /\ [r EXCEPT !.pc = pc] \in JobRec
           /\ [r EXCEPT !.pc = pc].pc = pc
           /\ [r EXCEPT !.pc = pc].kind = r.kind
           /\ [r EXCEPT !.pc = pc].vote = r.vote
           /\ [r EXCEPT !.pc = pc].result = r.result
BY DEF JobRec

\* A step that changes nothing of a but its goroutine.
LEMMA QuietStep ==
    ASSUME NEW a \in Assignments, NEW j \in JobRec, DaemonInv, SetJob(a, j),
           UNCHANGED <<now, window, diskVars, nonces, chainVars>>, poll' = poll \/ PollInv',
           Locked', JobInv(a)'
    PROVE  DaemonInv'
<1>1. VoteInv(a)' /\ TxInv(a)'
  BY DEF DaemonInv, AssignmentInv, VoteInv, TxInv, CommitDeadline, RevealAt, diskVars, chainVars
<1>2. AssignmentInv(a)'
  BY <1>1 DEF AssignmentInv
<1> QED BY <1>2, LocalStep, ZenonT(60) DEF DaemonInv, Shapes, diskVars, chainVars

\* No goroutine, or one that has only started, has nothing to agree with.
LEMMA IdleJob ==
    ASSUME NEW a \in Assignments, job'[a].pc \in {"off", "start"}, job'[a].kind = "", job'[a].result = ""
    PROVE  JobInv(a)'
BY DEF JobInv, Busy

\* What is known of the state of one assignment.
Known(a) ==
    /\ a \in Clients /\ job \in [Clients -> JobRec] /\ job[a] \in JobRec
    /\ file[a] \in FileRec /\ nonces[a] \in {0, 1}
    /\ now \in Nat /\ CommitDeadline(a) \in Nat /\ RevealAt(a) \in Nat
    /\ RevealAt(a) > CommitDeadline(a) /\ DeadlineAt[a] \in Nat
    /\ JobInv(a) /\ VoteInv(a) /\ TxInv(a) /\ Locked

\* The invariant says it of each assignment.
LEMMA OfAssignment ==
    ASSUME NEW a \in Assignments, DaemonInv
    PROVE  Known(a)
<1>1. a \in Clients /\ StartAt[a] \in Nat /\ DeadlineAt[a] \in Nat
  BY Parameters
<1>2. now \in Nat /\ window \in Nat /\ RevealSlack \in Nat /\ RevealSlack > 0
  BY Parameters DEF DaemonInv, Shapes
<1>3. CommitDeadline(a) \in Nat /\ RevealAt(a) \in Nat /\ RevealAt(a) > CommitDeadline(a)
  BY <1>1, <1>2 DEF CommitDeadline, RevealAt
<1>4. job \in [Clients -> JobRec] /\ file \in [Assignments -> FileRec] /\ nonces \in [Assignments -> {0, 1}]
  BY DEF DaemonInv, Shapes
<1> QED BY <1>1, <1>2, <1>3, <1>4 DEF DaemonInv, AssignmentInv, Known

\* Transactions that go to the mempool with a step of a.
Sends(a) ==
    /\ mempool' \subseteq Tx /\ TxInv(a)'
    /\ \A t \in mempool' : t \in mempool \/ (t.from = a /\ t.kind # "beacon")

\* Most steps send nothing.
LEMMA NothingSent ==
    ASSUME NEW a \in Assignments, DaemonInv, UNCHANGED <<now, window, nonces, mempool>>
    PROVE  Sends(a)
BY DEF Sends, DaemonInv, Shapes, AssignmentInv, TxInv, RevealAt, CommitDeadline

\* The step of a goroutine that gives up, with its file as it is.
LEMMA GivesUp ==
    ASSUME NEW a \in Assignments, DaemonInv, SetJob(a, Off), Locked', Sends(a),
           UNCHANGED <<now, window, poll, diskVars, nonces, chain, final, beacons>>
    PROVE  DaemonInv'
<1>1. job'[a] = Off
  BY OfAssignment DEF SetJob, Known
<1>2. JobInv(a)'
  BY <1>1, OffFields, IdleJob
<1>3. VoteInv(a)' /\ TxInv(a)'
  BY DEF DaemonInv, AssignmentInv, VoteInv, Sends, CommitDeadline, diskVars
<1>4. AssignmentInv(a)'
  BY <1>2, <1>3, ZenonT(60) DEF AssignmentInv
<1> QED BY <1>4, OffFields, LocalStep, ZenonT(60) DEF DaemonInv, Shapes, Sends, diskVars

\* The step of a goroutine that ends and deletes its file: it is late enough for that.
LEMMA Deletes ==
    ASSUME NEW a \in Assignments, DaemonInv, SetJob(a, Off), DeletePendingReveal(a), Locked',
           Sends(a), refused \subseteq refused', refused' \subseteq Assignments,
           now > CommitDeadline(a),
           a \in refused' \/ now > DeadlineAt[a] \/ chain[a].submission # NoVote,
           UNCHANGED <<now, window, poll, nonces, chain, final, beacons>>
    PROVE  DaemonInv'
<1>1. job'[a] = Off
  BY OfAssignment DEF SetJob, Known
<1>2. JobInv(a)'
  BY <1>1, OffFields, IdleJob
<1>3. file \in [Assignments -> FileRec]
  BY DEF DaemonInv, Shapes
<1>4. /\ file' \in [Assignments -> FileRec] /\ file'[a] = NoFile
      /\ \A b \in Assignments \ {a} : file'[b] = file[b]
  BY <1>3, OffFields DEF DeletePendingReveal
<1>5. CommitDeadline(a)' = CommitDeadline(a)
  BY ZenonT(60) DEF CommitDeadline
<1>6. VoteInv(a)'
  BY <1>4, <1>5, OffFields, OfAssignment, ZenonT(60) DEF VoteInv, Known
<1>7. TxInv(a)'
  BY ZenonT(60) DEF Sends
<1>8. AssignmentInv(a)'
  BY <1>2, <1>6, <1>7 DEF AssignmentInv
<1> QED BY <1>4, <1>8, OffFields, LocalStep, ZenonT(60) DEF DaemonInv, Shapes, Sends

\* The fields of a goroutine that has its vote.
LEMMA DecidedFields ==
    ASSUME NEW recorded \in BOOLEAN, NEW deadline \in Nat
    PROVE  LET d == Decided(1, recorded, deadline)
           IN  /\ d \in JobRec /\ d.pc \in {"lock", "reveal"} /\ d.vote = 1 /\ d.result = ""
               /\ d.pc = "lock" => d.kind = "commit"
               /\ d.pc = "reveal" => d.kind = "reveal"
<1> DEFINE early == [Off EXCEPT !.pc = "lock", !.kind = "commit", !.vote = 1]
           late == [Off EXCEPT !.pc = "reveal", !.kind = "reveal", !.vote = 1]
<1>0. /\ "lock" \in Places /\ "reveal" \in Places /\ "commit" \in JobKinds /\ "reveal" \in JobKinds
      /\ Off \in JobRec /\ Off.result = ""
  BY OffFields, ZenonT(60) DEF Places, Busy, JobKinds
<1>1. early \in JobRec /\ early.pc = "lock" /\ early.kind = "commit" /\ early.vote = 1 /\ early.result = ""
  BY <1>0 DEF JobRec
<1>2. late \in JobRec /\ late.pc = "reveal" /\ late.kind = "reveal" /\ late.vote = 1 /\ late.result = ""
  BY <1>0 DEF JobRec
<1>3. Decided(1, recorded, deadline) = early \/ Decided(1, recorded, deadline) = late
  BY ZenonT(60) DEF Decided
<1> HIDE DEF early, late
<1> QED BY <1>1, <1>2, <1>3, ZenonT(60)

\* runAssignment takes up the vote in the file, or has no file.
LEMMA RunAssignmentStep ==
    ASSUME NEW a \in Assignments, DaemonInv, RunAssignment(a)
    PROVE  DaemonInv'
<1>0. Known(a)
  BY OfAssignment
<1> USE <1>0 DEF Known
<1>1. job[a].pc = "start" /\ mu' = mu /\ UNCHANGED <<now, window, poll, nonces, chainVars>>
  BY ZenonT(60) DEF RunAssignment
<1>2. CASE SetJob(a, Off) /\ UNCHANGED diskVars
  <2>1. Locked'
    BY <1>1, <1>2, OffFields, MutexStep, ZenonT(60)
  <2> QED BY <1>1, <1>2, <2>1, NothingSent, GivesUp, ZenonT(60) DEF chainVars
<1>3. CASE /\ CommitDeadline(a) < DeadlineAt[a] /\ now > DeadlineAt[a]
           /\ SetJob(a, Off) /\ DeletePendingReveal(a) /\ refused' = refused
  <2>1. Locked'
    BY <1>1, <1>3, OffFields, MutexStep
  <2>2. refused \subseteq refused' /\ refused' \subseteq Assignments /\ now > CommitDeadline(a)
    BY <1>3 DEF DaemonInv, Shapes
  <2> QED BY <1>1, <1>3, <2>1, <2>2, NothingSent, Deletes, ZenonT(60) DEF chainVars
<1>4. CASE /\ SetJob(a, IF ResumesPending(a)
                        THEN Decided(file[a].vote, file[a].recorded, CommitDeadline(a))
                        ELSE [Off EXCEPT !.pc = "sleep"])
           /\ UNCHANGED diskVars
  <2>1. CASE ResumesPending(a)
    <3> DEFINE j == Decided(1, file[a].recorded, CommitDeadline(a))
    <3>1. file[a].vote = 1 /\ file[a].recorded \in BOOLEAN
      BY <2>1, ZenonT(60) DEF ResumesPending, VoteInv, FileRec
    <3>2. /\ j \in JobRec /\ j.pc \in {"lock", "reveal"} /\ j.vote = 1 /\ j.result = ""
          /\ j.pc = "lock" => j.kind = "commit"
          /\ j.pc = "reveal" => j.kind = "reveal"
      BY <3>1, DecidedFields, ZenonT(60)
    <3>3. SetJob(a, j)
      BY <1>4, <2>1, <3>1
    <3> HIDE DEF j
    <3>4. job'[a] = j
      BY <3>3 DEF SetJob
    <3>5. JobInv(a)'
      BY <1>4, <3>1, <3>2, <3>4, ZenonT(60) DEF JobInv, Busy, diskVars
    <3>6. Locked'
      BY <1>1, <3>2, <3>3, MutexStep
    <3> QED BY <1>1, <1>4, <3>2, <3>3, <3>5, <3>6, QuietStep, ZenonT(60)
  <2>2. CASE ~ResumesPending(a)
    <3> DEFINE j == [Off EXCEPT !.pc = "sleep"]
    <3>1. j \in JobRec /\ j.pc = "sleep" /\ j.kind = "" /\ j.result = ""
      BY OffFields, PlaceSet DEF Places
    <3>2. SetJob(a, j)
      BY <1>4, <2>2
    <3> HIDE DEF j
    <3>3. job'[a] = j
      BY <3>2 DEF SetJob
    <3>4. file'[a] = NoFile
      BY <1>4, <2>2, ZenonT(60) DEF ResumesPending, diskVars
    <3>5. JobInv(a)'
      BY <3>1, <3>3, <3>4, ZenonT(60) DEF JobInv, Busy
    <3>6. Locked'
      BY <1>1, <3>1, <3>2, MutexStep
    <3> QED BY <1>1, <1>4, <3>1, <3>2, <3>5, <3>6, QuietStep
  <2> QED BY <2>1, <2>2
<1> QED BY <1>2, <1>3, <1>4 DEF RunAssignment

\* A homepage is fetched only while no nonce has been drawn: without a file and with the
\* commit window open, there was none.
LEMMA CommitStartsStep ==
    ASSUME NEW a \in Assignments, DaemonInv, CommitStarts(a)
    PROVE  DaemonInv'
<1>0. Known(a)
  BY OfAssignment
<1> USE <1>0 DEF Known
<1>1. /\ job[a].pc = "sleep" /\ mu' = mu
      /\ UNCHANGED <<now, window, poll, diskVars, nonces, chainVars>>
  BY ZenonT(60) DEF CommitStarts
<1>2. CASE now > CommitDeadline(a)
  <2>1. SetJob(a, Off)
    BY <1>2, ZenonT(60) DEF CommitStarts
  <2>2. Locked'
    BY <1>1, <2>1, OffFields, MutexStep, ZenonT(60)
  <2> QED BY <1>1, <2>1, <2>2, NothingSent, GivesUp DEF chainVars
<1>3. CASE ~(now > CommitDeadline(a))
  <2> DEFINE j == [job[a] EXCEPT !.pc = "verify"]
  <2>1. j \in JobRec /\ j.pc = "verify" /\ j.kind = job[a].kind /\ j.result = job[a].result
    BY PlaceSet DEF Places
  <2>2. SetJob(a, j)
    BY <1>3 DEF CommitStarts
  <2> HIDE DEF j
  <2>3. job'[a] = j
    BY <2>2, ZenonT(60) DEF SetJob
  <2>4. file[a].vote = 0 /\ file[a] = NoFile
    BY <1>1, OffFields DEF JobInv
  <2>5. nonces[a] = 0
    BY <1>3, <2>4 DEF VoteInv
  <2>6. job[a].result = ""
    BY <1>1, ZenonT(60) DEF JobInv
  <2>7. JobInv(a)'
    BY <1>1, <2>1, <2>3, <2>4, <2>5, <2>6, ZenonT(60) DEF JobInv, Busy, diskVars
  <2>8. Locked'
    BY <1>1, <2>1, <2>2, MutexStep
  <2> QED BY <1>1, <2>1, <2>2, <2>7, <2>8, QuietStep
<1> QED BY <1>2, <1>3

\* A save concerns one file.
LEMMA Saves ==
    ASSUME NEW a \in Assignments, NEW recorded \in BOOLEAN, DaemonInv, SavePendingReveal(a, 1, recorded)
    PROVE  /\ file' \in [Assignments -> FileRec] /\ file'[a].vote = 1
           /\ \A b \in Assignments \ {a} : file'[b] = file[b]
<1> DEFINE r == [vote |-> 1, recorded |-> recorded]
<1>1. r \in FileRec /\ r.vote = 1
  BY DEF FileRec
<1>2. file \in [Assignments -> FileRec] /\ file' = [file EXCEPT ![a] = r]
  BY ZenonT(60) DEF DaemonInv, Shapes, SavePendingReveal
<1> HIDE DEF r
<1> QED BY <1>1, <1>2

\* The vote of the one nonce is saved before anything is sent.
LEMMA VerifiedStep ==
    ASSUME NEW a \in Assignments, DaemonInv, Verified(a)
    PROVE  DaemonInv'
<1>0. Known(a)
  BY OfAssignment, ZenonT(60)
<1> USE <1>0 DEF Known
<1>1. /\ job[a].pc = "verify" /\ mu' = mu /\ nonces[a] < MaxNonces
      /\ nonces' = [nonces EXCEPT ![a] = nonces[a] + 1]
      /\ UNCHANGED <<now, window, poll, refused, chainVars>>
  BY ZenonT(60) DEF Verified
<1>2. nonces[a] = 0 /\ nonces \in [Assignments -> {0, 1}]
  BY <1>1, ZenonT(60) DEF JobInv, DaemonInv, Shapes
<1>3. /\ nonces' \in [Assignments -> {0, 1}] /\ nonces'[a] = 1
      /\ \A b \in Assignments \ {a} : nonces'[b] = nonces[b]
  BY <1>1, <1>2
<1>4. 1 <= MaxNonces
  BY <1>1, <1>2, Parameters, SMTT(60)
<1> DEFINE j == Decided(1, FALSE, CommitDeadline(a))
<1>5. SavePendingReveal(a, 1, FALSE) /\ SetJob(a, j)
  BY <1>3, Zenon DEF Verified
<1>6. /\ j \in JobRec /\ j.pc \in {"lock", "reveal"} /\ j.vote = 1 /\ j.result = ""
      /\ j.pc = "lock" => j.kind = "commit"
      /\ j.pc = "reveal" => j.kind = "reveal"
  BY DecidedFields
<1> HIDE DEF j
<1>7. /\ file' \in [Assignments -> FileRec] /\ file'[a].vote = 1
      /\ \A b \in Assignments \ {a} : file'[b] = file[b]
  BY <1>5, Saves, Zenon
<1>8. job'[a] = j
  BY <1>5 DEF SetJob
<1>9. JobInv(a)'
  BY <1>6, <1>7, <1>8, ZenonT(60) DEF JobInv, Busy
<1>10. VoteInv(a)'
  BY <1>1, <1>3, <1>4, <1>7, SMTT(60) DEF VoteInv, chainVars
<1>11. TxInv(a)'
  BY <1>1, <1>2 DEF TxInv, chainVars
<1>12. AssignmentInv(a)'
  BY <1>9, <1>10, <1>11, ZenonT(60) DEF AssignmentInv
<1>13. Locked'
  BY <1>1, <1>5, <1>6, MutexStep
<1> QED BY <1>1, <1>3, <1>5, <1>6, <1>7, <1>12, <1>13, LocalStep, ZenonT(60) DEF DaemonInv, Shapes, chainVars

\* A goroutine that fails keeps what is in its file.
LEMMA RunFailsStep ==
    ASSUME NEW a \in Assignments, DaemonInv, RunFails(a)
    PROVE  DaemonInv'
<1>1. /\ job[a].pc \in {"start", "verify", "record"} /\ SetJob(a, Off) /\ mu' = mu
      /\ UNCHANGED <<now, window, poll, diskVars, nonces, chainVars>>
  BY ZenonT(60) DEF RunFails
<1>2. Locked'
  BY <1>1, OfAssignment, OffFields, MutexStep, ZenonT(60) DEF Known
<1> QED BY <1>1, <1>2, NothingSent, GivesUp DEF chainVars

\* The recorded commit is noted in the file.
LEMMA RecordCommitStep ==
    ASSUME NEW a \in Assignments, DaemonInv, RecordCommit(a)
    PROVE  DaemonInv'
<1>0. Known(a)
  BY OfAssignment
<1> USE <1>0 DEF Known
<1>1. /\ job[a].pc = "record" /\ mu' = mu
      /\ UNCHANGED <<now, window, poll, refused, nonces, chainVars>>
  BY ZenonT(60) DEF RecordCommit
<1>2. job[a].vote = 1 /\ file[a].vote = 1 /\ job[a].result = ""
  BY <1>1, ZenonT(60) DEF JobInv
<1>3. nonces[a] = 1
  BY <1>2, ZenonT(60) DEF VoteInv
<1> DEFINE j == [job[a] EXCEPT !.pc = "reveal", !.kind = "reveal"]
<1>4. SavePendingReveal(a, 1, TRUE) /\ SetJob(a, j)
  BY <1>2 DEF RecordCommit
<1>5. j \in JobRec /\ j.pc = "reveal" /\ j.kind = "reveal" /\ j.vote = job[a].vote /\ j.result = job[a].result
  BY ZenonT(60) DEF JobRec, JobKinds, Places
<1> HIDE DEF j
<1>6. /\ file' \in [Assignments -> FileRec] /\ file'[a].vote = 1
      /\ \A b \in Assignments \ {a} : file'[b] = file[b]
  BY <1>4, Saves, Zenon
<1>7. job'[a] = j
  BY <1>4 DEF SetJob
<1>8. JobInv(a)'
  BY <1>2, <1>5, <1>6, <1>7, ZenonT(60) DEF JobInv, Busy
<1>9. VoteInv(a)'
  BY <1>1, <1>3, <1>6, SMTT(60) DEF VoteInv, chainVars
<1>10. TxInv(a)'
  BY <1>1, ZenonT(60) DEF TxInv, RevealAt, CommitDeadline, chainVars
<1>11. AssignmentInv(a)'
  BY <1>8, <1>9, <1>10, ZenonT(60) DEF AssignmentInv
<1>12. Locked'
  BY <1>1, <1>4, <1>5, MutexStep, ZenonT(60)
<1> QED BY <1>1, <1>4, <1>5, <1>6, <1>11, <1>12, LocalStep, ZenonT(60) DEF DaemonInv, Shapes, chainVars

\* A reveal is sent after RevealAt, or it is too late for it.
LEMMA RevealStartsStep ==
    ASSUME NEW a \in Assignments, DaemonInv, RevealStarts(a)
    PROVE  DaemonInv'
<1>0. Known(a)
  BY OfAssignment, ZenonT(60)
<1> USE <1>0 DEF Known
<1>1. /\ job[a].pc = "reveal" /\ now >= RevealAt(a) /\ mu' = mu
      /\ UNCHANGED <<now, window, poll, nonces, chainVars>>
  BY ZenonT(60) DEF RevealStarts
<1>2. CASE /\ now > DeadlineAt[a]
           /\ SetJob(a, Off) /\ DeletePendingReveal(a) /\ refused' = refused
  <2>1. Locked'
    BY <1>1, <1>2, OffFields, MutexStep, ZenonT(60)
  <2>2. refused \subseteq refused' /\ refused' \subseteq Assignments /\ now > CommitDeadline(a)
    BY <1>1, <1>2, SMTT(60) DEF DaemonInv, Shapes
  <2> QED BY <1>1, <1>2, <2>1, <2>2, NothingSent, Deletes, ZenonT(60) DEF chainVars
<1>3. CASE Goto(a, "lock") /\ UNCHANGED diskVars
  <2> DEFINE j == [job[a] EXCEPT !.pc = "lock"]
  <2>1. /\ j \in JobRec /\ j.pc = "lock" /\ j.kind = job[a].kind
        /\ j.vote = job[a].vote /\ j.result = job[a].result
    BY PlaceSet, ZenonT(60) DEF Places, Busy
  <2>2. SetJob(a, j)
    BY <1>3 DEF Goto
  <2> HIDE DEF j
  <2>3. job'[a] = j
    BY <2>2 DEF SetJob
  <2>4. RevealAt(a)' = RevealAt(a)
    BY <1>1 DEF RevealAt, CommitDeadline
  <2>5. JobInv(a)'
    BY <1>1, <1>3, <2>1, <2>3, <2>4, Zenon DEF JobInv, Busy, diskVars
  <2>6. Locked'
    BY <1>1, <2>1, <2>2, MutexStep, ZenonT(60)
  <2> QED BY <1>1, <1>3, <2>1, <2>2, <2>5, <2>6, QuietStep, ZenonT(60)
<1> QED BY <1>2, <1>3 DEF RevealStarts

\* The file of a vote that the chain has is not needed any more.
LEMMA ClearPendingStep ==
    ASSUME NEW a \in Assignments, DaemonInv, ClearPending(a)
    PROVE  DaemonInv'
<1>0. Known(a)
  BY OfAssignment, ZenonT(60)
<1> USE <1>0 DEF Known
<1>1. /\ job[a].pc = "clear" /\ mu' = mu /\ refused' = refused
      /\ SetJob(a, Off) /\ DeletePendingReveal(a)
      /\ UNCHANGED <<now, window, poll, nonces, chainVars>>
  BY ZenonT(60) DEF ClearPending
<1>2. chain[a].submission # NoVote /\ now >= RevealAt(a)
  BY <1>1, Zenon DEF JobInv
<1>3. refused \subseteq refused' /\ refused' \subseteq Assignments /\ now > CommitDeadline(a)
  BY <1>1, <1>2, SMTT(60) DEF DaemonInv, Shapes
<1>4. Locked'
  BY <1>1, OffFields, MutexStep, ZenonT(60)
<1> QED BY <1>1, <1>2, <1>3, <1>4, NothingSent, Deletes DEF chainVars

\* A goroutine goes from one place of a submission to the next one.
LEMMA MovesOn ==
    ASSUME NEW a \in Assignments, DaemonInv, NEW j \in JobRec, SetJob(a, j), Locked', Sends(a),
           job[a].pc \in Busy, j.pc \in Busy,
           j.kind = job[a].kind, j.vote = job[a].vote, j.result = "",
           UNCHANGED <<now, window, poll, diskVars, nonces, chain, final, beacons>>
    PROVE  DaemonInv'
<1>0. Known(a)
  BY OfAssignment, ZenonT(60)
<1> USE <1>0 DEF Known
<1>1. job'[a] = j
  BY ZenonT(60) DEF SetJob
<1>2. RevealAt(a)' = RevealAt(a)
  BY ZenonT(60) DEF RevealAt, CommitDeadline
<1>3. JobInv(a)'
  BY <1>1, <1>2, ZenonT(60) DEF JobInv, Busy, diskVars
<1>4. VoteInv(a)' /\ TxInv(a)'
  BY ZenonT(60) DEF VoteInv, Sends, CommitDeadline, diskVars
<1>5. AssignmentInv(a)'
  BY <1>3, <1>4, ZenonT(60) DEF AssignmentInv
<1> QED BY <1>5, LocalStep, ZenonT(60) DEF DaemonInv, Shapes, Sends, diskVars

\* A goroutine that runs a command has a vote in its file, and sends that one.
LEMMA SendsVote ==
    ASSUME NEW a \in Assignments, DaemonInv, job[a].pc = "exec",
           mempool' = mempool \cup {TxOf(a)}, UNCHANGED <<now, window, nonces>>
    PROVE  Sends(a)
<1>0. Known(a)
  BY OfAssignment, ZenonT(60)
<1> USE <1>0 DEF Known
<1>1. /\ job[a].vote = 1 /\ job[a].kind \in {"commit", "reveal"} /\ nonces[a] = 1
      /\ job[a].kind = "reveal" => now >= RevealAt(a)
  BY ZenonT(60) DEF JobInv, VoteInv, Busy
<1> DEFINE t == TxOf(a)
<1>2. t \in Tx /\ t.from = a /\ t.kind = job[a].kind /\ t.vote = 1
  <2>1. job[a].round \in Int /\ a \in Clients
    BY Parameters, ZenonT(60) DEF JobRec
  <2> QED BY <1>1, <2>1 DEF TxOf, Tx
<1> HIDE DEF t
<1>3. mempool' = mempool \cup {t} /\ mempool \subseteq Tx
  BY ZenonT(60) DEF t, DaemonInv, Shapes
<1>4. RevealAt(a)' = RevealAt(a)
  BY ZenonT(60) DEF RevealAt, CommitDeadline
<1>5. TxInv(a)'
  BY <1>1, <1>2, <1>3, <1>4 DEF TxInv
<1> QED BY <1>1, <1>2, <1>3, <1>5, ZenonT(60) DEF Sends

\* submitCommitUntil and submitRevealUntil: the mutex is freed, and a file is deleted only
\* for a reveal that was refused or is too late.
LEMMA JobAnsweredStep ==
    ASSUME NEW a \in Assignments, DaemonInv, NEW outcome \in {"ok", "already", "retriable", "error"},
           job[a].pc \in {"exec", "wait"}, JobAnswered(a, outcome), Unlock(outcome), Sends(a),
           job[a].kind = "reveal" /\ outcome \in {"ok", "already"} => chain[a].submission # NoVote,
           UNCHANGED <<now, window, poll, nonces, chain, final, beacons>>
    PROVE  DaemonInv'
<1>0. Known(a)
  BY OfAssignment, ZenonT(60)
<1> USE <1>0 DEF Known
<1>1. mu = a /\ mu' = Nobody
  BY ZenonT(60) DEF Locked, Unlock
<1>2. /\ job[a].vote = 1 /\ file[a].vote = 1 /\ job[a].kind \in {"commit", "reveal"}
      /\ job[a].kind = "reveal" => now >= RevealAt(a)
  BY DEF JobInv, Busy
<1> DEFINE q == [job[a] EXCEPT !.result = ""]
<1>3. /\ q \in JobRec /\ q.pc = job[a].pc /\ q.kind = job[a].kind /\ q.vote = job[a].vote
      /\ q.result = ""
  BY DEF JobRec, Answers
<1>4. CASE /\ outcome \in {"ok", "already"}
           /\ SetJob(a, [q EXCEPT !.pc = IF q.kind = "commit" THEN "record" ELSE "clear"])
           /\ UNCHANGED diskVars
  <2> HIDE DEF q
  <2> DEFINE place == IF q.kind = "commit" THEN "record" ELSE "clear"
             j == [q EXCEPT !.pc = place]
  <2>1. place \in {"record", "clear"} /\ (place = "record" <=> q.kind = "commit")
    OBVIOUS
  <2>2. SetJob(a, j)
    BY <1>4
  <2> HIDE DEF place
  <2>3. j \in JobRec /\ j.pc = place /\ j.kind = q.kind /\ j.vote = q.vote /\ j.result = q.result
    BY <1>3, <2>1, PlaceSet, ZenonT(60) DEF Places
  <2> HIDE DEF j
  <2>4. job'[a] = j
    BY <2>2, ZenonT(60) DEF SetJob
  <2>5. RevealAt(a)' = RevealAt(a)
    BY DEF RevealAt, CommitDeadline
  <2>6. JobInv(a)'
    BY <1>2, <1>3, <1>4, <2>1, <2>3, <2>4, <2>5, ZenonT(60) DEF JobInv, Busy, diskVars
  <2>7. VoteInv(a)' /\ TxInv(a)'
    BY <1>4, ZenonT(60) DEF VoteInv, Sends, CommitDeadline, diskVars
  <2>8. AssignmentInv(a)'
    BY <2>6, <2>7, ZenonT(60) DEF AssignmentInv
  <2>9. Locked'
    BY <1>1, <2>1, <2>3, <2>2, MutexStep
  <2> QED BY <1>4, <2>3, <2>2, <2>8, <2>9, LocalStep, ZenonT(60) DEF DaemonInv, Shapes, Sends, diskVars
<1>5. CASE /\ SetJob(a, [q EXCEPT !.pc = "backoff",
                                  !.wake = Earlier(now + RetryBackoff, UntilOf(a))])
           /\ UNCHANGED diskVars
  <2>1. Earlier(now + RetryBackoff, UntilOf(a)) \in Nat
    BY Parameters DEF Earlier, UntilOf
  <2> HIDE DEF q
  <2> DEFINE w == Earlier(now + RetryBackoff, UntilOf(a))
  <2> HIDE DEF w
  <2> DEFINE j == [q EXCEPT !.pc = "backoff", !.wake = w]
  <2>2. j \in JobRec /\ j.pc = "backoff" /\ j.kind = q.kind /\ j.vote = q.vote /\ j.result = q.result
    BY <1>3, <2>1 DEF JobRec, Places, Busy, w
  <2>3. SetJob(a, j)
    BY <1>5, ZenonT(60) DEF w
  <2> HIDE DEF j
  <2>4. Locked'
    BY <1>1, <2>2, <2>3, MutexStep, ZenonT(60)
  <2> QED BY <1>3, <1>5, <2>2, <2>3, <2>4, MovesOn, ZenonT(60) DEF Busy
<1>6. CASE SetJob(a, Off) /\ UNCHANGED diskVars
  <2>1. Locked'
    BY <1>1, <1>6, OffFields, MutexStep
  <2> QED BY <1>6, <2>1, GivesUp, ZenonT(60)
<1>7. CASE /\ SetJob(a, Off) /\ DeletePendingReveal(a) /\ q.kind = "reveal"
           /\ outcome # "retriable" \/ now > DeadlineAt[a]
           /\ refused' = IF outcome = "retriable" THEN refused ELSE refused \cup {a}
  <2>1. Locked'
    BY <1>1, <1>7, OffFields, MutexStep, ZenonT(60)
  <2>2. now > CommitDeadline(a)
    <3>1. job[a].kind = "reveal"
      BY <1>3, <1>7
    <3> QED BY <1>2, <3>1
  <2>3. /\ refused \subseteq refused' /\ refused' \subseteq Assignments
        /\ a \in refused' \/ now > DeadlineAt[a]
    BY <1>7 DEF DaemonInv, Shapes
  <2> QED BY <1>7, <2>1, <2>2, <2>3, Deletes
<1> QED BY <1>4, <1>5, <1>6, <1>7, ZenonT(60) DEF JobAnswered

\* A step of the relay in the poll loop.
LEMMA RelayStep ==
    ASSUME DaemonInv, NEW j \in JobRec, SetJob(Relay, j), Locked',
           j.pc \in {"off", "lock", "exec", "wait"}, j.pc # "off" => j.kind = "beacon",
           mempool' \subseteq Tx,
           \A t \in mempool' : t \in mempool \/ (t.from = Relay /\ t.kind = "beacon"),
           poll' = poll \/ PollInv', job[Relay].pc # "off" \/ PollInv',
           UNCHANGED <<now, window, diskVars, nonces, chain, final, beacons>>
    PROVE  DaemonInv'
<1>1. job \in [Clients -> JobRec] /\ Relay \in Clients
  BY Parameters DEF DaemonInv, Shapes
<1>2. job' \in [Clients -> JobRec] /\ job'[Relay] = j /\ \A c \in Clients \ {Relay} : job'[c] = job[c]
  BY <1>1, ZenonT(60) DEF SetJob
<1>3. Shapes'
  BY <1>2, ZenonT(60) DEF DaemonInv, Shapes, diskVars
<1>4. RelayInv'
  BY <1>2, ZenonT(60) DEF DaemonInv, RelayInv
<1>5. PollInv'
  BY <1>2, ZenonT(60) DEF DaemonInv, PollInv
<1>6. ASSUME NEW b \in Assignments PROVE AssignmentInv(b)'
  <2>1. b # Relay /\ b \in Clients /\ now' \in Nat /\ now <= now'
    <3>1. b # Relay /\ b \in Clients /\ now \in 0 .. MaxTime /\ MaxTime \in Nat
      BY Parameters DEF DaemonInv, Shapes
    <3> QED BY <3>1, SMTT(60)
  <2>2. job'[b] = job[b] /\ \A t \in mempool' : t.from = b => t \in mempool
    BY <1>2, <2>1
  <2> QED BY <2>1, <2>2, Frame, ZenonT(60) DEF DaemonInv, diskVars
<1> QED BY <1>3, <1>4, <1>6, <1>5, ZenonT(60) DEF DaemonInv

\* txMu is taken by one client while nobody has it.
LEMMA TakeLockStep ==
    ASSUME NEW c \in Clients, DaemonInv, TakeLock(c)
    PROVE  DaemonInv'
<1> DEFINE j == [job[c] EXCEPT !.pc = "exec"]
<1>1. /\ job[c].pc = "lock" /\ mu = Nobody /\ mu' = c /\ SetJob(c, j)
      /\ UNCHANGED <<now, window, poll, diskVars, nonces, chainVars>>
  BY DEF TakeLock, Goto
<1>2. job \in [Clients -> JobRec] /\ Locked
  BY ZenonT(60) DEF DaemonInv, Shapes
<1>3. j \in JobRec /\ j.pc = "exec" /\ j.kind = job[c].kind /\ j.vote = job[c].vote /\ j.result = job[c].result
  BY <1>2, PlaceSet, ZenonT(60) DEF Places, Busy
<1> HIDE DEF j
<1>4. Locked'
  BY <1>1, <1>2, <1>3, MutexStep
<1>5. CASE c \in Assignments
  <2>1. job[c].result = ""
    BY <1>1, <1>5, OfAssignment, ZenonT(60) DEF JobInv, Known
  <2> QED BY <1>1, <1>3, <1>4, <1>5, <2>1, NothingSent, MovesOn DEF Busy, chainVars
<1>6. CASE c = Relay
  <2>1. j.kind = "beacon" /\ mempool' \subseteq Tx
    BY <1>1, <1>3, <1>6 DEF DaemonInv, RelayInv, Shapes, chainVars
  <2> QED BY <1>1, <1>3, <1>4, <1>6, <2>1, RelayStep, ZenonT(60) DEF chainVars
<1> QED BY <1>5, <1>6 DEF Clients

\* A transaction that is broadcast has the vote of the file.
LEMMA BroadcastStep ==
    ASSUME NEW c \in Clients, DaemonInv, Broadcast(c)
    PROVE  DaemonInv'
<1> DEFINE j == [job[c] EXCEPT !.pc = "wait"]
<1>1. /\ job[c].pc = "exec" /\ mu' = mu /\ SetJob(c, j) /\ mempool' = mempool \cup {TxOf(c)}
      /\ UNCHANGED <<now, window, poll, diskVars, nonces, chain, final, beacons>>
  BY DEF Broadcast, Goto
<1>2. job \in [Clients -> JobRec] /\ Locked
  BY ZenonT(60) DEF DaemonInv, Shapes
<1>3. j \in JobRec /\ j.pc = "wait" /\ j.kind = job[c].kind /\ j.vote = job[c].vote /\ j.result = job[c].result
  BY <1>2, PlaceSet, ZenonT(60) DEF Places, Busy
<1> HIDE DEF j
<1>4. Locked'
  BY <1>1, <1>2, <1>3, MutexStep
<1>5. CASE c \in Assignments
  <2>1. job[c].result = ""
    BY <1>1, <1>5, OfAssignment, ZenonT(60) DEF JobInv, Known
  <2>2. Sends(c)
    BY <1>1, <1>5, SendsVote, ZenonT(60)
  <2> QED BY <1>1, <1>3, <1>4, <1>5, <2>1, <2>2, MovesOn DEF Busy
<1>6. CASE c = Relay
  <2>1. j.kind = "beacon" /\ job[Relay].kind = "beacon" /\ job[Relay] \in JobRec
    BY <1>1, <1>2, <1>3, <1>6, ZenonT(60) DEF DaemonInv, RelayInv
  <2>2. TxOf(Relay) \in Tx /\ TxOf(Relay).from = Relay /\ TxOf(Relay).kind = "beacon"
    BY <2>1, Parameters, ZenonT(60) DEF TxOf, Tx, JobRec
  <2>3. mempool' \subseteq Tx /\ \A t \in mempool' : t \in mempool \/ t = TxOf(Relay)
    BY <1>1, <1>6, <2>2, ZenonT(60) DEF DaemonInv, Shapes
  <2> QED BY <1>1, <1>3, <1>4, <1>6, <2>1, <2>2, <2>3, RelayStep, ZenonT(60)
<1> QED BY <1>5, <1>6 DEF Clients

\* An answer to a command, of an assignment or of the relay.
LEMMA AnsweredStep ==
    ASSUME NEW c \in Clients, DaemonInv, NEW outcome \in {"ok", "already", "retriable", "error"},
           job[c].pc \in {"exec", "wait"}, Answered(c, outcome),
           mempool' = mempool \/ (job[c].pc = "exec" /\ mempool' = mempool \cup {TxOf(c)}),
           c \in Assignments /\ job[c].kind = "reveal" /\ outcome \in {"ok", "already"}
               => chain[c].submission # NoVote,
           UNCHANGED <<now, window, poll, nonces, chain, final, beacons>>
    PROVE  DaemonInv'
<1>1. CASE c \in Assignments
  <2>1. c # Relay
    BY <1>1, Parameters, ZenonT(60)
  <2>2. Sends(c)
    BY <1>1, NothingSent, SendsVote, ZenonT(60)
  <2>3. Unlock(outcome) /\ JobAnswered(c, outcome)
    BY <2>1, ZenonT(60) DEF Answered
  <2> QED BY <1>1, <2>2, <2>3, JobAnsweredStep, ZenonT(60)
<1>2. CASE c = Relay
  <2>1. mu' = Nobody /\ SetJob(Relay, Off) /\ UNCHANGED diskVars
    BY <1>2, ZenonT(60) DEF Answered, Unlock
  <2>2. Locked /\ mu = c /\ job \in [Clients -> JobRec]
    BY ZenonT(60) DEF DaemonInv, Locked, Shapes
  <2>3. Locked'
    BY <1>2, <2>1, <2>2, OffFields, MutexStep, ZenonT(60)
  <2>4. job[Relay].kind = "beacon" /\ job[Relay] \in JobRec
    BY <1>2, <2>2, Parameters, ZenonT(60) DEF DaemonInv, RelayInv
  <2>5. TxOf(Relay) \in Tx /\ TxOf(Relay).from = Relay /\ TxOf(Relay).kind = "beacon"
    BY <2>4, Parameters, ZenonT(60) DEF TxOf, Tx, JobRec
  <2>6. mempool' \subseteq Tx /\ \A t \in mempool' : t \in mempool \/ t = TxOf(Relay)
    BY <1>2, <2>5 DEF DaemonInv, Shapes
  <2> QED BY <1>2, <2>1, <2>3, <2>5, <2>6, OffFields, RelayStep, ZenonT(60)
<1> QED BY <1>1, <1>2, ZenonT(60) DEF Clients

\* However a command of the node ends, the invariant holds.
LEMMA CommandStep ==
    ASSUME NEW c \in Clients, DaemonInv, Command(c)
    PROVE  DaemonInv'
<1>1. CASE Broadcast(c)
  BY <1>1, BroadcastStep, ZenonT(60)
<1>2. CASE ExecFails(c)
  BY <1>2, AnsweredStep, ZenonT(60) DEF ExecFails, chainVars
<1>3. CASE ExecLost(c)
  <2>1. /\ job[c].pc = "exec" /\ Answered(c, "error") /\ mempool' = mempool \cup {TxOf(c)}
        /\ UNCHANGED <<now, window, nonces, poll, chain, final, beacons>>
    BY <1>3 DEF ExecLost
  <2> QED BY <2>1, AnsweredStep, ZenonT(60)
<1>4. CASE WaitFails(c)
  BY <1>4, AnsweredStep, ZenonT(60) DEF WaitFails, chainVars
<1>5. CASE WaitAnswered(c)
  <2>1. /\ job[c].pc = "wait" /\ job[c].result # "" /\ Answered(c, job[c].result)
        /\ UNCHANGED <<now, window, poll, nonces, chainVars>>
    BY <1>5 DEF WaitAnswered
  <2>2. job[c] \in JobRec
    BY DEF DaemonInv, Shapes
  <2>3. job[c].result \in {"ok", "already", "retriable", "error"}
    BY <2>1, <2>2, ZenonT(60) DEF JobRec, Answers
  <2>4. c \in Assignments /\ job[c].kind = "reveal" /\ job[c].result \in {"ok", "already"}
            => chain[c].submission # NoVote
    BY OfAssignment, ZenonT(60) DEF JobInv, Known
  <2> QED BY <2>1, <2>3, <2>4, AnsweredStep, ZenonT(60) DEF chainVars
<1> QED BY <1>1, <1>2, <1>3, <1>4, <1>5 DEF Command

\* A retry of a submission.
LEMMA BackoffOverStep ==
    ASSUME NEW a \in Assignments, DaemonInv, BackoffOver(a)
    PROVE  DaemonInv'
<1>0. Known(a)
  BY OfAssignment
<1> USE <1>0 DEF Known
<1> DEFINE j == [job[a] EXCEPT !.pc = "lock", !.wake = 0]
<1>1. /\ job[a].pc = "backoff" /\ mu' = mu /\ SetJob(a, j)
      /\ UNCHANGED <<now, window, poll, diskVars, nonces, chainVars>>
  BY DEF BackoffOver
<1>2. j \in JobRec /\ j.pc = "lock" /\ j.kind = job[a].kind /\ j.vote = job[a].vote /\ j.result = job[a].result
  BY ZenonT(60) DEF JobRec, Places, Busy
<1> HIDE DEF j
<1>3. job[a].result = ""
  BY <1>1, ZenonT(60) DEF JobInv
<1>4. Locked'
  BY <1>1, <1>2, MutexStep
<1> QED BY <1>1, <1>2, <1>3, <1>4, NothingSent, MovesOn, ZenonT(60) DEF Busy, chainVars

\* A step that leaves the goroutines, the files and the chain alone: a poll, or time.
LEMMA StillStep ==
    ASSUME DaemonInv, now' \in 0 .. MaxTime, now <= now', PollInv',
           final' \subseteq Assignments, beacons' \subseteq Int, mempool' \subseteq mempool,
           UNCHANGED <<window, diskVars, nonces, job, mu, chain>>
    PROVE  DaemonInv'
<1>1. Shapes' /\ Locked' /\ RelayInv'
  BY ZenonT(60) DEF DaemonInv, Shapes, Locked, RelayInv, diskVars
<1>2. ASSUME NEW b \in Assignments PROVE AssignmentInv(b)'
  <2>1. now' \in Nat
    BY Parameters
  <2> QED BY <2>1, Frame, ZenonT(60) DEF DaemonInv, diskVars
<1> QED BY <1>1, <1>2, ZenonT(60) DEF DaemonInv

\* A step of the poll loop alone.
LEMMA PollsOnly ==
    ASSUME DaemonInv, PollInv', UNCHANGED <<now, window, diskVars, nonces, job, mu, chainVars>>
    PROVE  DaemonInv'
<1>1. /\ now' \in 0 .. MaxTime /\ now <= now' /\ mempool' \subseteq mempool
      /\ final' \subseteq Assignments /\ beacons' \subseteq Int
  BY Parameters, SMTT(60) DEF DaemonInv, Shapes, chainVars
<1> QED BY <1>1, StillStep, ZenonT(60) DEF chainVars

\* The scan has another entry to start, or none.
LEMMA ScanningPolls ==
    ASSUME NEW left, NEW late, NEW next
    PROVE  Scanning(left, late, next).pc # "scan" => Scanning(left, late, next).next = Nobody
BY DEF Scanning, NoScan

\* PollOnce starts goroutines that are not running and sends nothing by itself.
LEMMA PollStep ==
    ASSUME DaemonInv, Poll
    PROVE  DaemonInv'
<1>1. CASE RelayRequiredDrand
  <2> DEFINE j(n) == [Off EXCEPT !.pc = "lock", !.kind = "beacon", !.round = n]
  <2>0. PICK at \in BlockTimes : SetJob(Relay, j(DrandRequirement(at)))
    BY <1>1 DEF RelayRequiredDrand
  <2> DEFINE i == j(DrandRequirement(at))
  <2>1. /\ poll.pc = "idle" /\ mu' = mu /\ SetJob(Relay, i)
        /\ UNCHANGED <<now, window, diskVars, nonces, chainVars>>
    BY <1>1, <2>0 DEF RelayRequiredDrand
  <2>2. i \in JobRec /\ i.pc = "lock" /\ i.kind = "beacon"
    <3>1. DrandRequirement(at) \in Int
      BY BeaconRounds, ZenonT(60) DEF DaemonInv
    <3>2. "lock" \in Places /\ "beacon" \in JobKinds /\ Off \in JobRec
      BY OffFields, ZenonT(60) DEF Places, Busy, JobKinds
    <3> QED BY <3>1, <3>2 DEF JobRec
  <2> HIDE DEF i
  <2>3. job[Relay].pc \notin {"exec", "wait"}
    BY <2>1, ZenonT(60) DEF DaemonInv, PollInv
  <2>4. Locked'
    BY <2>1, <2>2, <2>3, Parameters, MutexStep, ZenonT(60) DEF DaemonInv, Shapes
  <2>5. PollInv'
    BY <1>1, ZenonT(60) DEF RelayRequiredDrand, PollInv, NoScan
  <2> QED BY <2>1, <2>2, <2>4, <2>5, RelayStep DEF DaemonInv, Shapes, chainVars
<1>2. CASE QueryAssignments
  <2>1. job[Relay].pc = "off"
    BY <1>2, ZenonT(60) DEF QueryAssignments, DaemonInv, PollInv
  <2>2. PollInv'
    <3>1. job' = job /\ \E left, late, next : poll' = Scanning(left, late, next)
      BY <1>2, ZenonT(60) DEF QueryAssignments
    <3>2. PICK left, late, next : poll' = Scanning(left, late, next)
      BY <3>1, ZenonT(60)
    <3> QED BY <2>1, <3>1, <3>2, ScanningPolls, ZenonT(60) DEF PollInv
  <2> QED BY <1>2, <2>2, PollsOnly, ZenonT(60) DEF QueryAssignments
<1>3. ASSUME NEW a \in Assignments, ScanEntry(a) PROVE DaemonInv'
  <2>1. job[Relay].pc = "off"
    BY <1>3, ZenonT(60) DEF ScanEntry, DaemonInv, PollInv
  <2>2. PollInv'
    <3>1. job' = job /\ \E left, late, next : poll' = Scanning(left, late, next)
      BY <1>3, ZenonT(60) DEF ScanEntry
    <3>2. PICK left, late, next : poll' = Scanning(left, late, next)
      BY <3>1, ZenonT(60)
    <3> QED BY <2>1, <3>1, <3>2, ScanningPolls, ZenonT(60) DEF PollInv
  <2>3. UNCHANGED <<now, window, diskVars, nonces, job, mu, chainVars>>
    BY <1>3 DEF ScanEntry
  <2> QED BY <2>2, <2>3, PollsOnly, ZenonT(60)
<1>4. ASSUME NEW a \in Assignments, Launch(a) PROVE DaemonInv'
  <2>1. mu' = mu /\ UNCHANGED <<now, window, diskVars, nonces, chainVars>>
    BY <1>4 DEF Launch
  <2>2. a # Relay /\ Relay \in Clients /\ poll.next # Nobody
    BY <1>4, Parameters DEF Launch
  <2>3. job[Relay].pc = "off" /\ job'[Relay] = job[Relay]
    BY <1>4, <2>2 DEF Launch, DaemonInv, PollInv, Shapes
  <2>4. PollInv'
    BY <1>4, <2>3, ScanningPolls, ZenonT(60) DEF Launch, PollInv
  <2>5. CASE job[a].pc = "off"
    <3> DEFINE j == [Off EXCEPT !.pc = "start"]
    <3>1. SetJob(a, j)
      BY <1>4, <2>5 DEF Launch, SetJob
    <3>2. j \in JobRec /\ j.pc = "start" /\ j.kind = "" /\ j.result = ""
      BY OffFields, PlaceSet DEF Places
    <3> HIDE DEF j
    <3>3. job'[a] = j
      BY <3>1, OfAssignment DEF SetJob, Known
    <3>4. JobInv(a)'
      BY <3>2, <3>3, IdleJob, ZenonT(60)
    <3>5. Locked'
      BY <2>1, <2>5, <3>1, <3>2, OfAssignment, MutexStep, ZenonT(60) DEF Known
    <3> QED BY <2>1, <2>4, <3>1, <3>2, <3>4, <3>5, QuietStep
  <2>6. CASE job[a].pc # "off"
    BY <1>4, <2>1, <2>6, <2>4, PollsOnly, ZenonT(60) DEF Launch
  <2> QED BY <2>5, <2>6
<1> QED BY <1>1, <1>2, <1>3, <1>4, ZenonT(60) DEF Poll

\* A crash: no goroutine is left, the files are.
LEMMA CrashStep ==
    ASSUME DaemonInv, Crash
    PROVE  DaemonInv'
<1>1. /\ job' = [c \in Clients |-> Off] /\ mu' = Nobody
      /\ UNCHANGED <<now, window, diskVars, nonces, chainVars>>
  BY ZenonT(60) DEF Crash
<1>2. PollInv'
  BY OffFields, Parameters DEF Crash, PollInv, NoScan
<1>3. job' \in [Clients -> JobRec] /\ \A c \in Clients : job'[c] = Off
  BY <1>1, OffFields, ZenonT(60)
<1>4. Shapes'
  BY <1>1, <1>3, ZenonT(60) DEF DaemonInv, Shapes, diskVars, chainVars
<1>5. Locked' /\ RelayInv'
  BY <1>1, <1>3, OffFields, Parameters, ZenonT(60) DEF DaemonInv, Locked, RelayInv, chainVars
<1>6. ASSUME NEW a \in Assignments PROVE AssignmentInv(a)'
  <2>1. JobInv(a)'
    BY <1>3, OffFields, Parameters, IdleJob, ZenonT(60)
  <2>2. VoteInv(a)' /\ TxInv(a)'
    BY <1>1 DEF DaemonInv, AssignmentInv, VoteInv, TxInv, RevealAt, CommitDeadline, diskVars, chainVars
  <2> QED BY <2>1, <2>2, ZenonT(60) DEF AssignmentInv
<1> QED BY <1>4, <1>5, <1>6, <1>2, ZenonT(60) DEF DaemonInv

\* A transaction of an assignment is executed.  A commit is accepted only while there is
\* no submission, and a reveal only with the commit of the same vote.
LEMMA ExecuteStep ==
    ASSUME DaemonInv, NEW t \in mempool, NEW at \in Int, Execute(t, at)
    PROVE  DaemonInv'
<1> DEFINE c == t.from
           answer == TxAnswer(t, at)
<1>1. /\ t \in Tx /\ c \in Clients /\ job \in [Clients -> JobRec]
      /\ chain \in [Assignments -> [commit : {0, 1}, submission : {0, 1}]]
  BY DEF DaemonInv, Shapes, Tx
<1>2. /\ mempool' = mempool \ {t} /\ final' \subseteq Assignments /\ beacons' \subseteq Int
      /\ UNCHANGED <<now, window, poll, diskVars, nonces, mu>>
  BY DEF Execute, DaemonInv, Shapes, Tx
<1>3. answer \in Answers
  BY ZenonT(60) DEF TxAnswer, CommitAnswer, RevealAnswer, Answers
<1>4. /\ job' \in [Clients -> JobRec]
      /\ \A d \in Clients : /\ job'[d].pc = job[d].pc /\ job'[d].kind = job[d].kind
                            /\ job'[d].vote = job[d].vote
                            /\ \/ job'[d].result = job[d].result
                               \/ /\ d = c /\ job[c].pc = "wait" /\ job[c].kind = t.kind
                                  /\ job'[d].result = answer
  <2> HIDE DEF answer
  <2>1. CASE job[c].pc = "wait" /\ job[c].kind = t.kind
    <3>1. job' = [job EXCEPT ![c] = [job[c] EXCEPT !.result = answer]]
      BY <2>1 DEF Execute, answer
    <3> DEFINE j == [job[c] EXCEPT !.result = answer]
    <3>2. /\ j \in JobRec /\ j.pc = job[c].pc /\ j.kind = job[c].kind /\ j.vote = job[c].vote
          /\ j.result = answer
      BY <1>1, <1>3, ZenonT(60) DEF JobRec
    <3> HIDE DEF j
    <3>3. job' = [job EXCEPT ![c] = j]
      BY <3>1 DEF j
    <3> QED BY <1>1, <2>1, <3>2, <3>3, ZenonT(60)
  <2>2. CASE ~(job[c].pc = "wait" /\ job[c].kind = t.kind)
    BY <1>1, <2>2 DEF Execute
  <2> QED BY <2>1, <2>2, ZenonT(60)
<1>5. Locked' /\ RelayInv' /\ PollInv'
  BY <1>2, <1>4, Parameters, ZenonT(60) DEF DaemonInv, Locked, RelayInv, PollInv
<1>6. CASE c = Relay
  <2>1. t.kind = "beacon"
    BY <1>6 DEF DaemonInv, RelayInv
  <2>2. chain' = chain
    BY <2>1, ZenonT(60) DEF Execute
  <2>3. Shapes'
    BY <1>1, <1>2, <1>4, <2>2, ZenonT(60) DEF DaemonInv, Shapes, diskVars
  <2>4. ASSUME NEW b \in Assignments PROVE AssignmentInv(b)'
    <3>1. b # Relay /\ b \in Clients
      BY Parameters, ZenonT(60)
    <3>2. JobInv(b) /\ VoteInv(b) /\ TxInv(b)
      BY OfAssignment DEF Known
    <3>3. RevealAt(b)' = RevealAt(b) /\ CommitDeadline(b)' = CommitDeadline(b)
      BY <1>2, ZenonT(60) DEF RevealAt, CommitDeadline
    <3>4. JobInv(b)'
      BY <1>2, <1>4, <1>6, <2>2, <3>1, <3>2, <3>3, ZenonT(60) DEF JobInv, diskVars
    <3>5. VoteInv(b)' /\ TxInv(b)'
      BY <1>2, <2>2, <3>2, <3>3, ZenonT(60) DEF VoteInv, TxInv, diskVars
    <3> QED BY <3>4, <3>5, ZenonT(60) DEF AssignmentInv
  <2> QED BY <1>5, <2>3, <2>4, ZenonT(60) DEF DaemonInv
<1>7. CASE c \in Assignments
  <2>1. t.vote = 1 /\ nonces[c] = 1 /\ t.kind \in {"commit", "reveal"}
    BY <1>1, <1>7, OfAssignment, Parameters, ZenonT(60) DEF TxInv, DaemonInv, RelayInv, Tx, Known
  <2>2. /\ chain' \in [Assignments -> [commit : {0, 1}, submission : {0, 1}]]
        /\ \A b \in Assignments \ {c} : chain'[b] = chain[b]
        /\ \/ chain'[c] = chain[c]
           \/ chain[c].submission = NoVote /\ chain'[c].submission = NoVote
           \/ chain'[c].submission # NoVote /\ chain'[c].commit = NoVote
        /\ t.kind = "reveal" /\ answer \in {"ok", "already"} => chain'[c].submission # NoVote
    <3>1. CASE t.kind = "commit" /\ answer = "ok"
      <4>1. chain[c].submission = NoVote
        BY <3>1 DEF TxAnswer, CommitAnswer
      <4>2. chain' = [chain EXCEPT ![c].commit = 1]
        BY <2>1, <3>1, ZenonT(60) DEF Execute
      <4> QED BY <1>1, <1>7, <3>1, <4>1, <4>2, ZenonT(60)
    <3>2. CASE t.kind = "reveal" /\ answer = "ok"
      <4>1. chain' = [chain EXCEPT ![c] = [commit |-> 0, submission |-> 1]]
        BY <2>1, <3>2, ZenonT(60) DEF Execute, NoVote
      <4> QED BY <1>1, <1>7, <4>1 DEF NoVote
    <3>3. CASE answer # "ok"
      <4>1. chain' = chain
        BY <3>3 DEF Execute
      <4>2. t.kind = "reveal" /\ answer = "already" => chain[c].submission # NoVote
        BY ZenonT(60) DEF TxAnswer, RevealAnswer
      <4> QED BY <1>1, <3>3, <4>1, <4>2, ZenonT(60)
    <3> QED BY <2>1, <3>1, <3>2, <3>3, ZenonT(60)
  <2> HIDE DEF answer
  <2>3. Shapes'
    BY <1>1, <1>2, <1>4, <2>2, ZenonT(60) DEF DaemonInv, Shapes, diskVars
  <2>4. ASSUME NEW b \in Assignments PROVE AssignmentInv(b)'
    <3>1. b \in Clients /\ JobInv(b) /\ VoteInv(b) /\ TxInv(b)
      BY OfAssignment, ZenonT(60) DEF Known
    <3>2. RevealAt(b)' = RevealAt(b) /\ CommitDeadline(b)' = CommitDeadline(b)
      BY <1>2, ZenonT(60) DEF RevealAt, CommitDeadline
    <3>3. TxInv(b)'
      BY <1>2, <3>1, <3>2 DEF TxInv
    <3>4. CASE b # c
      <4>1. JobInv(b)'
        BY <1>2, <1>4, <2>2, <3>1, <3>2, <3>4, ZenonT(60) DEF JobInv, diskVars
      <4>2. VoteInv(b)'
        BY <1>2, <2>2, <3>1, <3>2, <3>4, ZenonT(60) DEF VoteInv, diskVars
      <4> QED BY <3>3, <4>1, <4>2, ZenonT(60) DEF AssignmentInv
    <3>5. CASE b = c
      <4>1. VoteInv(b)'
        BY <1>2, <2>1, <2>2, <3>1, <3>2, <3>5, ZenonT(60) DEF VoteInv, diskVars
      <4>2. chain[c].submission # NoVote => chain'[c].submission # NoVote
        BY <2>2, ZenonT(60)
      <4>3. JobInv(b)'
        BY <1>2, <1>4, <2>2, <3>1, <3>2, <3>5, <4>2, ZenonT(60) DEF JobInv, diskVars
      <4> QED BY <3>3, <4>1, <4>3, ZenonT(60) DEF AssignmentInv
    <3> QED BY <3>4, <3>5, ZenonT(60)
  <2> QED BY <1>5, <2>3, <2>4, ZenonT(60) DEF DaemonInv
<1> QED BY <1>1, <1>6, <1>7, ZenonT(60) DEF Clients

\* Every step of the daemon, of the chain and of the clock keeps the invariant.
LEMMA DaemonSteps == DaemonInv /\ [Next]_vars => DaemonInv'
<1> SUFFICES ASSUME DaemonInv, [Next]_vars PROVE DaemonInv'
  OBVIOUS
<1>1. CASE UNCHANGED vars
  <2>1. UNCHANGED <<now, window, diskVars, nonces, job, mu, poll, chainVars>>
    BY <1>1, ZenonT(60) DEF vars
  <2>2. PollInv'
    BY <2>1, ZenonT(60) DEF DaemonInv, PollInv
  <2> QED BY <2>1, <2>2, PollsOnly, ZenonT(60)
<1>2. ASSUME NEW a \in Assignments, Work(a) PROVE DaemonInv'
  BY <1>2, RunAssignmentStep, CommitStartsStep, VerifiedStep, RunFailsStep, RecordCommitStep,
     RevealStartsStep, ClearPendingStep, BackoffOverStep, ZenonT(60) DEF Work
<1>3. ASSUME NEW c \in Clients, TakeLock(c) \/ Command(c) PROVE DaemonInv'
  BY <1>3, TakeLockStep, CommandStep
<1>4. CASE Poll
  BY <1>4, PollStep
<1>5. CASE Crash
  BY <1>5, CrashStep, ZenonT(60)
<1>6. CASE OtherRelay \/ Tick
  <2>1. /\ now' \in 0 .. MaxTime /\ now <= now' /\ mempool' \subseteq mempool
        /\ final' \subseteq Assignments /\ beacons' \subseteq Int
        /\ UNCHANGED <<window, diskVars, nonces, job, mu, poll, chain>>
    <3>1. now \in 0 .. MaxTime /\ MaxTime \in Nat /\ Shapes
      BY Parameters, ZenonT(60) DEF DaemonInv, Shapes
    <3>2. CASE OtherRelay
      <4>1. PICK at \in BlockTimes : beacons' = beacons \cup {DrandRequirement(at)}
        BY <3>2 DEF OtherRelay
      <4>2. DrandRequirement(at) \in Int
        BY <3>1, BeaconRounds
      <4>3. /\ mempool' \subseteq mempool /\ final' = final
            /\ UNCHANGED <<now, window, diskVars, nonces, job, mu, poll, chain>>
        BY <3>2, ZenonT(60) DEF OtherRelay
      <4>4. final \subseteq Assignments /\ beacons \subseteq Int
        BY <3>1, ZenonT(60) DEF Shapes
      <4>5. beacons' \subseteq Int
        BY <4>1, <4>2, <4>4
      <4>6. now' = now /\ now <= now'
        BY <3>1, <4>3
      <4> QED BY <3>1, <4>3, <4>4, <4>5, <4>6, ZenonT(60)
    <3>3. CASE Tick
      <4>1. now' = now + 1 /\ now < MaxTime
        BY <3>3, ZenonT(60) DEF Tick
      <4>2. now' \in 0 .. MaxTime /\ now <= now'
        BY <3>1, <4>1
      <4>3. UNCHANGED <<window, diskVars, nonces, job, mu, poll, mempool, chain, final, beacons>>
        BY <3>3, ZenonT(60) DEF Tick, chainVars
      <4> QED BY <3>1, <4>2, <4>3, ZenonT(60) DEF Shapes
    <3> QED BY <1>6, <3>2, <3>3, ZenonT(60)
  <2>2. PollInv'
    BY <2>1 DEF DaemonInv, PollInv
  <2> QED BY <2>1, <2>2, StillStep, ZenonT(60)
<1>7. ASSUME NEW t \in mempool, Drop(t) PROVE DaemonInv'
  <2>1. /\ mempool' \subseteq mempool
        /\ UNCHANGED <<now, window, diskVars, nonces, job, mu, poll, chain, final, beacons>>
    BY <1>7, ZenonT(60) DEF Drop
  <2>2. /\ PollInv' /\ now' = now /\ now \in 0 .. MaxTime
        /\ final' \subseteq Assignments /\ beacons' \subseteq Int
    BY <2>1, ZenonT(60) DEF DaemonInv, PollInv, Shapes
  <2>3. now' \in 0 .. MaxTime /\ now <= now'
    BY <2>2, Parameters
  <2> QED BY <2>1, <2>2, <2>3, StillStep, ZenonT(60)
<1>8. ASSUME NEW t \in mempool, NEW at \in BlockTimes, Execute(t, at) PROVE DaemonInv'
  <2>1. at \in Int
    BY Parameters DEF BlockTimes, DaemonInv, Shapes
  <2> QED BY <1>8, <2>1, ExecuteStep, ZenonT(60)
<1>9. ASSUME NEW a \in Assignments, Finalize(a) PROVE DaemonInv'
  <2>1. /\ final' \subseteq Assignments
        /\ UNCHANGED <<now, window, diskVars, nonces, job, mu, poll, mempool, chain, beacons>>
    BY <1>9 DEF Finalize, DaemonInv, Shapes
  <2>2. PollInv' /\ now' \in 0 .. MaxTime /\ now <= now' /\ beacons' \subseteq Int
    BY <2>1, Parameters DEF DaemonInv, PollInv, Shapes
  <2> QED BY <2>1, <2>2, StillStep, ZenonT(60)
<1> QED BY <1>1, <1>2, <1>3, <1>4, <1>5, <1>6, <1>7, <1>8, <1>9 DEF Next

\* The invariant holds in every behaviour of the daemon.
LEMMA DaemonAlways == SafetySpec => []DaemonInv
BY DaemonStarts, DaemonSteps, PTL DEF SafetySpec

\* The mutex around the transactions of a daemon excludes: whose command runs holds txMu,
\* and an error of a command, a timeout or a crash never leaves it locked.
THEOREM MutexExcludes == SafetySpec => []DaemonTypeOK
<1>1. ASSUME DaemonInv PROVE DaemonTypeOK
  <2>1. ASSUME NEW a \in Assignments
        PROVE  file[a].vote \in Vote /\ chain[a].commit \in Vote /\ chain[a].submission \in Vote
    <3>1. /\ nonces[a] \in {0, 1} /\ nonces[a] <= MaxNonces /\ file[a].vote \in {0, 1}
          /\ nonces[a] = 0 => file[a].vote = 0 /\ chain[a].commit = 0 /\ chain[a].submission = 0
      BY <1>1, OfAssignment, ZenonT(60) DEF VoteInv, FileRec, Known
    <3>2. chain[a].commit \in {0, 1} /\ chain[a].submission \in {0, 1}
      BY <1>1, ZenonT(60) DEF DaemonInv, Shapes
    <3> QED BY <3>1, <3>2, Parameters, SMTT(60) DEF Vote, NoVote
  <2>2. file \in [Assignments -> [vote : Vote, recorded : BOOLEAN]]
    BY <1>1, <2>1, ZenonT(60) DEF DaemonInv, Shapes, FileRec
  <2>3. chain \in [Assignments -> [commit : Vote, submission : Vote]]
    BY <1>1, <2>1 DEF DaemonInv, Shapes
  <2>4. Shapes /\ Locked
    BY <1>1 DEF DaemonInv
  <2> QED BY <2>2, <2>3, <2>4 DEF Shapes, Locked, DaemonTypeOK
<1> QED BY <1>1, DaemonAlways, PTL

\* A vote whose commit is on the chain can be revealed until the deadline, across crashes,
\* timeouts and late transactions, unless its reveal was refused.
THEOREM CommittedVoteSurvives == SafetySpec => []CommittedVoteKept
<1>1. ASSUME DaemonInv PROVE CommittedVoteKept
  <2> SUFFICES ASSUME NEW a \in Assignments, chain[a].commit # NoVote, now <= DeadlineAt[a], a \notin refused
               PROVE  file[a].vote = chain[a].commit
    BY ZenonT(60) DEF CommittedVoteKept
  <2>1. chain[a].commit = 1 /\ file[a].vote \in {0, 1} /\ nonces[a] \in {0, 1}
    BY <1>1, OfAssignment, ZenonT(60) DEF DaemonInv, Shapes, NoVote, FileRec, Known
  <2>2. file[a].vote # 0
    <3>1. VoteInv(a) /\ now \in Nat /\ DeadlineAt[a] \in Nat
      BY <1>1, OfAssignment, ZenonT(60) DEF Known
    <3>2. chain[a].submission = NoVote /\ nonces[a] = 1 /\ ~(now > DeadlineAt[a])
      BY <2>1, <3>1 DEF VoteInv
    <3> QED BY <3>1, <3>2, ZenonT(60) DEF VoteInv
  <2> QED BY <2>1, <2>2, ZenonT(60)
<1> QED BY <1>1, DaemonAlways, PTL

\* A daemon never has two votes on one assignment, in its file, under way or on the chain.
THEOREM VotesOnce == SafetySpec => []OneVote
<1>1. ASSUME DaemonInv PROVE OneVote
  <2> SUFFICES ASSUME NEW a \in Assignments
               PROVE  LET sent == {t.vote : t \in {x \in mempool : x.from = a}}
                          votes == ({file[a].vote, chain[a].commit, chain[a].submission} \cup sent) \ {NoVote}
                      IN  \A v, w \in votes : v = w
    BY ZenonT(60) DEF OneVote
  <2> DEFINE sent == {t.vote : t \in {x \in mempool : x.from = a}}
             votes == ({file[a].vote, chain[a].commit, chain[a].submission} \cup sent) \ {NoVote}
  <2>1. file[a].vote \in {0, 1} /\ chain[a].commit \in {0, 1} /\ chain[a].submission \in {0, 1}
    BY <1>1, OfAssignment, ZenonT(60) DEF DaemonInv, Shapes, FileRec, Known
  <2>2. \A v \in sent : v = 1
    BY <1>1, OfAssignment, ZenonT(60) DEF TxInv, Known
  <2>3. votes \subseteq {1}
    BY <2>1, <2>2 DEF NoVote
  <2> QED BY <2>3
<1> QED BY <1>1, DaemonAlways, PTL

\* No reveal reaches the mempool while a block could still take a commit.
THEOREM RevealsWait == SafetySpec => []RevealAfterCommits
<1>1. ASSUME DaemonInv PROVE RevealAfterCommits
  <2> SUFFICES ASSUME window >= ChainWindow, NEW t \in mempool, t.kind = "reveal", NEW at \in BlockTimes
               PROVE  at > StartAt[t.from] + ChainWindow
    BY ZenonT(60) DEF RevealAfterCommits
  <2>1. t.from \in Assignments
    BY <1>1, ZenonT(60) DEF DaemonInv, RelayInv, Shapes, Tx, Clients
  <2>2. now >= RevealAt(t.from) /\ StartAt[t.from] \in Nat
    BY <1>1, <2>1, OfAssignment, Parameters, ZenonT(60) DEF TxInv, Known
  <2>3. now \in Nat /\ window \in Nat /\ at \in Int /\ at >= now - MaxLag
    BY <1>1, Parameters DEF DaemonInv, Shapes, BlockTimes
  <2> QED BY <2>2, <2>3, Parameters, SMTT(60) DEF RevealAt, CommitDeadline
<1> QED BY <1>1, DaemonAlways, PTL
=============================================================================
