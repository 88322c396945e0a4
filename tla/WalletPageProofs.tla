-------------------------- MODULE WalletPageProofs --------------------------
(***************************************************************************)
(* Proofs about WalletPage, for any number of handlers, any accounts, any  *)
(* forms and any configuration: its handlers implement TxSubmission, the   *)
(* dependency bundle is not imported twice, and what the chain reads of a  *)
(* transaction is what stood in a form that had passed its checks.         *)
(***************************************************************************)
EXTENDS WalletPage, WalletFormsProofs

\* The fields of a handler's record and of its transaction's.
TaskFields ==
    {"kind", "pc", "import", "then", "input", "sender", "asked", "seen", "overtaken", "from",
     "notice", "place"}
TxFields == {"status", "wire", "from", "at"}

\* Where a handler stands that has neither sent a transaction nor ended.
Working == {"idle", "suggest", "enable", "signer", "accounts", "deps", "verify", "client", "sign"}

\* What a handler stands for: one that works has sent and told nothing, one that polls
\* has sent and told nothing.
TaskInv(t, x) ==
    /\ DOMAIN t = TaskFields /\ DOMAIN x = TxFields
    /\ t.pc \in Working \cup {"poll", "done", "gone"}
    /\ t.pc \in Working => t.notice = "none" /\ x.status = "none"
    /\ t.pc = "poll" => t.notice = "none" /\ x.status # "none"

\* The inductive invariant of the refinement.
HandlersInv ==
    /\ DOMAIN task = Handlers /\ DOMAIN tx = Handlers
    /\ \A h \in Handlers : TaskInv(task[h], tx[h])

ledgerBar == [h \in Handlers |-> tx[h].status]
toldBar == [h \in Handlers |-> IF task[h].kind = "connect" THEN "none" ELSE task[h].notice]

\* What a handler that has sent nothing may become in a step that sends nothing: it
\* works on, or it ends with an error, or as a connect button with a success.
Ending(t) ==
    /\ DOMAIN t = TaskFields
    /\ \/ t.pc \in Working \cup {"gone"} /\ t.notice = "none"
       \/ t.pc = "done" /\ t.notice = "failure"
       \/ t.pc = "done" /\ t.notice = "success" /\ t.kind = "connect"

\* A step of a handler that has sent nothing, and sends nothing, is a step of
\* TxSubmission or none.
LEMMA UnsentStep ==
    ASSUME HandlersInv, NEW h \in Handlers, task[h].pc \in Working,
           NEW t, Ending(t), Set(h, t), UNCHANGED tx
    PROVE  /\ HandlersInv'
           /\ [Submission!SubmissionNext]_<<ledgerBar, toldBar>>
<1>1. task' = [task EXCEPT ![h] = t] /\ tx' = tx
  BY DEF Set
<1>2. HandlersInv'
  BY <1>1 DEF HandlersInv, TaskInv, Ending, Working
<1>3. /\ tx[h].status = "none" /\ task[h].notice = "none"
      /\ ledgerBar' = ledgerBar
  BY <1>1 DEF HandlersInv, TaskInv, ledgerBar
<1>4. CASE t.kind = "connect" \/ t.notice = "none"
  <2>1. toldBar' = toldBar
    BY <1>1, <1>3, <1>4, ZenonT(60) DEF HandlersInv, toldBar
  <2>2. QED
    BY <1>2, <1>3, <2>1, ZenonT(60)
<1>5. CASE t.kind # "connect" /\ t.notice # "none"
  <2>1. t.notice = "failure"
    BY <1>5 DEF Ending
  <2>2. toldBar' = [toldBar EXCEPT ![h] = "failure"]
    BY <1>1, <1>5, <2>1, ZenonT(60) DEF HandlersInv, toldBar
  <2>3. Submission!Report(h, "failure")
    BY <1>3, <2>2 DEF Submission!Report, ledgerBar, toldBar
  <2>4. QED
    BY <1>2, <2>3, ZenonT(60) DEF Submission!SubmissionNext
<1>6. QED
  BY <1>4, <1>5, ZenonT(60)

\* Told ends a handler that has sent nothing.
LEMMA ToldEnds ==
    ASSUME NEW t, NEW notice \in {"failure", "success"}, notice = "failure" \/ t.kind = "connect"
    PROVE  Ending(Told(t, notice))
BY DEF Ending, Told, NewTask, TaskFields

\* loadWalletDeps leaves its caller waiting.
LEMMA LoadWalletDepsEnds ==
    ASSUME NEW h \in Handlers, NEW t, DOMAIN t = TaskFields, t.notice = "none", NEW then,
           LoadWalletDeps(h, t, then)
    PROVE  \E u : Ending(u) /\ Set(h, u)
<1> DEFINE n == IF deps # 0 THEN deps ELSE Len(imports) + 1
           u == [t EXCEPT !.pc = "deps", !.import = n, !.then = then]
<1>1. Set(h, u)
  BY DEF LoadWalletDeps
<1>2. Ending(u)
  BY DEF Ending, TaskFields, Working
<1>3. QED
  BY <1>1, <1>2

\* submitTx up to the signing request leaves its caller waiting or failed.
LEMMA SubmitTxEnds ==
    ASSUME NEW h \in Handlers, NEW t, DOMAIN t = TaskFields, t.notice = "none", NEW address,
           SubmitTx(h, t, address)
    PROVE  \E u : Ending(u) /\ Set(h, u)
<1>1. CASE Set(h, [t EXCEPT !.pc = "sign", !.from = address])
  <2> DEFINE u == [t EXCEPT !.pc = "sign", !.from = address]
  <2>1. Ending(u)
    BY DEF Ending, TaskFields, Working
  <2>2. QED
    BY <1>1, <2>1, ZenonT(60)
<1>2. CASE Set(h, Told(t, "failure"))
  BY <1>2, ToldEnds, ZenonT(60)
<1>3. CASE LoadWalletDeps(h, t, "client")
  BY <1>3, LoadWalletDepsEnds, ZenonT(60)
<1>4. QED
  BY <1>1, <1>2, <1>3, ZenonT(60) DEF SubmitTx

\* Reading a form leaves the handler waiting or failed.
LEMMA ReadFormEnds ==
    ASSUME NEW h \in Handlers, NEW t, DOMAIN t = TaskFields, t.notice = "none", NEW address,
           ReadForm(h, t, address)
    PROVE  \E u : Ending(u) /\ Set(h, u)
<1> DEFINE Filled(in, now) ==
        [t EXCEPT !.input = in, !.sender = address, !.import = 0, !.then = "",
                  !.asked = now, !.seen = IF t.kind = "register" THEN connects' ELSE 0]
<1>1. PICK in, now : \/ Set(h, Told(t, "failure"))
                    \/ Set(h, [Filled(in, now) EXCEPT !.pc = "verify"])
                    \/ SubmitTx(h, Filled(in, now), address)
  BY ZenonT(60) DEF ReadForm
<1>2. DOMAIN Filled(in, now) = TaskFields /\ Filled(in, now).notice = "none"
  BY DEF TaskFields
<1> HIDE DEF Filled
<1>3. CASE Set(h, Told(t, "failure"))
  BY <1>3, ToldEnds, ZenonT(60)
<1>4. CASE Set(h, [Filled(in, now) EXCEPT !.pc = "verify"])
  <2> DEFINE u == [Filled(in, now) EXCEPT !.pc = "verify"]
  <2>1. Ending(u)
    BY <1>2, ZenonT(60) DEF Ending, TaskFields, Working
  <2>2. QED
    BY <1>4, <2>1, ZenonT(60)
<1>5. CASE SubmitTx(h, Filled(in, now), address)
  BY <1>2, <1>5, SubmitTxEnds, ZenonT(60)
<1>6. QED
  BY <1>1, <1>3, <1>4, <1>5, ZenonT(60)

\* So does what follows a connection; a connect button is done.
LEMMA ProceedEnds ==
    ASSUME NEW h \in Handlers, NEW t, DOMAIN t = TaskFields, t.notice = "none", NEW address,
           Proceed(h, t, address)
    PROVE  \E u : Ending(u) /\ Set(h, u)
<1>1. CASE t.kind = "connect" /\ Set(h, Told(t, "success"))
  BY <1>1, ToldEnds, ZenonT(60)
<1>2. CASE LoadWalletDeps(h, t, "form")
  BY <1>2, LoadWalletDepsEnds, ZenonT(60)
<1>3. CASE ReadForm(h, t, address)
  BY <1>3, ReadFormEnds, ZenonT(60)
<1>4. QED
  BY <1>1, <1>2, <1>3, ZenonT(60) DEF Proceed

\* A handler that has sent its transaction learns the result or gives up.
LEMMA SentStep ==
    ASSUME HandlersInv, NEW h \in Handlers, task[h].pc = "poll", UNCHANGED tx,
           NEW notice \in {"success", "failure"},
           notice = "success" => tx[h].status = "ok",
           Set(h, ToldOfTx(task[h], notice))
    PROVE  /\ HandlersInv'
           /\ [Submission!SubmissionNext]_<<ledgerBar, toldBar>>
<1> DEFINE u == ToldOfTx(task[h], notice)
<1>1. /\ DOMAIN task = Handlers /\ DOMAIN task[h] = TaskFields
      /\ tx[h].status # "none" /\ task[h].notice = "none"
  BY DEF HandlersInv, TaskInv
<1>2. /\ DOMAIN u = TaskFields /\ u.pc = "done" /\ u.notice = notice
      /\ u.kind = task[h].kind
  BY <1>1, ZenonT(60) DEF ToldOfTx, TaskFields
<1>3. task' = [task EXCEPT ![h] = u] /\ tx' = tx
  BY DEF Set
<1> HIDE DEF u
<1>4. HandlersInv'
  BY <1>2, <1>3, ZenonT(60) DEF HandlersInv, TaskInv, Working
<1>5. ledgerBar' = ledgerBar
  BY <1>3, ZenonT(60) DEF ledgerBar
<1>6. CASE task[h].kind = "connect"
  <2>1. toldBar' = toldBar
    BY <1>1, <1>2, <1>3, <1>6, ZenonT(60) DEF toldBar
  <2>2. QED
    BY <1>4, <1>5, <2>1, ZenonT(60)
<1>7. CASE task[h].kind # "connect"
  <2>1. toldBar' = [toldBar EXCEPT ![h] = notice] /\ toldBar[h] = "none"
    BY <1>1, <1>2, <1>3, <1>7, ZenonT(60) DEF toldBar
  <2>2. Submission!Report(h, notice)
    BY <1>1, <1>5, <2>1 DEF Submission!Report, ledgerBar, toldBar
  <2>3. QED
    BY <1>4, <2>2, ZenonT(60) DEF Submission!SubmissionNext
<1>8. QED
  BY <1>6, <1>7, ZenonT(60)

\* signAndBroadcast puts a handler's only transaction on the chain, before anything has
\* been told.
LEMMA BroadcastStep ==
    ASSUME HandlersInv, NEW h \in Handlers, task[h].pc = "sign", Admitted(h), NEW u,
           Set(h, u), DOMAIN u = TaskFields, u.kind = task[h].kind,
           u.pc = "poll", u.notice = "none"
    PROVE  /\ HandlersInv'
           /\ [Submission!SubmissionNext]_<<ledgerBar, toldBar>>
<1> DEFINE x == [NoTx EXCEPT !.status = "pending", !.wire = TxWire(h), !.from = task[h].from]
<1>1. /\ DOMAIN task = Handlers /\ DOMAIN tx = Handlers
      /\ tx[h].status = "none" /\ task[h].notice = "none"
  BY DEF HandlersInv, TaskInv, Working
<1>2. DOMAIN x = TxFields /\ x.status = "pending"
  BY DEF NoTx, TxFields
<1>3. task' = [task EXCEPT ![h] = u] /\ tx' = [tx EXCEPT ![h] = x]
  BY ZenonT(60) DEF Set, Admitted
<1> HIDE DEF x
<1>4. HandlersInv'
  BY <1>2, <1>3, ZenonT(60) DEF HandlersInv, TaskInv, Working
<1>5. /\ ledgerBar' = [ledgerBar EXCEPT ![h] = "pending"]
      /\ ledgerBar[h] = "none" /\ toldBar[h] = "none"
  BY <1>1, <1>2, <1>3, ZenonT(60) DEF ledgerBar, toldBar
<1>6. toldBar' = toldBar
  BY <1>1, <1>3, ZenonT(60) DEF toldBar
<1>7. Submission!Send(h)
  BY <1>5, <1>6, ZenonT(60) DEF Submission!Send, ledgerBar, toldBar
<1>8. QED
  BY <1>4, <1>7, ZenonT(60) DEF Submission!SubmissionNext

\* The chain executes a transaction once, whatever became of its handler.
LEMMA ExecuteStep ==
    ASSUME HandlersInv, NEW h \in Handlers, Execute(h)
    PROVE  /\ HandlersInv'
           /\ [Submission!SubmissionNext]_<<ledgerBar, toldBar>>
<1>0. PICK result \in {"ok", "failed"} :
          \E at : tx' = [tx EXCEPT ![h].status = result, ![h].at = at]
  BY Zenon DEF Execute
<1>1. PICK at : tx' = [tx EXCEPT ![h].status = result, ![h].at = at]
  BY <1>0, ZenonT(60)
<1> DEFINE x == [tx[h] EXCEPT !.status = result, !.at = at]
<1>2. /\ DOMAIN tx = Handlers /\ DOMAIN tx[h] = TxFields /\ tx[h].status = "pending"
      /\ task' = task
  BY DEF HandlersInv, TaskInv, Execute
<1>3. DOMAIN x = TxFields /\ x.status = result
  BY <1>2, ZenonT(60) DEF TxFields
<1>4. tx' = [tx EXCEPT ![h] = x]
  BY <1>1, <1>2, ZenonT(60)
<1> HIDE DEF x
<1>5. HandlersInv'
  BY <1>0, <1>2, <1>3, <1>4 DEF HandlersInv, TaskInv
<1>6. /\ ledgerBar' = [ledgerBar EXCEPT ![h] = result] /\ ledgerBar[h] = "pending"
      /\ toldBar' = toldBar
  BY <1>2, <1>3, <1>4, Zenon DEF ledgerBar, toldBar
<1>7. Submission!Commit(h)
  BY <1>0, <1>6, ZenonT(60) DEF Submission!Commit, ledgerBar, toldBar
<1>8. QED
  BY <1>5, <1>7, ZenonT(60) DEF Submission!SubmissionNext

\* A reload forgets what handlers were doing, neither their transactions nor what
\* they have told.
LEMMA ReloadStep ==
    ASSUME HandlersInv, Reload
    PROVE  /\ HandlersInv'
           /\ [Submission!SubmissionNext]_<<ledgerBar, toldBar>>
<1> DEFINE Sent(h) == [task[h] EXCEPT !.pc = "gone"]
           Unsent(h) == [NewTask(task[h].kind) EXCEPT !.pc = "gone"]
<1>1. /\ DOMAIN task' = Handlers /\ tx' = tx
      /\ \A h \in Handlers : task'[h] =
             CASE task[h].pc \in {"idle", "done", "gone"} -> task[h]
               [] task[h].pc = "poll" -> Sent(h)
               [] OTHER -> Unsent(h)
  BY DEF Reload
<1>2. \A h \in Handlers :
          /\ DOMAIN Unsent(h) = TaskFields /\ Unsent(h).pc = "gone"
          /\ Unsent(h).notice = "none" /\ Unsent(h).kind = task[h].kind
  BY DEF NewTask, TaskFields
<1>3. \A h \in Handlers :
          /\ DOMAIN Sent(h) = TaskFields /\ Sent(h).pc = "gone"
          /\ Sent(h).notice = task[h].notice /\ Sent(h).kind = task[h].kind
  BY ZenonT(60) DEF HandlersInv, TaskInv, TaskFields
<1> HIDE DEF Sent, Unsent
<1>4. \A h \in Handlers : /\ task'[h].kind = task[h].kind /\ task'[h].notice = task[h].notice
                          /\ TaskInv(task'[h], tx[h])
  <2> SUFFICES ASSUME NEW h \in Handlers
               PROVE  /\ task'[h].kind = task[h].kind /\ task'[h].notice = task[h].notice
                      /\ TaskInv(task'[h], tx[h])
    OBVIOUS
  <2>1. TaskInv(task[h], tx[h])
    BY DEF HandlersInv
  <2>2. CASE task[h].pc \in {"idle", "done", "gone"}
    BY <1>1, <2>1, <2>2, ZenonT(60)
  <2>3. CASE task[h].pc = "poll"
    BY <1>1, <1>3, <2>1, <2>3, ZenonT(60) DEF TaskInv, Working
  <2>4. CASE task[h].pc \in Working \ {"idle"}
    BY <1>1, <1>2, <2>1, <2>4, ZenonT(60) DEF TaskInv, Working
  <2>5. QED
    BY <2>1, <2>2, <2>3, <2>4, ZenonT(60) DEF TaskInv
<1>5. HandlersInv'
  BY <1>1, <1>4, ZenonT(60) DEF HandlersInv
<1>6. ledgerBar' = ledgerBar /\ toldBar' = toldBar
  BY <1>1, <1>4, ZenonT(60) DEF ledgerBar, toldBar
<1>7. QED
  BY <1>5, <1>6

\* Every step of the page keeps the invariant, and is a step of TxSubmission or one
\* that the user of the page cannot tell from none.
LEMMA PageStep ==
    ASSUME HandlersInv, [Next]_vars
    PROVE  /\ HandlersInv'
           /\ [Submission!SubmissionNext]_<<ledgerBar, toldBar>>
<1> DEFINE Good == /\ HandlersInv'
                   /\ [Submission!SubmissionNext]_<<ledgerBar, toldBar>>
<1> HIDE DEF Good
<1>0. ASSUME UNCHANGED <<task, tx>> PROVE Good
  BY <1>0, ZenonT(60) DEF Good, HandlersInv, ledgerBar, toldBar
<1>1. ASSUME NEW h \in Handlers, task[h].pc \in Working, UNCHANGED tx,
             NEW t, Ending(t), Set(h, t)
      PROVE  Good
  BY <1>1, UnsentStep, ZenonT(60) DEF Good
<1>2. \A h \in Handlers : /\ DOMAIN task[h] = TaskFields
                          /\ task[h].pc \in Working => task[h].notice = "none"
  BY DEF HandlersInv, TaskInv
<1>3. ASSUME NEW h \in Handlers, NEW kind \in Kinds, Activate(h, kind) PROVE Good
  <2> DEFINE t == NewTask(kind)
             Waits == [t EXCEPT !.pc = IF SuggestSupported THEN "suggest" ELSE "enable"]
  <2>1. /\ task[h].pc \in Working /\ UNCHANGED tx
        /\ DOMAIN t = TaskFields /\ t.notice = "none"
    BY <1>3, ZenonT(60) DEF Activate, Working, NewTask, TaskFields
  <2>2. Ending(Waits)
    BY DEF Ending, NewTask, TaskFields, Working
  <2>3. \/ Proceed(h, t, state.address) \/ Set(h, Told(t, "failure")) \/ Set(h, Waits)
    BY <1>3, ZenonT(60) DEF Activate
  <2> HIDE DEF t, Waits
  <2>4. \E u : Ending(u) /\ Set(h, u)
    BY <2>1, <2>2, <2>3, ProceedEnds, ToldEnds, ZenonT(60)
  <2>5. QED
    BY <1>1, <2>1, <2>4, ZenonT(60)
<1>4. ASSUME NEW h \in Handlers, task[h].pc \in Working, UNCHANGED tx, NEW pc \in Working,
             Set(h, [task[h] EXCEPT !.pc = pc])
      PROVE  Good
  <2>1. Ending([task[h] EXCEPT !.pc = pc])
    BY <1>2, <1>4, ZenonT(60) DEF Ending, TaskFields
  <2>2. QED
    BY <1>1, <1>4, <2>1, ZenonT(60)
<1>5. ASSUME NEW h \in Handlers, SuggestAnswered(h) \/ EnableAnswered(h) \/ SignerAnswered(h)
      PROVE  Good
  <2>1. /\ task[h].pc \in Working /\ UNCHANGED tx
        /\ \E pc \in Working : Set(h, [task[h] EXCEPT !.pc = pc])
    BY <1>5, ZenonT(60) DEF SuggestAnswered, EnableAnswered, SignerAnswered, Working
  <2>2. QED
    BY <1>4, <2>1, ZenonT(60)
<1>6. ASSUME NEW h \in Handlers, AccountsAnswered(h) PROVE Good
  <2>1. /\ task[h].pc \in Working /\ UNCHANGED tx /\ Proceed(h, task[h], account)
    BY <1>6, ZenonT(60) DEF AccountsAnswered, Working
  <2>2. QED
    BY <1>1, <1>2, <2>1, ProceedEnds, ZenonT(60)
<1>7. ASSUME NEW h \in Handlers, ProviderFails(h) \/ DepsFailed(h) \/ StepRefused(h)
      PROVE  Good
  <2>1. task[h].pc \in Working /\ UNCHANGED tx /\ Set(h, Told(task[h], "failure"))
    BY <1>7, ZenonT(60) DEF ProviderFails, DepsFailed, StepRefused, Working
  <2>2. QED
    BY <1>1, <2>1, ToldEnds, ZenonT(60)
<1>8. ASSUME NEW h \in Handlers, DepsLoaded(h) PROVE Good
  <2> DEFINE u == [task[h] EXCEPT !.pc = "client", !.import = 0, !.then = ""]
  <2>1. /\ task[h].pc \in Working /\ UNCHANGED tx
        /\ \/ ReadForm(h, task[h], state.address)
           \/ Set(h, u)
           \/ Set(h, Told(task[h], "failure"))
    BY <1>8, ZenonT(60) DEF DepsLoaded, Working
  <2>2. Ending(u)
    BY <1>2, <2>1, ZenonT(60) DEF Ending, TaskFields, Working
  <2> HIDE DEF u
  <2>3. QED
    BY <1>1, <1>2, <2>1, <2>2, ReadFormEnds, ToldEnds, ZenonT(60)
<1>9. ASSUME NEW h \in Handlers, ClientConnected(h) PROVE Good
  <2> DEFINE u == [task[h] EXCEPT !.pc = "sign", !.from = state.address]
  <2>1. task[h].pc \in Working /\ UNCHANGED tx /\ Set(h, u)
    BY <1>9, ZenonT(60) DEF ClientConnected, Working
  <2>2. Ending(u)
    BY <1>2, <2>1, ZenonT(60) DEF Ending, TaskFields, Working
  <2> HIDE DEF u
  <2>3. QED
    BY <1>1, <2>1, <2>2, ZenonT(60)
<1>10. ASSUME NEW h \in Handlers, VerifyAnswered(h) PROVE Good
  <2> DEFINE t == [task[h] EXCEPT !.sender = state.address, !.seen = 0,
                                !.overtaken = connects # task[h].seen]
  <2>1. task[h].pc \in Working /\ UNCHANGED tx /\ SubmitTx(h, t, state.address)
    BY <1>10, ZenonT(60) DEF VerifyAnswered, Working
  <2>2. DOMAIN t = TaskFields /\ t.notice = "none"
    BY <1>2, <2>1, ZenonT(60) DEF TaskFields
  <2> HIDE DEF t
  <2>3. QED
    BY <1>1, <2>1, <2>2, SubmitTxEnds, ZenonT(60)
<1>11. ASSUME NEW h \in Handlers, Broadcast(h) PROVE Good
  <2> DEFINE u == [task[h] EXCEPT !.pc = "poll"]
  <2>1. task[h].pc = "sign" /\ Admitted(h) /\ Set(h, u)
    BY <1>11, ZenonT(60) DEF Broadcast
  <2>2. task[h].notice = "none" /\ DOMAIN task[h] = TaskFields
    BY <1>2, <2>1, ZenonT(60) DEF Working
  <2>3. DOMAIN u = TaskFields /\ u.kind = task[h].kind /\ u.pc = "poll" /\ u.notice = "none"
    BY <2>2, ZenonT(60) DEF TaskFields
  <2> HIDE DEF u
  <2>4. QED
    BY <2>1, <2>3, BroadcastStep, ZenonT(60) DEF Good
<1>12. ASSUME NEW h \in Handlers, PollFound(h) \/ PollGivesUp(h) PROVE Good
  <2>1. PICK notice \in {"success", "failure"} :
            /\ task[h].pc = "poll" /\ UNCHANGED tx /\ Set(h, ToldOfTx(task[h], notice))
            /\ notice = "success" => tx[h].status = "ok"
    BY <1>12, ZenonT(60) DEF PollFound, PollGivesUp, ResultNotice
  <2>2. QED
    BY <2>1, SentStep, ZenonT(60) DEF Good
<1>13. ASSUME NEW h \in Handlers, Execute(h) PROVE Good
  BY <1>13, ExecuteStep, ZenonT(60) DEF Good
<1>14. ASSUME Reload PROVE Good
  BY <1>14, ReloadStep, ZenonT(60) DEF Good
<1>15. ASSUME SwitchAccount \/ UNCHANGED vars \/ \E ok \in BOOLEAN : ImportEnds(ok) PROVE Good
  BY <1>0, <1>15, ZenonT(60) DEF SwitchAccount, ImportEnds, vars
<1>16. Good
  BY <1>3, <1>5, <1>6, <1>7, <1>8, <1>9, <1>10, <1>11, <1>12, <1>13, <1>14, <1>15, ZenonT(60)
     DEF Next, Keplr, Browser
<1>17. QED
  BY <1>16, ZenonT(60) DEF Good

\* The handlers of wallet.js implement TxSubmission: whatever Keplr, the network, the
\* chain and the user do, a submit sends at most one transaction, sends none once it has
\* shown its user an error, and showFlash announces a hash only of an executed one.
THEOREM PageImplementsSubmission == SafetySpec => SubmissionKept
<1>1. Init => HandlersInv /\ Submission!SubmissionInit
  <2> SUFFICES ASSUME Init PROVE HandlersInv /\ Submission!SubmissionInit
    BY ZenonT(60)
  <2>1. HandlersInv
    BY ZenonT(60) DEF Init, HandlersInv, TaskInv, NewTask, NoTx, TaskFields, TxFields, Working
  <2>2. Submission!SubmissionInit
    BY DEF Init, Submission!SubmissionInit, NewTask, NoTx
  <2>3. QED
    BY <2>1, <2>2, ZenonT(60)
<1>2. HandlersInv /\ [Next]_vars
        => HandlersInv' /\ [Submission!SubmissionNext]_<<ledgerBar, toldBar>>
  BY PageStep, ZenonT(60)
<1>3. QED
  BY <1>1, <1>2, PTL DEF SafetySpec, SubmissionKept, Submission!SubmissionSpec, ledgerBar, toldBar

-----------------------------------------------------------------------------
\* The imports of the bundle with walletDepsPromise: the inductive invariant.
ImportsInv ==
    /\ imports \in Seq({"loading", "ok", "failed"}) /\ deps \in 0 .. Len(imports)
    /\ OneImport

\* What a handler's code does to the imports: nothing, or the call of loadWalletDeps.
ImportsStep ==
    \/ UNCHANGED <<imports, deps>>
    \/ deps = 0 /\ imports' = Append(imports, "loading") /\ deps' = Len(imports) + 1

\* loadWalletDeps imports only when no promise is kept.
LEMMA LoadWalletDepsImports ==
    ASSUME NEW h, NEW t, NEW then, LoadWalletDeps(h, t, then)
    PROVE  ImportsStep
BY DEF LoadWalletDeps, ImportsStep

\* The parts of the handlers that may call loadWalletDeps.
LEMMA HandlersImport ==
    ASSUME NEW h, NEW t, NEW address,
           Proceed(h, t, address) \/ ReadForm(h, t, address) \/ SubmitTx(h, t, address)
    PROVE  ImportsStep
<1>1. ASSUME NEW u, SubmitTx(h, u, address) PROVE ImportsStep
  BY <1>1, LoadWalletDepsImports, ZenonT(60) DEF SubmitTx, ImportsStep
<1>2. ASSUME ReadForm(h, t, address) PROVE ImportsStep
  <2>1. UNCHANGED <<imports, deps>> \/ \E u : SubmitTx(h, u, address)
    BY <1>2, ZenonT(60) DEF ReadForm
  <2>2. QED
    BY <1>1, <2>1, ZenonT(60) DEF ImportsStep
<1>3. ASSUME Proceed(h, t, address) PROVE ImportsStep
  BY <1>2, <1>3, LoadWalletDepsImports, ZenonT(60) DEF Proceed, ImportsStep
<1>4. QED
  BY <1>1, <1>2, <1>3, ZenonT(60)

\* Every step of a handler does no more than that to the imports.
LEMMA HandlerImports ==
    ASSUME NEW h \in Handlers, \/ (\E kind \in Kinds : Activate(h, kind)) \/ Keplr(h)
                               \/ Browser(h) \/ Execute(h)
    PROVE  ImportsStep
<1>1. ASSUME NEW kind, Activate(h, kind) PROVE ImportsStep
  BY <1>1, HandlersImport, ZenonT(60) DEF Activate, ImportsStep
<1>2. CASE AccountsAnswered(h)
  BY <1>2, HandlersImport, ZenonT(60) DEF AccountsAnswered
<1>3. CASE DepsLoaded(h)
  BY <1>3, HandlersImport, ZenonT(60) DEF DepsLoaded, ImportsStep
<1>4. CASE VerifyAnswered(h)
  BY <1>4, HandlersImport, ZenonT(60) DEF VerifyAnswered
<1>5. CASE \/ SuggestAnswered(h) \/ EnableAnswered(h) \/ SignerAnswered(h) \/ ProviderFails(h)
           \/ Broadcast(h) \/ DepsFailed(h) \/ ClientConnected(h)
           \/ StepRefused(h) \/ PollFound(h) \/ PollGivesUp(h) \/ Execute(h)
  BY <1>5, ZenonT(60) DEF SuggestAnswered, EnableAnswered, SignerAnswered, ProviderFails, Broadcast,
              DepsFailed, ClientConnected, StepRefused, PollFound, PollGivesUp,
              Execute, ImportsStep, pageVars
<1>6. QED
  BY <1>1, <1>2, <1>3, <1>4, <1>5, ZenonT(60) DEF Keplr, Browser

\* Every step of the page keeps the invariant of the imports.
LEMMA ImportsKept ==
    ASSUME ImportsInv, [Next]_vars
    PROVE  ImportsInv'
<1>1. CASE ImportsStep
  <2>1. CASE UNCHANGED <<imports, deps>>
    BY <2>1, ZenonT(60) DEF ImportsInv, OneImport
  <2>2. CASE deps = 0 /\ imports' = Append(imports, "loading") /\ deps' = Len(imports) + 1
    <3>1. /\ imports' \in Seq({"loading", "ok", "failed"}) /\ Len(imports') = Len(imports) + 1
          /\ \A n \in 1 .. Len(imports) : imports'[n] = imports[n]
      BY <2>2, SMTT(60) DEF ImportsInv
    <3>2. \A n \in 1 .. Len(imports) : imports[n] = "failed"
      BY <2>2, SMTT(60) DEF ImportsInv, OneImport
    <3>3. QED
      BY <2>2, <3>1, <3>2, SMTT(60) DEF ImportsInv, OneImport
  <2>3. QED
    BY <1>1, <2>1, <2>2, ZenonT(60) DEF ImportsStep
<1>2. ASSUME NEW ok \in BOOLEAN, ImportEnds(ok) PROVE ImportsInv'
  <2>1. PICK n \in DOMAIN imports :
            /\ imports[n] = "loading"
            /\ imports' = [imports EXCEPT ![n] = IF ok THEN "ok" ELSE "failed"]
    BY <1>2, ZenonT(60) DEF ImportEnds
  <2>2. /\ imports' \in Seq({"loading", "ok", "failed"}) /\ Len(imports') = Len(imports)
        /\ n = deps /\ deps' = IF ok THEN deps ELSE 0
    BY <1>2, <2>1 DEF ImportsInv, OneImport, ImportEnds
  <2>3. QED
    BY <2>1, <2>2, SMTT(60) DEF ImportsInv, OneImport
<1>3. CASE Reload
  BY <1>3 DEF Reload, ImportsInv, OneImport
<1>4. CASE SwitchAccount \/ UNCHANGED vars
  BY <1>1, <1>4, ZenonT(60) DEF SwitchAccount, vars, pageVars, ImportsStep
<1>5. QED
  BY <1>1, <1>2, <1>3, <1>4, HandlerImports, ZenonT(60) DEF Next

\* Whatever handlers overlap, fail or start again, wallet.js has at most one import of
\* the bundle that is loading or has succeeded, and every later caller is given it.
THEOREM BundleImportedOnce == SafetySpec => []OneImport
<1>1. Init => ImportsInv
  BY DEF Init, ImportsInv, OneImport
<1>2. ImportsInv /\ [Next]_vars => ImportsInv'
  BY ImportsKept
<1>3. ImportsInv => OneImport
  BY DEF ImportsInv
<1>4. QED
  BY <1>1, <1>2, <1>3, PTL DEF SafetySpec

(***************************************************************************)
(* The forms: what each handler has established when it awaits an answer,  *)
(* and what its transaction was made from.                                 *)
(***************************************************************************)
Notices == {"none", "success", "failure"}

\* What is known of a form that has come as far as submitTx: it has passed the checks of
\* its handler, and the badge of the wallet that a registration names has been found;
\* the sender is this wallet unless the connection was replaced meanwhile.
Passed(kind, in, asked, sender, overtaken) ==
    /\ kind \in FormKinds /\ in.kind = kind
    /\ kind = "create" => CreateSlotValid(in)
    /\ kind = "status" => SlotStatusValid(in)
    /\ kind = "lease" => LeaseValid(in, asked) /\ asked \in Nat
    /\ kind = "register" =>
           /\ BadgeVerified(ToLowerCase(Trim(in.domain)), Trim(in.wallet))
           /\ sender # Trim(in.wallet) => overtaken
TaskPassed(t) == Passed(t.kind, t.input, t.asked, t.sender, t.overtaken)

\* A handler's notice goes with where it stands; one that awaits an import awaits one
\* of the n of this page.
TaskTyped(t, n) ==
    /\ t.kind \in Kinds /\ t.notice \in Notices
    /\ t.pc \in Working \cup {"poll", "done", "gone"}
    /\ t.pc = "done" <=> t.notice # "none"
    /\ t.pc = "deps" => t.import \in 1 .. n

\* What a handler has established at each await, when the page's address has been
\* written count times and is now address.
TaskForm(t, count, address) ==
    /\ t.pc = "deps" => \/ t.then = "form" /\ t.kind \in {"create", "lease"}
                        \/ t.then = "client" /\ TaskPassed(t)
    /\ t.pc \in {"client", "sign"} => TaskPassed(t)
    /\ t.pc = "verify" =>
           /\ t.kind = "register" /\ t.input.kind = "register"
           /\ t.sender = Trim(t.input.wallet)
           /\ t.seen \in Nat /\ t.seen <= count
           /\ t.seen = count => address = t.sender

\* A transaction was made from a form that has passed, by the one who signed it.
TxForm(t, x, slots) ==
    /\ x.status \in {"none", "pending", "ok", "failed"}
    /\ x.status # "none" =>
           /\ TaskPassed(t) /\ x.at \in Nat
           /\ x.wire = Wire(t.input, t.sender, t.asked, slots)
           /\ SignerOf(t.kind, x.wire) = x.from

\* The page's own variables; signer and address are written together.
PageTypes ==
    /\ config \in Configs /\ account \in Accounts
    /\ state \in [signer : BOOLEAN, address : Accounts \cup {""}, client : Endpoint]
    /\ state.signer <=> state.address # ""
    /\ connects \in Nat

\* The inductive invariant of the page, on top of HandlersInv and ImportsInv.
PageInv ==
    /\ PageTypes
    /\ \A h \in Handlers : /\ TaskTyped(task[h], Len(imports))
                           /\ TaskForm(task[h], connects, state.address)
                           /\ TxForm(task[h], tx[h], config.slots)

\* What a handler's step may make of its task before anything is sent.
Kept(u) == TaskTyped(u, Len(imports')) /\ TaskForm(u, connects', state'.address)

\* Told ends a handler, and a task that has ended promises nothing.
LEMMA ToldKept ==
    ASSUME NEW t, t.kind \in Kinds, NEW notice \in {"success", "failure"}
    PROVE  Kept(Told(t, notice))
<1> DEFINE u == Told(t, notice)
<1>1. u.kind = t.kind /\ u.pc = "done" /\ u.notice = notice
  BY ZenonT(60) DEF Told, NewTask
<1> HIDE DEF u
<1>2. Kept(u)
  BY <1>1, ZenonT(60) DEF Kept, TaskTyped, TaskForm, Notices
<1> QED
  BY <1>2, ZenonT(60) DEF u

\* loadWalletDeps: the import that its caller awaits is one of this page.
LEMMA LoadWalletDepsKept ==
    ASSUME ImportsInv, NEW h \in Handlers, NEW t, DOMAIN t = TaskFields, t.kind \in Kinds,
           t.notice = "none", NEW then, LoadWalletDeps(h, t, then),
           (then = "form" /\ t.kind \in {"create", "lease"}) \/ (then = "client" /\ TaskPassed(t))
    PROVE  \E u : Kept(u) /\ Set(h, u)
<1> DEFINE n == IF deps # 0 THEN deps ELSE Len(imports) + 1
           u == [t EXCEPT !.pc = "deps", !.import = n, !.then = then]
<1>1. Set(h, u)
  BY ZenonT(60) DEF LoadWalletDeps
<1>2. n \in 1 .. Len(imports')
  BY DEF LoadWalletDeps, ImportsInv
<1> HIDE DEF n
<1>3. /\ u.kind = t.kind /\ u.pc = "deps" /\ u.notice = "none" /\ u.import = n /\ u.then = then
      /\ u.input = t.input /\ u.asked = t.asked /\ u.sender = t.sender
      /\ u.overtaken = t.overtaken
  BY ZenonT(60) DEF TaskFields
<1> HIDE DEF u
<1>4. TaskPassed(t) => TaskPassed(u)
  BY <1>3, ZenonT(60) DEF TaskPassed
<1>5. Kept(u)
  BY <1>2, <1>3, <1>4, ZenonT(60) DEF Kept, TaskTyped, TaskForm, Notices, Working
<1> QED
  BY <1>1, <1>5, ZenonT(60)

\* submitTx up to the signing request, for a form that has passed.
LEMMA SubmitTxKept ==
    ASSUME ImportsInv, NEW h \in Handlers, NEW t, DOMAIN t = TaskFields, TaskPassed(t),
           t.notice = "none", NEW address, SubmitTx(h, t, address)
    PROVE  \E u : Kept(u) /\ Set(h, u)
<1>0. t.kind \in Kinds
  BY ZenonT(60) DEF TaskPassed, Passed, FormKinds, Kinds
<1>1. CASE Set(h, [t EXCEPT !.pc = "sign", !.from = address])
  <2> DEFINE u == [t EXCEPT !.pc = "sign", !.from = address]
  <2>1. /\ u.kind = t.kind /\ u.pc = "sign" /\ u.notice = "none"
        /\ u.input = t.input /\ u.asked = t.asked /\ u.sender = t.sender
        /\ u.overtaken = t.overtaken
    BY ZenonT(60) DEF TaskFields
  <2>2. Set(h, u)
    BY <1>1
  <2> HIDE DEF u
  <2>3. TaskPassed(u)
    BY <2>1, ZenonT(60) DEF TaskPassed
  <2>4. Kept(u)
    BY <1>0, <2>1, <2>3, ZenonT(60) DEF Kept, TaskTyped, TaskForm, Notices, Working
  <2> QED
    BY <2>2, <2>4, ZenonT(60)
<1>2. CASE Set(h, Told(t, "failure"))
  BY <1>0, <1>2, ToldKept, ZenonT(60)
<1>3. CASE LoadWalletDeps(h, t, "client")
  BY <1>0, <1>3, LoadWalletDepsKept, ZenonT(60)
<1> QED
  BY <1>1, <1>2, <1>3, ZenonT(60) DEF SubmitTx

\* Reading a form: only one that passes its checks goes on, a registration to the badge
\* check of the wallet that is connected at that moment.
LEMMA ReadFormKept ==
    ASSUME ImportsInv, NEW h \in Handlers, NEW t, DOMAIN t = TaskFields, t.kind \in FormKinds,
           t.notice = "none", connects' \in Nat, ReadForm(h, t, state'.address)
    PROVE  \E u : Kept(u) /\ Set(h, u)
<1> DEFINE address == state'.address
           Filled(in, now) ==
               [t EXCEPT !.input = in, !.sender = address, !.import = 0, !.then = "",
                         !.asked = now, !.seen = IF t.kind = "register" THEN connects' ELSE 0]
<1>0. t.kind \in Kinds
  BY ZenonT(60) DEF FormKinds, Kinds
<1>1. PICK in \in Inputs[t.kind], now \in IF t.kind = "lease" THEN Times ELSE {0} :
          \/ Set(h, Told(t, "failure"))
          \/ /\ FormValid(in, address, now) /\ t.kind = "register"
             /\ Set(h, [Filled(in, now) EXCEPT !.pc = "verify"])
          \/ /\ FormValid(in, address, now) /\ t.kind # "register"
             /\ SubmitTx(h, Filled(in, now), address)
  BY ZenonT(60) DEF ReadForm
<1>2. in.kind = t.kind /\ now \in Nat
  <2>1. in.kind = t.kind
    BY <1>0, PageAssumption, ZenonT(60)
  <2>2. Times \subseteq Nat /\ 0 \in Nat
    BY PageAssumption
  <2> QED
    BY <2>1, <2>2, ZenonT(60)
<1> DEFINE f == Filled(in, now)
<1>3. /\ DOMAIN f = TaskFields /\ f.notice = "none" /\ f.kind = t.kind /\ f.input = in
      /\ f.sender = address /\ f.asked = now
      /\ t.kind = "register" => f.seen = connects'
  BY ZenonT(60) DEF TaskFields
<1> HIDE DEF f, Filled
<1>4. CASE Set(h, Told(t, "failure"))
  BY <1>0, <1>4, ToldKept, ZenonT(60)
<1>5. CASE FormValid(in, address, now) /\ t.kind = "register" /\ Set(h, [f EXCEPT !.pc = "verify"])
  <2> DEFINE u == [f EXCEPT !.pc = "verify"]
  <2>1. /\ u.kind = "register" /\ u.pc = "verify" /\ u.notice = "none" /\ u.input = in
        /\ u.sender = address /\ u.seen = connects'
    BY <1>3, <1>5, ZenonT(60) DEF TaskFields
  <2>2. Set(h, u)
    BY <1>5
  <2> HIDE DEF u
  <2>3. Trim(in.wallet) = address
    BY <1>2, <1>5, ZenonT(60) DEF FormValid, RegisterValid
  <2>4. connects' <= connects'
    OBVIOUS
  <2>5. Kept(u)
    BY <1>2, <1>5, <2>1, <2>3, <2>4, ZenonT(60) DEF Kept, TaskTyped, TaskForm, Notices, Working, Kinds
  <2> QED
    BY <2>2, <2>5, ZenonT(60)
<1>6. CASE FormValid(in, address, now) /\ t.kind # "register" /\ SubmitTx(h, f, address)
  <2>1. Passed(t.kind, in, now, address, f.overtaken)
    BY <1>2, <1>6, ZenonT(60) DEF Passed, FormValid, FormKinds
  <2>2. TaskPassed(f)
    BY <1>3, <2>1, ZenonT(60) DEF TaskPassed
  <2> QED
    BY <1>3, <1>6, <2>2, SubmitTxKept, ZenonT(60)
<1> QED
  BY <1>1, <1>4, <1>5, <1>6, ZenonT(60) DEF f

\* What follows a connection.
LEMMA ProceedKept ==
    ASSUME ImportsInv, NEW h \in Handlers, NEW t, DOMAIN t = TaskFields, t.kind \in Kinds,
           t.notice = "none", connects' \in Nat, Proceed(h, t, state'.address)
    PROVE  \E u : Kept(u) /\ Set(h, u)
<1>1. CASE Set(h, Told(t, "success"))
  BY <1>1, ToldKept, ZenonT(60)
<1>2. CASE t.kind \in {"create", "lease"} /\ LoadWalletDeps(h, t, "form")
  BY <1>2, LoadWalletDepsKept, ZenonT(60)
<1>3. CASE t.kind \in {"status", "register"} /\ ReadForm(h, t, state'.address)
  BY <1>3, ReadFormKept, ZenonT(60) DEF FormKinds
<1> QED
  BY <1>1, <1>2, <1>3, ZenonT(60) DEF Proceed

\* A step of a handler adds imports at most, and counts an address that it writes anew.
Onward ==
    /\ UNCHANGED config
    /\ Len(imports) \in Nat /\ Len(imports') \in Nat /\ Len(imports') >= Len(imports)
    /\ \/ connects' = connects /\ state'.address = state.address
       \/ connects' = connects + 1

\* It leaves to the other handlers what they have established.
LEMMA OthersKept ==
    ASSUME Onward, connects \in Nat,
           NEW t, TaskTyped(t, Len(imports)), TaskForm(t, connects, state.address)
    PROVE  Kept(t)
<1>1. t.pc = "deps" => t.import \in 1 .. Len(imports')
  BY DEF Onward, TaskTyped
<1>2. ASSUME t.pc = "verify"
      PROVE  t.seen \in Nat /\ t.seen <= connects' /\ (t.seen = connects' => state'.address = t.sender)
  <2>1. /\ t.seen \in Nat /\ t.seen <= connects
        /\ t.seen = connects => state.address = t.sender
    BY <1>2, ZenonT(60) DEF TaskForm
  <2>2. CASE connects' = connects /\ state'.address = state.address
    BY <2>1, <2>2, ZenonT(60)
  <2>3. CASE connects' = connects + 1
    BY <2>1, <2>3
  <2> QED
    BY <2>2, <2>3, ZenonT(60) DEF Onward
<1> QED
  BY <1>1, <1>2, ZenonT(60) DEF Kept, TaskTyped, TaskForm

\* A step of handler h keeps the invariant when its own task and transaction are kept.
LEMMA HandlerKept ==
    ASSUME PageInv, NEW h \in Handlers, Onward, PageTypes', Kept(task'[h]),
           TxForm(task'[h], tx'[h], config.slots),
           \A g \in Handlers : g # h => task'[g] = task[g] /\ tx'[g] = tx[g]
    PROVE  PageInv'
<1>1. ASSUME NEW g \in Handlers
      PROVE  Kept(task'[g]) /\ TxForm(task'[g], tx'[g], config.slots)
  <2>1. CASE g = h
    BY <2>1, ZenonT(60)
  <2>2. CASE g # h
    <3>1. Kept(task[g])
      BY OthersKept, ZenonT(60) DEF PageInv, PageTypes
    <3> QED
      BY <2>2, <3>1, ZenonT(60) DEF PageInv
  <2> QED
    BY <2>1, <2>2, ZenonT(60)
<1>2. config' = config
  BY ZenonT(60) DEF Onward
<1> QED
  BY <1>1, <1>2, ZenonT(60) DEF PageInv, Kept

\* One of a handler that sends nothing.
LEMMA UnsentKept ==
    ASSUME HandlersInv, ImportsInv, PageInv, NEW h \in Handlers, task[h].pc \in Working,
           UNCHANGED <<config, tx>>, ImportsStep, PageTypes',
           (connects' = connects /\ state'.address = state.address) \/ connects' = connects + 1,
           NEW u, Kept(u), Set(h, u)
    PROVE  PageInv'
<1>1. Len(imports) \in Nat /\ Len(imports') \in Nat /\ Len(imports') >= Len(imports)
  BY DEF ImportsInv, ImportsStep
<1>2. Onward
  BY <1>1, ZenonT(60) DEF Onward
<1>3. /\ task'[h] = u /\ tx'[h] = tx[h]
      /\ \A g \in Handlers : g # h => task'[g] = task[g] /\ tx'[g] = tx[g]
  BY ZenonT(60) DEF Set, HandlersInv
<1>4. tx[h].status = "none"
  BY ZenonT(60) DEF HandlersInv, TaskInv
<1>5. TxForm(u, tx[h], config.slots)
  BY <1>4, ZenonT(60) DEF TxForm
<1> QED
  BY <1>2, <1>3, <1>5, HandlerKept, ZenonT(60)

\* One of a handler that has sent its transaction, or sends it.
LEMMA SentKept ==
    ASSUME PageInv, ImportsInv, NEW h \in Handlers, UNCHANGED <<config, account, state, connects, imports>>,
           TaskTyped(task'[h], Len(imports)), task'[h].pc \in {"poll", "done", "gone"},
           TxForm(task'[h], tx'[h], config.slots),
           \A g \in Handlers : g # h => task'[g] = task[g] /\ tx'[g] = tx[g]
    PROVE  PageInv'
<1>1. Len(imports) \in Nat /\ Len(imports) >= Len(imports)
  BY DEF ImportsInv
<1>2. Onward
  BY <1>1, ZenonT(60) DEF Onward
<1>3. PageTypes'
  BY ZenonT(60) DEF PageInv, PageTypes
<1>4. Kept(task'[h])
  BY ZenonT(60) DEF Kept, TaskForm
<1> QED
  BY <1>2, <1>3, <1>4, HandlerKept, ZenonT(60)

\* toHttpRPC makes an endpoint of an endpoint.
LEMMA ToHttpRPCType ==
    ASSUME NEW url \in Endpoint
    PROVE  ToHttpRPC(url) \in Endpoint
BY DEF ToHttpRPC, Endpoint, NoEndpoint

\* Every step of the page keeps the invariant.
LEMMA PageKept ==
    ASSUME HandlersInv, ImportsInv, PageInv, [Next]_vars
    PROVE  PageInv'
<1> DEFINE Same == connects' = connects /\ state'.address = state.address
           Good == PageInv'
<1> HIDE DEF Good
<1>0. PageTypes
  BY ZenonT(60) DEF PageInv
<1>1. ASSUME UNCHANGED <<config, account, state, connects>> PROVE PageTypes' /\ Same
  BY <1>0, <1>1, ZenonT(60) DEF PageTypes
<1>2. \A h \in Handlers : /\ DOMAIN task[h] = TaskFields /\ task[h].kind \in Kinds
                          /\ task[h].pc \in Working => task[h].notice = "none"
  BY ZenonT(60) DEF HandlersInv, TaskInv, PageInv, TaskTyped
<1>3. ASSUME NEW h \in Handlers, task[h].pc \in Working,
             UNCHANGED <<config, account, state, connects, tx>>, ImportsStep,
             \E u : Kept(u) /\ Set(h, u)
      PROVE  Good
  BY <1>1, <1>3, UnsentKept, ZenonT(60) DEF Good
<1>4. ASSUME NEW h \in Handlers, NEW kind \in Kinds, Activate(h, kind) PROVE Good
  <2> DEFINE t == NewTask(kind)
             Waits == [t EXCEPT !.pc = IF SuggestSupported THEN "suggest" ELSE "enable"]
  <2>1. /\ task[h].pc \in Working /\ UNCHANGED <<config, account, state, connects, tx>>
        /\ DOMAIN t = TaskFields /\ t.notice = "none" /\ t.kind = kind
    BY <1>4, ZenonT(60) DEF Activate, Working, NewTask, TaskFields
  <2>2. Kept(Waits)
    <3>1. Waits.pc \in {"suggest", "enable"} /\ Waits.kind = kind /\ Waits.notice = "none"
      BY ZenonT(60) DEF NewTask
    <3> HIDE DEF Waits
    <3> QED
      BY <3>1, ZenonT(60) DEF Kept, TaskTyped, TaskForm, Notices, Working
  <2>3. \/ Proceed(h, t, state.address) \/ Set(h, Told(t, "failure")) \/ Set(h, Waits)
    BY <1>4, ZenonT(60) DEF Activate
  <2> HIDE DEF t, Waits
  <2>4. connects' \in Nat
    BY <1>0, <2>1, ZenonT(60) DEF PageTypes
  <2>5. \E u : Kept(u) /\ Set(h, u)
    <3>1. CASE Proceed(h, t, state.address)
      <4>1. Proceed(h, t, state'.address)
        BY <2>1, <3>1, ZenonT(60)
      <4> QED
        BY <2>1, <2>4, <4>1, ProceedKept, ZenonT(60)
    <3>2. CASE Set(h, Told(t, "failure"))
      BY <2>1, <3>2, ToldKept, ZenonT(60)
    <3> QED
      BY <2>2, <2>3, <3>1, <3>2, ZenonT(60)
  <2>6. ImportsStep
    BY <1>4, HandlerImports, ZenonT(60)
  <2> QED
    BY <1>3, <2>1, <2>5, <2>6, ZenonT(60)
<1>5. ASSUME NEW h \in Handlers, task[h].pc \in Working, UNCHANGED <<config, account, pageVars, tx>>,
             NEW pc \in {"enable", "signer", "accounts"}, Set(h, [task[h] EXCEPT !.pc = pc])
      PROVE  Good
  <2> DEFINE u == [task[h] EXCEPT !.pc = pc]
  <2>1. u.pc = pc /\ u.kind = task[h].kind /\ u.notice = "none"
    BY <1>2, <1>5, ZenonT(60) DEF TaskFields
  <2>2. Set(h, u)
    BY <1>5
  <2> HIDE DEF u
  <2>3. Kept(u)
    BY <1>2, <2>1, ZenonT(60) DEF Kept, TaskTyped, TaskForm, Notices, Working
  <2> QED
    BY <1>3, <1>5, <2>2, <2>3, ZenonT(60) DEF ImportsStep, pageVars
<1>6. ASSUME NEW h \in Handlers, SuggestAnswered(h) \/ EnableAnswered(h) \/ SignerAnswered(h)
      PROVE  Good
  <2>1. /\ task[h].pc \in Working /\ UNCHANGED <<config, account, pageVars, tx>>
        /\ \E pc \in {"enable", "signer", "accounts"} : Set(h, [task[h] EXCEPT !.pc = pc])
    BY <1>6, ZenonT(60) DEF SuggestAnswered, EnableAnswered, SignerAnswered, Working
  <2> QED
    BY <1>5, <2>1, ZenonT(60)
<1>7. ASSUME NEW h \in Handlers, AccountsAnswered(h) PROVE Good
  <2>1. /\ task[h].pc \in Working /\ UNCHANGED <<config, account, tx>>
        /\ connects' = connects + 1 /\ Proceed(h, task[h], account)
        /\ state' = [state EXCEPT !.signer = TRUE, !.address = account]
    BY <1>7, ZenonT(60) DEF AccountsAnswered, Working
  <2>2. PageTypes' /\ state'.address = account
    <3>0. connects \in Nat
      BY <1>0, ZenonT(60) DEF PageTypes
    <3>1. connects' \in Nat
      BY <2>1, <3>0
    <3>2. account # ""
      BY <1>0, PageAssumption, ZenonT(60) DEF PageTypes
    <3>3. /\ state' \in [signer : BOOLEAN, address : Accounts \cup {""}, client : Endpoint]
          /\ state'.signer = TRUE /\ state'.address = account
      BY <1>0, <2>1 DEF PageTypes
    <3> QED
      BY <1>0, <2>1, <3>1, <3>2, <3>3, ZenonT(60) DEF PageTypes
  <2>3. Proceed(h, task[h], state'.address) /\ connects' \in Nat
    BY <2>1, <2>2, ZenonT(60) DEF PageTypes
  <2>4. \E u : Kept(u) /\ Set(h, u)
    BY <1>2, <2>1, <2>3, ProceedKept, ZenonT(60)
  <2>5. ImportsStep
    BY <1>7, HandlerImports, ZenonT(60) DEF Keplr
  <2> QED
    BY <2>1, <2>2, <2>4, <2>5, UnsentKept, ZenonT(60) DEF Good
<1>8. ASSUME NEW h \in Handlers, ProviderFails(h) \/ DepsFailed(h) \/ StepRefused(h)
      PROVE  Good
  <2>1. /\ task[h].pc \in Working /\ UNCHANGED <<config, account, pageVars, tx>>
        /\ Set(h, Told(task[h], "failure"))
    BY <1>8, ZenonT(60) DEF ProviderFails, DepsFailed, StepRefused, Working
  <2>2. Kept(Told(task[h], "failure"))
    BY <1>2, ToldKept, ZenonT(60)
  <2> QED
    BY <1>3, <2>1, <2>2, ZenonT(60) DEF ImportsStep, pageVars
<1>9. ASSUME NEW h \in Handlers, DepsLoaded(h) PROVE Good
  <2> DEFINE u == [task[h] EXCEPT !.pc = "client", !.import = 0, !.then = ""]
  <2>1. /\ task[h].pc = "deps" /\ task[h].pc \in Working
        /\ UNCHANGED <<config, account, state, connects, tx>>
        /\ \/ task[h].then = "form" /\ ReadForm(h, task[h], state.address)
           \/ task[h].then = "client" /\ Set(h, u)
           \/ Set(h, Told(task[h], "failure"))
    BY <1>9, ZenonT(60) DEF DepsLoaded, Working
  <2>2. /\ u.pc = "client" /\ u.notice = "none" /\ u.kind = task[h].kind /\ u.input = task[h].input
        /\ u.asked = task[h].asked /\ u.sender = task[h].sender /\ u.overtaken = task[h].overtaken
    BY <1>2, <2>1, ZenonT(60) DEF TaskFields
  <2> HIDE DEF u
  <2>3. TaskForm(task[h], connects, state.address)
    BY ZenonT(60) DEF PageInv
  <2>4. ASSUME task[h].then = "form", ReadForm(h, task[h], state.address)
        PROVE  \E v : Kept(v) /\ Set(h, v)
    <3>1. ReadForm(h, task[h], state'.address) /\ connects' \in Nat
      BY <1>0, <2>1, <2>4, ZenonT(60) DEF PageTypes
    <3>2. task[h].kind \in FormKinds
      BY <2>1, <2>3, <2>4, ZenonT(60) DEF TaskForm, FormKinds
    <3> QED
      BY <1>2, <2>1, <3>1, <3>2, ReadFormKept, ZenonT(60)
  <2>5. ASSUME task[h].then = "client", Set(h, u)
        PROVE  \E v : Kept(v) /\ Set(h, v)
    <3>1. TaskPassed(task[h])
      BY <2>1, <2>3, <2>5, ZenonT(60) DEF TaskForm
    <3>2. TaskPassed(u)
      BY <2>2, <3>1, ZenonT(60) DEF TaskPassed
    <3>3. Kept(u)
      BY <1>2, <2>2, <3>2, ZenonT(60) DEF Kept, TaskTyped, TaskForm, Notices, Working
    <3> QED
      BY <2>5, <3>3, ZenonT(60)
  <2>6. ASSUME Set(h, Told(task[h], "failure"))
        PROVE  \E v : Kept(v) /\ Set(h, v)
    BY <1>2, <2>6, ToldKept, ZenonT(60)
  <2>7. \E v : Kept(v) /\ Set(h, v)
    BY <2>1, <2>4, <2>5, <2>6, ZenonT(60)
  <2>8. ImportsStep
    BY <1>9, HandlerImports, ZenonT(60) DEF Browser
  <2> QED
    BY <1>3, <2>1, <2>7, <2>8, ZenonT(60)
<1>10. ASSUME NEW h \in Handlers, ClientConnected(h) PROVE Good
  <2> DEFINE u == [task[h] EXCEPT !.pc = "sign", !.from = state.address]
  <2>1. /\ task[h].pc = "client" /\ task[h].pc \in Working /\ Set(h, u)
        /\ UNCHANGED <<config, account, connects, imports, deps, tx>>
        /\ state' = [state EXCEPT !.client = ToHttpRPC(config.rpc)]
    BY <1>10, ZenonT(60) DEF ClientConnected, Working
  <2>2. /\ u.pc = "sign" /\ u.notice = "none" /\ u.kind = task[h].kind /\ u.input = task[h].input
        /\ u.asked = task[h].asked /\ u.sender = task[h].sender /\ u.overtaken = task[h].overtaken
    BY <1>2, <2>1, ZenonT(60) DEF TaskFields
  <2> HIDE DEF u
  <2>3. TaskPassed(task[h])
    BY <2>1, ZenonT(60) DEF PageInv, TaskForm
  <2>4. TaskPassed(u)
    BY <2>2, <2>3, ZenonT(60) DEF TaskPassed
  <2>5. Kept(u)
    BY <1>2, <2>2, <2>4, ZenonT(60) DEF Kept, TaskTyped, TaskForm, Notices, Working
  <2>6. PageTypes' /\ state'.address = state.address
    <3>1. ToHttpRPC(config.rpc) \in Endpoint
      BY <1>0, PageAssumption, ToHttpRPCType, ZenonT(60) DEF PageTypes
    <3>2. /\ state' \in [signer : BOOLEAN, address : Accounts \cup {""}, client : Endpoint]
          /\ state'.signer = state.signer /\ state'.address = state.address
      BY <1>0, <2>1, <3>1 DEF PageTypes
    <3> QED
      BY <1>0, <2>1, <3>2, ZenonT(60) DEF PageTypes
  <2> QED
    BY <2>1, <2>5, <2>6, UnsentKept, ZenonT(60) DEF Good, ImportsStep
<1>11. ASSUME NEW h \in Handlers, VerifyAnswered(h) PROVE Good
  <2> DEFINE t == [task[h] EXCEPT !.sender = state.address, !.seen = 0,
                                !.overtaken = connects # task[h].seen]
  <2>1. /\ task[h].pc = "verify" /\ task[h].pc \in Working /\ SubmitTx(h, t, state.address)
        /\ BadgeVerified(ToLowerCase(Trim(task[h].input.domain)), task[h].sender)
        /\ UNCHANGED <<config, account, state, connects, tx>>
    BY <1>11, ZenonT(60) DEF VerifyAnswered, Working
  <2>2. /\ DOMAIN t = TaskFields /\ t.notice = "none" /\ t.kind = task[h].kind
        /\ t.input = task[h].input /\ t.sender = state.address
        /\ t.overtaken = (connects # task[h].seen)
    BY <1>2, <2>1, ZenonT(60) DEF TaskFields
  <2> HIDE DEF t
  <2>3. /\ task[h].kind = "register" /\ task[h].input.kind = "register"
        /\ task[h].sender = Trim(task[h].input.wallet)
        /\ task[h].seen = connects => state.address = task[h].sender
    BY <2>1, ZenonT(60) DEF PageInv, TaskForm
  <2>4. t.sender # Trim(t.input.wallet) => t.overtaken
    BY <2>2, <2>3, ZenonT(60)
  <2>5. TaskPassed(t)
    BY <2>1, <2>2, <2>3, <2>4, ZenonT(60) DEF TaskPassed, Passed, FormKinds
  <2>6. \E u : Kept(u) /\ Set(h, u)
    BY <2>1, <2>2, <2>5, SubmitTxKept, ZenonT(60)
  <2>7. ImportsStep
    BY <1>11, HandlerImports, ZenonT(60) DEF Browser
  <2> QED
    BY <1>3, <2>1, <2>6, <2>7, ZenonT(60)
<1>12. ASSUME NEW h \in Handlers, Broadcast(h) PROVE Good
  <2> DEFINE u == [task[h] EXCEPT !.pc = "poll"]
             x == [NoTx EXCEPT !.status = "pending", !.wire = TxWire(h), !.from = task[h].from]
  <2>1. /\ task[h].pc = "sign" /\ Set(h, u) /\ tx' = [tx EXCEPT ![h] = x]
        /\ SignerOf(task[h].kind, TxWire(h)) = task[h].from
        /\ UNCHANGED <<config, account, state, connects, imports>>
    BY <1>12, ZenonT(60) DEF Broadcast, Admitted, pageVars
  <2>2. task[h].notice = "none"
    BY <1>2, <2>1, ZenonT(60) DEF Working
  <2>3. /\ u.pc = "poll" /\ u.notice = "none" /\ u.kind = task[h].kind /\ u.input = task[h].input
        /\ u.asked = task[h].asked /\ u.sender = task[h].sender /\ u.overtaken = task[h].overtaken
    BY <1>2, <2>2, ZenonT(60) DEF TaskFields
  <2>4. x.status = "pending" /\ x.wire = TxWire(h) /\ x.from = task[h].from /\ x.at = 0
    BY ZenonT(60) DEF NoTx
  <2> HIDE DEF u, x
  <2>5. TaskPassed(task[h])
    BY <2>1, ZenonT(60) DEF PageInv, TaskForm
  <2>6. 0 \in Nat
    OBVIOUS
  <2>7. TaskTyped(u, Len(imports)) /\ TxForm(u, x, config.slots)
    BY <1>2, <2>1, <2>3, <2>4, <2>5, <2>6, ZenonT(60)
       DEF TaskTyped, TxForm, TaskPassed, TxWire, Notices, Working
  <2>8. /\ task'[h] = u /\ tx'[h] = x
        /\ \A g \in Handlers : g # h => task'[g] = task[g] /\ tx'[g] = tx[g]
    BY <2>1, ZenonT(60) DEF Set, HandlersInv
  <2> QED
    BY <2>1, <2>3, <2>7, <2>8, SentKept, ZenonT(60) DEF Good
<1>13. ASSUME NEW h \in Handlers, PollFound(h) \/ PollGivesUp(h) PROVE Good
  <2>1. PICK notice \in {"success", "failure"} :
            /\ task[h].pc = "poll" /\ Set(h, ToldOfTx(task[h], notice))
            /\ UNCHANGED <<config, account, state, connects, imports, tx>>
    BY <1>13, ZenonT(60) DEF PollFound, PollGivesUp, ResultNotice, pageVars
  <2> DEFINE v == ToldOfTx(task[h], notice)
  <2>2. /\ v.pc = "done" /\ v.notice = notice /\ v.kind = task[h].kind /\ v.input = task[h].input
        /\ v.asked = task[h].asked /\ v.sender = task[h].sender /\ v.overtaken = task[h].overtaken
    BY <1>2, ZenonT(60) DEF ToldOfTx, TaskFields
  <2>3. /\ task'[h] = v /\ tx'[h] = tx[h]
        /\ \A g \in Handlers : g # h => task'[g] = task[g] /\ tx'[g] = tx[g]
    BY <2>1, ZenonT(60) DEF Set, HandlersInv
  <2> HIDE DEF v
  <2>4. TaskTyped(v, Len(imports))
    BY <1>2, <2>2, ZenonT(60) DEF TaskTyped, Notices
  <2>5. TxForm(task[h], tx[h], config.slots)
    BY ZenonT(60) DEF PageInv
  <2>6. TxForm(v, tx[h], config.slots)
    BY <2>2, <2>5, ZenonT(60) DEF TxForm, TaskPassed
  <2> QED
    BY <2>1, <2>2, <2>3, <2>4, <2>6, SentKept, ZenonT(60) DEF Good
<1>14. ASSUME NEW h \in Handlers, Execute(h) PROVE Good
  <2>1. PICK result \in {"ok", "failed"},
             at \in IF task[h].kind = "lease" THEN {t \in Times : t >= task[h].asked} ELSE {0} :
            tx' = [tx EXCEPT ![h].status = result, ![h].at = at]
    BY <1>14, ZenonT(60) DEF Execute
  <2>2. /\ tx[h].status = "pending" /\ UNCHANGED <<config, account, state, connects, imports, task>>
    BY <1>14, ZenonT(60) DEF Execute, pageVars
  <2>3. at \in Nat
    <3>1. Times \subseteq Nat /\ 0 \in Nat
      BY PageAssumption
    <3> QED
      BY <3>1, ZenonT(60)
  <2> DEFINE x == [tx[h] EXCEPT !.status = result, !.at = at]
  <2>4. /\ task'[h] = task[h] /\ tx'[h] = x
        /\ \A g \in Handlers : g # h => task'[g] = task[g] /\ tx'[g] = tx[g]
    BY <2>1, <2>2, ZenonT(60) DEF HandlersInv
  <2>5. /\ x.status = result /\ x.at = at /\ x.wire = tx[h].wire /\ x.from = tx[h].from
    BY ZenonT(60) DEF HandlersInv, TaskInv, TxFields
  <2> HIDE DEF x
  <2>6. TaskTyped(task[h], Len(imports)) /\ TxForm(task[h], tx[h], config.slots)
    BY ZenonT(60) DEF PageInv
  <2>7. TxForm(task[h], x, config.slots)
    BY <2>2, <2>3, <2>5, <2>6, ZenonT(60) DEF TxForm
  <2>8. task[h].pc \in {"poll", "done", "gone"}
    BY <2>2, ZenonT(60) DEF HandlersInv, TaskInv
  <2> QED
    BY <2>2, <2>4, <2>6, <2>7, <2>8, SentKept, ZenonT(60) DEF Good
<1>15. ASSUME Reload PROVE Good
  <2> DEFINE Sent(h) == [task[h] EXCEPT !.pc = "gone"]
             Unsent(h) == [NewTask(task[h].kind) EXCEPT !.pc = "gone"]
  <2>1. /\ UNCHANGED <<config, account, tx>> /\ state' = NewPage /\ connects' = 0
        /\ \A h \in Handlers : task'[h] =
               CASE task[h].pc \in {"idle", "done", "gone"} -> task[h]
                 [] task[h].pc = "poll" -> Sent(h)
                 [] OTHER -> Unsent(h)
    BY <1>15, ZenonT(60) DEF Reload
  <2>2. PageTypes'
    <3>1. /\ NewPage \in [signer : BOOLEAN, address : Accounts \cup {""}, client : Endpoint]
          /\ NewPage.signer = FALSE /\ NewPage.address = "" /\ 0 \in Nat
      BY DEF NewPage, NoEndpoint, Endpoint
    <3> QED
      BY <1>0, <2>1, <3>1, ZenonT(60) DEF PageTypes
  <2>3. ASSUME NEW h \in Handlers
        PROVE  Kept(task'[h]) /\ TxForm(task'[h], tx[h], config.slots)
    <3>1. /\ Unsent(h).pc = "gone" /\ Unsent(h).notice = "none" /\ Unsent(h).kind = task[h].kind
      BY ZenonT(60) DEF NewTask
    <3>2. /\ Sent(h).pc = "gone" /\ Sent(h).notice = task[h].notice /\ Sent(h).kind = task[h].kind
          /\ Sent(h).input = task[h].input /\ Sent(h).asked = task[h].asked
          /\ Sent(h).sender = task[h].sender /\ Sent(h).overtaken = task[h].overtaken
      BY <1>2, ZenonT(60) DEF TaskFields
    <3>3. TaskInv(task[h], tx[h]) /\ TaskTyped(task[h], Len(imports)) /\ TxForm(task[h], tx[h], config.slots)
      BY ZenonT(60) DEF HandlersInv, PageInv
    <3>4. CASE task[h].pc \in {"idle", "done", "gone"}
      <4>1. task'[h] = task[h]
        BY <2>1, <3>4, ZenonT(60)
      <4>2. Kept(task[h])
        BY <3>3, <3>4, ZenonT(60) DEF Kept, TaskTyped, TaskForm
      <4> QED
        BY <3>3, <4>1, <4>2, ZenonT(60)
    <3>5. CASE task[h].pc = "poll"
      <4>1. task'[h] = Sent(h)
        BY <2>1, <3>5, ZenonT(60)
      <4> HIDE DEF Sent
      <4>2. Kept(Sent(h))
        BY <3>2, <3>3, <3>5, ZenonT(60) DEF Kept, TaskTyped, TaskForm
      <4>3. TxForm(Sent(h), tx[h], config.slots)
        BY <3>2, <3>3, ZenonT(60) DEF TxForm, TaskPassed
      <4> QED
        BY <4>1, <4>2, <4>3, ZenonT(60)
    <3>6. CASE task[h].pc \in Working \ {"idle"}
      <4>1. task'[h] = Unsent(h) /\ tx[h].status = "none"
        BY <2>1, <3>3, <3>6, ZenonT(60) DEF Working, TaskInv
      <4> HIDE DEF Unsent
      <4>2. Kept(Unsent(h))
        BY <3>1, <3>3, ZenonT(60) DEF Kept, TaskTyped, TaskForm, Notices
      <4>3. TxForm(Unsent(h), tx[h], config.slots)
        BY <4>1, ZenonT(60) DEF TxForm
      <4> QED
        BY <4>1, <4>2, <4>3, ZenonT(60)
    <3> QED
      BY <3>3, <3>4, <3>5, <3>6, ZenonT(60) DEF TaskTyped
  <2> QED
    BY <2>1, <2>2, <2>3, ZenonT(60) DEF Good, PageInv, Kept
<1>16. ASSUME SwitchAccount \/ UNCHANGED vars PROVE Good
  <2>1. UNCHANGED <<config, state, connects, imports, task, tx>> /\ account' \in Accounts
    BY <1>0, <1>16, ZenonT(60) DEF SwitchAccount, vars, pageVars, PageTypes
  <2> QED
    BY <2>1, ZenonT(60) DEF Good, PageInv, PageTypes
<1>17. ASSUME NEW ok \in BOOLEAN, ImportEnds(ok) PROVE Good
  <2>1. UNCHANGED <<config, account, state, connects, task, tx>>
    BY <1>17, ZenonT(60) DEF ImportEnds
  <2>2. Len(imports') = Len(imports)
    BY <1>17 DEF ImportEnds, ImportsInv
  <2> QED
    BY <2>1, <2>2, ZenonT(60) DEF Good, PageInv, PageTypes
<1>18. Good
  BY <1>4, <1>6, <1>7, <1>8, <1>9, <1>10, <1>11, <1>12, <1>13, <1>14, <1>15, <1>16, <1>17, ZenonT(60)
     DEF Next, Keplr, Browser
<1> QED
  BY <1>18 DEF Good

\* The invariants of the page hold together.
LEMMA PageInvariant == SafetySpec => [](HandlersInv /\ ImportsInv /\ PageInv)
<1> DEFINE Inv == HandlersInv /\ ImportsInv /\ PageInv
<1>1. Init => Inv
  <2> SUFFICES ASSUME Init PROVE Inv
    BY ZenonT(60)
  <2>1. HandlersInv
    BY ZenonT(60) DEF Init, HandlersInv, TaskInv, NewTask, NoTx, TaskFields, TxFields, Working
  <2>2. ImportsInv
    BY DEF Init, ImportsInv, OneImport
  <2>3. PageTypes
    <3>1. /\ NewPage \in [signer : BOOLEAN, address : Accounts \cup {""}, client : Endpoint]
          /\ NewPage.signer = FALSE /\ NewPage.address = "" /\ 0 \in Nat
      BY DEF NewPage, NoEndpoint, Endpoint
    <3> QED
      BY <3>1, ZenonT(60) DEF Init, PageTypes
  <2>4. \A h \in Handlers : task[h].pc = "idle" /\ task[h].notice = "none"
                            /\ task[h].kind = "connect" /\ tx[h].status = "none"
    BY ZenonT(60) DEF Init, NewTask, NoTx
  <2>5. PageInv
    BY <2>3, <2>4, ZenonT(60) DEF PageInv, TaskTyped, TaskForm, TxForm, Kinds, Notices, Working
  <2> QED
    BY <2>1, <2>2, <2>5, ZenonT(60)
<1>2. Inv /\ [Next]_vars => Inv'
  BY PageStep, ImportsKept, PageKept, ZenonT(60)
<1> QED
  BY <1>1, <1>2, PTL DEF SafetySpec

\* The page of wallet.js is in order whatever interleaves: signer and address are
\* stored together, a handler awaits an import of this page, and it tells its user
\* something exactly when it is done.
THEOREM PageTypesKept == SafetySpec => []PageTypeOK
<1>1. ASSUME HandlersInv, ImportsInv, PageInv PROVE PageTypeOK
  <2>1. PageTypes
    BY <1>1, ZenonT(60) DEF PageInv
  <2>2. /\ config \in Configs /\ account \in Accounts /\ connects \in Nat
        /\ state.signer \in BOOLEAN /\ state.client \in Endpoint
        /\ state.address \in Accounts \cup {""} /\ (state.signer <=> state.address # "")
    BY <2>1, ZenonT(60) DEF PageTypes
  <2>3. /\ imports \in Seq({"loading", "ok", "failed"}) /\ deps \in 0 .. Len(imports)
        /\ DOMAIN imports = 1 .. Len(imports)
    BY <1>1 DEF ImportsInv
  <2>4. ASSUME NEW h \in Handlers
        PROVE  /\ TaskTyped(task[h], Len(imports))
               /\ tx[h].status \in {"none", "pending", "ok", "failed"}
    BY <1>1, ZenonT(60) DEF PageInv, TxForm
  <2> QED
    BY <2>2, <2>3, <2>4, ZenonT(60) DEF PageTypeOK, TaskTyped, Working, Notices
<1> QED
  BY <1>1, PageInvariant, PTL

(***************************************************************************)
(* What the chain reads.                                                   *)
(***************************************************************************)
\* What the chain reads of a handler's transaction is the message that the handler
\* built from its form.
LEMMA SentRead ==
    ASSUME PageInv, NEW h \in Handlers, tx[h].status # "none",
           NEW kind \in FormKinds, task[h].kind = kind, NEW name, Carries(kind, name)
    PROVE  /\ task[h].input.kind = kind
           /\ ReadsAs(kind, tx[h].wire, name,
                      Message(task[h].input, task[h].sender, task[h].asked, config.slots))
<1>1. /\ TaskPassed(task[h])
      /\ tx[h].wire = Wire(task[h].input, task[h].sender, task[h].asked, config.slots)
  BY ZenonT(60) DEF PageInv, TxForm
<1>2. task[h].input.kind = kind
  BY <1>1, ZenonT(60) DEF TaskPassed, Passed
<1>3. ReadsAs(kind, Wire(task[h].input, task[h].sender, task[h].asked, config.slots), name,
              Message(task[h].input, task[h].sender, task[h].asked, config.slots))
  BY <1>2, WireRead, ZenonT(60)
<1> QED
  BY <1>1, <1>2, <1>3, ZenonT(60)

\* A registration that reaches the chain names a wallet whose badge the site has found
\* on the domain's homepage, also when handlers and connections overlap; its owner is
\* another only when a connection was replaced during the badge check.
THEOREM BadgeBeforeRegistration == SafetySpec => []RegisteredWalletVerified
<1>1. ASSUME HandlersInv, ImportsInv, PageInv PROVE RegisteredWalletVerified
  <2> SUFFICES ASSUME NEW h \in Handlers, tx[h].status # "none", task[h].kind = "register"
               PROVE  /\ BadgeVerified(Decode("register", tx[h].wire).domain, Trim(task[h].input.wallet))
                      /\ Decode("register", tx[h].wire).owner # Trim(task[h].input.wallet)
                            => task[h].overtaken
    BY ZenonT(60) DEF RegisteredWalletVerified
  <2> DEFINE in == task[h].input
             message == Message(in, task[h].sender, task[h].asked, config.slots)
  <2>1. TaskPassed(task[h])
    BY <1>1, ZenonT(60) DEF PageInv, TxForm
  <2>2. /\ in.kind = "register"
        /\ BadgeVerified(ToLowerCase(Trim(in.domain)), Trim(in.wallet))
        /\ task[h].sender # Trim(in.wallet) => task[h].overtaken
    BY <2>1, ZenonT(60) DEF TaskPassed, Passed
  <2>3. "register" \in FormKinds
    BY DEF FormKinds
  <2>4. /\ ReadsAs("register", tx[h].wire, "domain", message)
        /\ ReadsAs("register", tx[h].wire, "owner", message)
    BY <1>1, <2>3, SentRead, FieldsCarried, ZenonT(60)
  <2>5. message = RegisterMessage(in, task[h].sender)
    BY <2>2, MessageOf
  <2> HIDE DEF message
  <2>6. message.domain = ToLowerCase(Trim(in.domain)) /\ message.owner = task[h].sender
    BY <2>5, ZenonT(60) DEF RegisterMessage
  <2> QED
    BY <2>2, <2>4, <2>6, ZenonT(60) DEF ReadsAs
<1> QED
  BY <1>1, PageInvariant, PTL

\* A lease for a day that has begun, sent by the lease form, is not refused for its
\* start when it is executed within the grace that parseStartDate adds: what MsgLeaseSlot
\* carries is the end of the grace, in whole seconds as the chain counts them.
THEOREM BegunDayNotRefused == SafetySpec => []BegunDayAccepted
<1>1. ASSUME HandlersInv, ImportsInv, PageInv PROVE BegunDayAccepted
  <2>0. ASSUME NEW h \in Handlers, task[h].input.kind = "lease"
        PROVE  Message(task[h].input, task[h].sender, task[h].asked, config.slots)
                 = LeaseMessage(task[h].input, task[h].sender, task[h].asked)
    BY <2>0, MessageOf
  <2> SUFFICES ASSUME NEW h \in Handlers, tx[h].status \in {"ok", "failed"}, task[h].kind = "lease",
                      Trim(task[h].input.start_date) # "",
                      DayStart(Trim(task[h].input.start_date)) < task[h].asked,
                      tx[h].at <= task[h].asked + GraceTicks
               PROVE  ~StartPassed(h, tx[h].at)
    BY ZenonT(60) DEF BegunDayAccepted
  <2> DEFINE in == task[h].input
             asked == task[h].asked
             at == tx[h].at
             date == Trim(in.start_date)
             message == Message(in, task[h].sender, asked, config.slots)
             starts == Decode("lease", tx[h].wire).startsAtUnix
  <2>1. TaskPassed(task[h]) /\ at \in Nat
    BY <1>1, ZenonT(60) DEF PageInv, TxForm
  <2>2. asked \in Nat /\ in.kind = "lease"
    BY <2>1, ZenonT(60) DEF TaskPassed, Passed
  <2>3. "lease" \in FormKinds
    BY DEF FormKinds
  <2>4. ReadsAs("lease", tx[h].wire, "startsAtUnix", message)
    BY <1>1, <2>3, SentRead, FieldsCarried, ZenonT(60)
  <2>5. message = LeaseMessage(in, task[h].sender, asked)
    BY <2>0, <2>2, ZenonT(60)
  <2> HIDE DEF message
  <2>6. message.startsAtUnix = ParseStartDate(date, asked)
    BY <2>5, ZenonT(60) DEF LeaseMessage
  <2>7. ParseStartDate(date, asked) = (asked + GraceTicks) \div TicksPerSecond
    BY ZenonT(60) DEF ParseStartDate
  <2>8. starts = (asked + GraceTicks) \div TicksPerSecond
    BY <2>4, <2>6, <2>7, ZenonT(60) DEF ReadsAs
  <2> HIDE DEF asked, at, starts
  <2>9. ~(starts < at \div TicksPerSecond)
    <3>1. at <= asked + GraceTicks
      BY DEF at, asked
    <3> QED
      BY <2>1, <2>2, <2>8, <3>1, GraceCovers, ZenonT(60)
  <2> QED
    BY <2>9, ZenonT(60) DEF StartPassed, at, starts
<1> QED
  BY <1>1, PageInvariant, PTL

\* What the chain reads of a transaction is what stood in the form, and it is charged
\* to the account that signed: for every form, every configuration, any size of the
\* mantissa, and whatever the other handlers of wallet.js do meanwhile.
THEOREM ChainReadsForm == SafetySpec => []ChainSeesForm
<1>1. ASSUME HandlersInv, ImportsInv, PageInv PROVE ChainSeesForm
  <2> SUFFICES ASSUME NEW h \in Handlers, tx[h].status # "none"
               PROVE  LET in == task[h].input
                          read == Decode(in.kind, tx[h].wire)
                          status == <<"activate", "pause", "unlist">>
                      IN  /\ SignerOf(in.kind, tx[h].wire) = tx[h].from
                          /\ in.kind = "create" =>
                                 /\ read.domain = Trim(in.publisher)
                                 /\ \A name \in {"label", "summary", "category", "placement", "size"} :
                                        read[name] = Trim(in[name])
                                 /\ read.unitSeconds = config.slots.unit
                                 /\ read.minDurationSeconds = config.slots.min
                                 /\ read.maxDurationSeconds = config.slots.max
                                 /\ LET rate == Decimal[Trim(in.rate)]
                                    IN  rate \in Exact => read.rateAmount = ToString(rate \div 2)
                          /\ in.kind = "status" =>
                                 read.slotId = Trim(in.slot_id) /\ status[read.status] = in.action
                          /\ in.kind = "lease" =>
                                 /\ read.slotId = Trim(in.slot_id) /\ read.targetUrl = Trim(in.target_url)
                                 /\ LET duration == Decimal[Trim(in.duration_seconds)]
                                    IN  duration \in Exact => 2 * read.durationSeconds = duration
                          /\ in.kind = "register" =>
                                 /\ read.domain = ToLowerCase(Trim(in.domain))
                                 /\ read.referrer = Trim(in.referrer)
    BY ZenonT(60) DEF ChainSeesForm
  <2> DEFINE in == task[h].input
             sender == task[h].sender
             asked == task[h].asked
             slots == config.slots
             wire == tx[h].wire
             message == Message(in, sender, asked, slots)
  <2>1. /\ Passed(task[h].kind, in, asked, sender, task[h].overtaken)
        /\ SignerOf(task[h].kind, wire) = tx[h].from
    BY <1>1, ZenonT(60) DEF PageInv, TxForm, TaskPassed
  <2>2. in.kind = task[h].kind /\ in.kind \in FormKinds
    BY <2>1, ZenonT(60) DEF Passed
  <2>3. ASSUME NEW name, Carries(in.kind, name) PROVE ReadsAs(in.kind, wire, name, message)
    BY <1>1, <2>2, <2>3, SentRead, ZenonT(60)
  <2>4. /\ in.kind = "create" => message = CreateSlotMessage(in, sender, slots)
        /\ in.kind = "status" => message = SlotStatusMessage(in, sender)
        /\ in.kind = "lease" => message = LeaseMessage(in, sender, asked)
        /\ in.kind = "register" => message = RegisterMessage(in, sender)
    BY MessageOf
  <2> DEFINE read == Decode(in.kind, wire)
  <2> HIDE DEF in, sender, asked, slots, wire, message
  <2>5. ASSUME in.kind = "create"
        PROVE  /\ read.domain = Trim(in.publisher)
               /\ \A name \in {"label", "summary", "category", "placement", "size"} :
                      read[name] = Trim(in[name])
               /\ read.unitSeconds = slots.unit
               /\ read.minDurationSeconds = slots.min
               /\ read.maxDurationSeconds = slots.max
               /\ Decimal[Trim(in.rate)] \in Exact =>
                      read.rateAmount = ToString(Decimal[Trim(in.rate)] \div 2)
    <3> DEFINE Read(name) == ReadsAs("create", wire, name, message)
    <3>1. /\ Read("domain") /\ Read("label") /\ Read("summary") /\ Read("category")
          /\ Read("placement") /\ Read("size") /\ Read("rateAmount") /\ Read("unitSeconds")
          /\ Read("minDurationSeconds") /\ Read("maxDurationSeconds")
      BY <2>3, <2>5, FieldsCarried, ZenonT(60)
    <3>2. /\ message.domain = Trim(in.publisher) /\ message.label = Trim(in.label)
          /\ message.summary = Trim(in.summary) /\ message.category = Trim(in.category)
          /\ message.placement = Trim(in.placement) /\ message.size = Trim(in.size)
          /\ message.unitSeconds = slots.unit /\ message.minDurationSeconds = slots.min
          /\ message.maxDurationSeconds = slots.max
          /\ message.rateAmount = String(Number(Trim(in.rate)))
      <4>1. message = CreateSlotMessage(in, sender, slots)
        BY <2>4, <2>5, ZenonT(60)
      <4> QED
        BY <4>1, ZenonT(60) DEF CreateSlotMessage
    <3>3. Trim(in.rate) # ""
      BY <2>1, <2>2, <2>5, ZenonT(60) DEF Passed, CreateSlotValid
    <3>4. ASSUME Decimal[Trim(in.rate)] \in Exact
          PROVE  message.rateAmount = ToString(Decimal[Trim(in.rate)] \div 2)
      <4>1. Number(Trim(in.rate)) = Decimal[Trim(in.rate)]
        BY <3>3, <3>4, NumberExact, ZenonT(60)
      <4> QED
        BY <3>2, <4>1, ZenonT(60) DEF String
    <3>5. /\ read["label"] = Trim(in["label"]) /\ read["summary"] = Trim(in["summary"])
          /\ read["category"] = Trim(in["category"]) /\ read["placement"] = Trim(in["placement"])
          /\ read["size"] = Trim(in["size"])
      BY <2>5, <3>1, <3>2, ZenonT(60) DEF ReadsAs
    <3>6. /\ read.domain = Trim(in.publisher) /\ read.unitSeconds = slots.unit
          /\ read.minDurationSeconds = slots.min /\ read.maxDurationSeconds = slots.max
          /\ read.rateAmount = message.rateAmount
      BY <2>5, <3>1, <3>2, ZenonT(60) DEF ReadsAs
    <3> QED
      BY <3>4, <3>5, <3>6, ZenonT(60)
  <2>6. ASSUME in.kind = "status"
        PROVE  /\ read.slotId = Trim(in.slot_id)
               /\ <<"activate", "pause", "unlist">>[read.status] = in.action
    <3>1. ReadsAs("status", wire, "slotId", message) /\ ReadsAs("status", wire, "status", message)
      BY <2>3, <2>6, FieldsCarried, ZenonT(60)
    <3>2. message.slotId = Trim(in.slot_id) /\ message.status = SlotStatus[in.action]
      <4>1. message = SlotStatusMessage(in, sender)
        BY <2>4, <2>6, ZenonT(60)
      <4> QED
        BY <4>1, ZenonT(60) DEF SlotStatusMessage
    <3>3. in.action \in DOMAIN SlotStatus
      BY <2>1, <2>2, <2>6, ZenonT(60) DEF Passed, SlotStatusValid
    <3>4. <<"activate", "pause", "unlist">>[SlotStatus[in.action]] = in.action
      <4>1. in.action \in {"activate", "pause", "unlist"}
        BY <3>3, ZenonT(60) DEF SlotStatus
      <4>2. SlotStatus["activate"] = 1 /\ SlotStatus["pause"] = 2 /\ SlotStatus["unlist"] = 3
        BY ZenonT(60) DEF SlotStatus
      <4> QED
        BY <4>1, <4>2
    <3> QED
      BY <2>6, <3>1, <3>2, <3>4, ZenonT(60) DEF ReadsAs
  <2>7. ASSUME in.kind = "lease"
        PROVE  /\ read.slotId = Trim(in.slot_id) /\ read.targetUrl = Trim(in.target_url)
               /\ Decimal[Trim(in.duration_seconds)] \in Exact =>
                      2 * read.durationSeconds = Decimal[Trim(in.duration_seconds)]
    <3>1. /\ ReadsAs("lease", wire, "slotId", message) /\ ReadsAs("lease", wire, "targetUrl", message)
          /\ ReadsAs("lease", wire, "durationSeconds", message)
      BY <2>3, <2>7, FieldsCarried, ZenonT(60)
    <3>2. /\ message.slotId = Trim(in.slot_id) /\ message.targetUrl = Trim(in.target_url)
          /\ message.durationSeconds = Number(Trim(in.duration_seconds)) \div 2
      <4>1. message = LeaseMessage(in, sender, asked)
        BY <2>4, <2>7, ZenonT(60)
      <4> QED
        BY <4>1, ZenonT(60) DEF LeaseMessage
    <3>3. Number(Trim(in.duration_seconds)) > 0
      BY <2>1, <2>2, <2>7, ZenonT(60) DEF Passed, LeaseValid
    <3>4. Trim(in.duration_seconds) # ""
      <4>1. Number("") = 0
        BY ZenonT(60) DEF Number
      <4>2. ~(0 > 0)
        OBVIOUS
      <4> QED
        BY <3>3, <4>1, <4>2, ZenonT(60)
    <3>5. ASSUME Decimal[Trim(in.duration_seconds)] \in Exact
          PROVE  2 * message.durationSeconds = Decimal[Trim(in.duration_seconds)]
      <4> DEFINE x == Decimal[Trim(in.duration_seconds)]
      <4>1. message.durationSeconds = x \div 2 /\ x \in Nat /\ x % 2 = 0
        BY <3>2, <3>4, <3>5, NumberExact, ZenonT(60)
      <4> HIDE DEF x
      <4>2. 2 * (x \div 2) = x
        BY <4>1
      <4> QED
        BY <4>1, <4>2, ZenonT(60) DEF x
    <3> QED
      BY <2>7, <3>1, <3>2, <3>5, ZenonT(60) DEF ReadsAs
  <2>8. ASSUME in.kind = "register"
        PROVE  read.domain = ToLowerCase(Trim(in.domain)) /\ read.referrer = Trim(in.referrer)
    <3>1. /\ ReadsAs("register", wire, "domain", message)
          /\ ReadsAs("register", wire, "referrer", message)
      BY <2>3, <2>8, FieldsCarried, ZenonT(60)
    <3>2. message.domain = ToLowerCase(Trim(in.domain)) /\ message.referrer = Trim(in.referrer)
      <4>1. message = RegisterMessage(in, sender)
        BY <2>4, <2>8, ZenonT(60)
      <4> QED
        BY <4>1, ZenonT(60) DEF RegisterMessage
    <3> QED
      BY <2>8, <3>1, <3>2, ZenonT(60) DEF ReadsAs
  <2>9. SignerOf(in.kind, wire) = tx[h].from
    BY <2>1, <2>2, ZenonT(60)
  <2> QED
    BY <2>5, <2>6, <2>7, <2>8, <2>9, ZenonT(60) DEF in, wire, slots
<1> QED
  BY <1>1, PageInvariant, PTL
=============================================================================
