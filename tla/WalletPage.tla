----------------------------- MODULE WalletPage -----------------------------
(***************************************************************************)
(* The wallet page of congrid-site: wallet.js in a browser, with the Keplr *)
(* extension, the site's badge check, the RPC node and the chain.  Every   *)
(* click or submit runs a handler; handlers interleave wherever one awaits *)
(* an answer from outside the page.                                        *)
(***************************************************************************)
EXTENDS WalletForms

CONSTANTS
    Accounts,      \* the accounts in the user's Keplr
    Configs,       \* the configurations a page may be served with
    Inputs,        \* for each form, what the user may have entered when it is read
    Badges,        \* <<domain, wallet>>: the homepage shows the badge of this wallet
    MaxHandlers,   \* bound on clicks and submits
    Times          \* the times at which a lease form is read and executed

Endpoint == [scheme : {"", " ", "tcp", "http", "https"}, port : Nat]
Kinds == {"connect", "create", "status", "lease", "register"}

ASSUME PageAssumption ==
    /\ "" \notin Accounts
    /\ MaxHandlers \in Nat /\ Times \subseteq Nat \ {0}
    /\ \A c \in Configs : c.rpc \in Endpoint
    /\ \A kind \in Kinds : \A in \in Inputs[kind] : in.kind = kind

VARIABLES
    config,     \* window.CongridConfig and what the page finds in its window
    account,    \* Keplr's selected account
    suggested,  \* the chain description that Keplr was given
    state,      \* wallet.js: signer, address and client
    connects,   \* how often the page's address has been written
    imports,    \* each import of the dependency bundle: loading, ok or failed
    deps,       \* walletDepsPromise: the import it stands for, 0 for null
    task,       \* the handlers
    tx          \* the transaction of each handler on the chain

pageVars == <<state, connects, imports, deps>>
vars == <<config, account, suggested, pageVars, task, tx>>

Handlers == 1 .. MaxHandlers
NoInput == [kind |-> "none"]
NoEndpoint == [scheme |-> "", port |-> 0]
NoChain == [chainId |-> ""]

NewTask(kind) ==
    [kind |-> kind, pc |-> "idle", import |-> 0, then |-> "", input |-> NoInput, sender |-> "",
     asked |-> 0, seen |-> 0, overtaken |-> FALSE, from |-> "", notice |-> "none",
     place |-> ""]
NewPage == [signer |-> FALSE, address |-> "", client |-> NoEndpoint]
NoTx == [status |-> "none", wire |-> << >>, from |-> "", at |-> 0]

Init ==
    /\ config \in Configs
    /\ account \in Accounts
    /\ suggested = NoChain
    /\ state = NewPage /\ connects = 0 /\ imports = << >> /\ deps = 0
    /\ task = [h \in Handlers |-> NewTask("connect")]
    /\ tx = [h \in Handlers |-> NoTx]

(***************************************************************************)
(* Notices and configuration.                                              *)
(***************************************************************************)
\* showFlash looks in the handler's form, then in the page, then calls alert.
FlashPlace(kind) ==
    IF kind = "register" /\ "form" \in config.flashes
    THEN "form"
    ELSE IF "page" \in config.flashes THEN "page" ELSE "alert"

Set(h, t) == task' = [task EXCEPT ![h] = t]
\* A handler that has sent nothing ends, and one that has.
Told(t, notice) ==
    [NewTask(t.kind) EXCEPT !.pc = "done", !.notice = notice, !.place = FlashPlace(t.kind)]
ToldOfTx(t, notice) ==
    [t EXCEPT !.pc = "done", !.notice = notice, !.place = FlashPlace(t.kind)]

ToHttpRPC(url) ==
    CASE url.scheme = " "   -> NoEndpoint
      [] url.scheme = "tcp" -> [url EXCEPT !.scheme = "http"]
      [] OTHER              -> url

DefaultRestFromRPC(rpc) ==
    LET url == ToHttpRPC(rpc)
    IN  CASE url = NoEndpoint  -> [scheme |-> "http", port |-> 1317]
          [] url.port = 26657  -> [url EXCEPT !.port = 1317]
          [] OTHER             -> url

\* suggestChainIfSupported: the description that Keplr is asked to accept.
ChainInfo ==
    [chainId |-> Trim(config.chainId), rpc |-> ToHttpRPC(config.rpc),
     rest |-> IF config.rest = NoEndpoint THEN DefaultRestFromRPC(config.rpc) ELSE config.rest]
SuggestSupported == config.suggest /\ Trim(config.chainId) # ""

(***************************************************************************)
(* loadWalletDeps: all callers await one promise; a failed one is          *)
(* forgotten, so that the next caller imports again.                       *)
(***************************************************************************)
\* A bug: the promise is not kept, every caller imports.
ImportAgain(h, t, then) ==
    LET n == Len(imports) + 1
    IN  /\ imports' = Append(imports, "loading")
        /\ deps' = n
        /\ Set(h, [t EXCEPT !.pc = "deps", !.import = n, !.then = then])
LoadWalletDeps(h, t, then) ==
    LET n == IF deps # 0 THEN deps ELSE Len(imports) + 1
    IN  /\ imports' = IF deps # 0 THEN imports ELSE Append(imports, "loading")
        /\ deps' = n
        /\ Set(h, [t EXCEPT !.pc = "deps", !.import = n, !.then = then])

ImportEnds(ok) ==
    /\ \E n \in DOMAIN imports :
           /\ imports[n] = "loading"
           /\ imports' = [imports EXCEPT ![n] = IF ok THEN "ok" ELSE "failed"]
    /\ deps' = IF ok THEN deps ELSE 0
    /\ UNCHANGED <<config, account, suggested, state, connects, task, tx>>

(***************************************************************************)
(* submitTx and getClient, called when the message has been built.         *)
(***************************************************************************)
SubmitTx(h, t, address) ==
    \/ /\ state.client # NoEndpoint
       /\ Set(h, [t EXCEPT !.pc = "sign", !.from = address])
       /\ UNCHANGED <<imports, deps>>
    \/ /\ state.client = NoEndpoint /\ ToHttpRPC(config.rpc) = NoEndpoint
       /\ Set(h, Told(t, "failure"))
       /\ UNCHANGED <<imports, deps>>
    \/ /\ state.client = NoEndpoint /\ ToHttpRPC(config.rpc) # NoEndpoint
       /\ LoadWalletDeps(h, t, "client")

\* The handler reads its form, which the user may have edited since the submit, and
\* checks it.  Only parseStartDate looks at the clock.
ReadForm(h, t, address) ==
    \E in \in Inputs[t.kind], now \in IF t.kind = "lease" THEN Times ELSE {0} :
        LET filled == [t EXCEPT !.input = in, !.sender = address, !.import = 0, !.then = "",
                              !.asked = now, !.seen = IF t.kind = "register" THEN connects' ELSE 0]
        IN  \/ /\ ~FormValid(in, address, now)
               /\ Set(h, Told(t, "failure"))
               /\ UNCHANGED <<imports, deps>>
            \/ /\ FormValid(in, address, now)
               /\ IF t.kind = "register"
                  THEN Set(h, [filled EXCEPT !.pc = "verify"]) /\ UNCHANGED <<imports, deps>>
                  ELSE SubmitTx(h, filled, address)

\* What a handler does once it is connected.  The fields that a connect button fills
\* with the address are read like those that the user has entered.
Proceed(h, t, address) ==
    \/ /\ t.kind = "connect"
       /\ Set(h, Told(t, "success"))
       /\ UNCHANGED <<imports, deps>>
    \/ /\ t.kind \in {"create", "lease"}
       /\ LoadWalletDeps(h, t, "form")
    \/ /\ t.kind \in {"status", "register"}
       /\ ReadForm(h, t, address)

(***************************************************************************)
(* A click or submit, and ensureWalletConnected.                           *)
(***************************************************************************)
Connected == state.signer /\ state.address # ""
ProviderUsable == config.keplr /\ config.chainId # "" /\ config.rpc # NoEndpoint

\* initWalletUI binds the handlers of an enabled page.
Activate(h, kind) ==
    /\ config.enabled
    /\ task[h].pc = "idle" /\ \A g \in 1 .. h - 1 : task[g].pc # "idle"
    /\ LET t == NewTask(kind)
       IN  \/ /\ Connected
              /\ connects' = connects
              /\ Proceed(h, t, state.address)
           \/ /\ ~Connected /\ ~ProviderUsable
              /\ Set(h, Told(t, "failure"))
              /\ UNCHANGED <<connects, imports, deps>>
           \/ /\ ~Connected /\ ProviderUsable
              /\ Set(h, [t EXCEPT !.pc = IF SuggestSupported THEN "suggest" ELSE "enable"])
              /\ UNCHANGED <<connects, imports, deps>>
    /\ UNCHANGED <<config, account, suggested, state, tx>>

SuggestAnswered(h) ==
    /\ task[h].pc = "suggest"
    /\ suggested' = ChainInfo
    /\ Set(h, [task[h] EXCEPT !.pc = "enable"])
    /\ UNCHANGED <<config, account, pageVars, tx>>

\* A bug: the signer is stored before its accounts are known.
SignerStoredEarly(h) ==
    /\ task[h].pc = "enable"
    /\ Set(h, [task[h] EXCEPT !.pc = "accounts"])
    /\ state' = [state EXCEPT !.signer = TRUE]
    /\ UNCHANGED <<config, account, suggested, connects, imports, deps, tx>>
EnableAnswered(h) ==
    /\ task[h].pc = "enable"
    /\ Set(h, [task[h] EXCEPT !.pc = IF config.autoSigner THEN "signer" ELSE "accounts"])
    /\ UNCHANGED <<config, account, suggested, pageVars, tx>>

SignerAnswered(h) ==
    /\ task[h].pc = "signer"
    /\ Set(h, [task[h] EXCEPT !.pc = "accounts"])
    /\ UNCHANGED <<config, account, suggested, pageVars, tx>>

AccountsAnswered(h) ==
    /\ task[h].pc = "accounts"
    /\ state' = [state EXCEPT !.signer = TRUE, !.address = account]
    /\ connects' = connects + 1
    /\ Proceed(h, task[h], account)
    /\ UNCHANGED <<config, account, suggested, tx>>

\* The user or Keplr refuses, or there is no account.
ProviderFails(h) ==
    /\ task[h].pc \in {"suggest", "enable", "signer", "accounts"}
    /\ Set(h, Told(task[h], "failure"))
    /\ UNCHANGED <<config, account, suggested, pageVars, tx>>

(***************************************************************************)
(* The continuations of the other awaits.                                  *)
(***************************************************************************)
\* getClient after loadWalletDeps: a gas price that does not parse is an error.
DepsLoaded(h) ==
    /\ task[h].pc = "deps" /\ imports[task[h].import] = "ok"
    /\ connects' = connects
    /\ \/ /\ task[h].then = "form"
          /\ ReadForm(h, task[h], state.address)
       \/ /\ task[h].then = "client" /\ config.gasPriceParses
          /\ Set(h, [task[h] EXCEPT !.pc = "client", !.import = 0, !.then = ""])
          /\ UNCHANGED <<imports, deps>>
       \/ /\ task[h].then = "client" /\ ~config.gasPriceParses
          /\ Set(h, Told(task[h], "failure"))
          /\ UNCHANGED <<imports, deps>>
    /\ UNCHANGED <<config, account, suggested, state, tx>>

DepsFailed(h) ==
    /\ task[h].pc = "deps" /\ imports[task[h].import] = "failed"
    /\ Set(h, Told(task[h], "failure"))
    /\ UNCHANGED <<config, account, suggested, pageVars, tx>>

\* connectWithSigner answers; submitTx then signs with the address of that moment.
ClientConnected(h) ==
    /\ task[h].pc = "client"
    /\ state' = [state EXCEPT !.client = ToHttpRPC(config.rpc)]
    /\ Set(h, [task[h] EXCEPT !.pc = "sign", !.from = state.address])
    /\ UNCHANGED <<config, account, suggested, connects, imports, deps, tx>>

\* handlePublisherVerify finds the badge of the wallet that the request named.
BadgeVerified(domain, wallet) == <<domain, wallet>> \in Badges

\* The badge check answers; the message takes the address of that moment.
VerifyAnswered(h) ==
    /\ task[h].pc = "verify"
    /\ BadgeVerified(ToLowerCase(Trim(task[h].input.domain)), task[h].sender)
    /\ SubmitTx(h, [task[h] EXCEPT !.sender = state.address, !.seen = 0,
                                 !.overtaken = connects # task[h].seen], state.address)
    /\ UNCHANGED <<config, account, suggested, state, connects, tx>>

\* connectWithSigner, the badge check, the user, Keplr or the node's CheckTx says no.
StepRefused(h) ==
    /\ task[h].pc \in {"client", "verify", "sign"}
    /\ Set(h, Told(task[h], "failure"))
    /\ UNCHANGED <<config, account, suggested, pageVars, tx>>

(***************************************************************************)
(* signAndBroadcast.  The signing client finds the address among Keplr's   *)
(* accounts or gives up; the node admits a transaction that is signed by   *)
(* the signer of its message.                                              *)
(***************************************************************************)
TxWire(h) == Wire(task[h].input, task[h].sender, task[h].asked, config.slots)

Admitted(h) ==
    tx' = [tx EXCEPT ![h] = [NoTx EXCEPT !.status = "pending", !.wire = TxWire(h), !.from = task[h].from]]

Broadcast(h) ==
    /\ task[h].pc = "sign"
    /\ account = task[h].from
    /\ SignerOf(task[h].kind, TxWire(h)) = task[h].from
    /\ Admitted(h)
    /\ Set(h, [task[h] EXCEPT !.pc = "poll"])
    /\ UNCHANGED <<config, account, suggested, pageVars>>

\* A bug: the code of the result is not looked at.
NoticeAlways(status) == "success"
\* The poll finds the transaction; submitTx throws when its code is not zero.
ResultNotice(status) == IF status = "ok" THEN "success" ELSE "failure"
PollFound(h) ==
    /\ task[h].pc = "poll" /\ tx[h].status \in {"ok", "failed"}
    /\ Set(h, ToldOfTx(task[h], ResultNotice(tx[h].status)))
    /\ UNCHANGED <<config, account, suggested, pageVars, tx>>

\* A bug: the poll has no time limit.
PollForever(h) == FALSE
\* The node's answer to the broadcast is lost, a query fails, or a minute is over:
\* signAndBroadcast throws, and the handler shows the error as it shows a refusal.
PollGivesUp(h) ==
    /\ task[h].pc = "poll"
    /\ Set(h, ToldOfTx(task[h], "failure"))
    /\ UNCHANGED <<config, account, suggested, pageVars, tx>>

(***************************************************************************)
(* The chain, the user and the clock.                                      *)
(***************************************************************************)
\* MsgLeaseSlot asks for a start before the block's time.
StartPassed(h, at) ==
    /\ task[h].kind = "lease"
    /\ LET starts == Decode("lease", tx[h].wire).startsAtUnix
       IN  starts > 0 /\ starts < at \div TicksPerSecond

Execute(h) ==
    /\ tx[h].status = "pending"
    /\ \E result \in {"ok", "failed"},
          at \in IF task[h].kind = "lease" THEN {t \in Times : t >= task[h].asked} ELSE {0} :
           /\ StartPassed(h, at) => result = "failed"
           /\ tx' = [tx EXCEPT ![h].status = result, ![h].at = at]
    /\ UNCHANGED <<config, account, suggested, pageVars, task>>

SwitchAccount ==
    /\ account' \in Accounts \ {account}
    /\ UNCHANGED <<config, suggested, pageVars, task, tx>>

\* The reload 1.5 seconds after a success, or by the user: the handlers are gone.
Reload ==
    /\ \E h \in Handlers : task[h].pc # "idle"
    /\ state' = NewPage /\ connects' = 0 /\ imports' = << >> /\ deps' = 0
    /\ task' = [h \in Handlers |->
                   CASE task[h].pc \in {"idle", "done", "gone"} -> task[h]
                     [] task[h].pc = "poll" -> [task[h] EXCEPT !.pc = "gone"]
                     [] OTHER -> [NewTask(task[h].kind) EXCEPT !.pc = "gone"]]
    /\ UNCHANGED <<config, account, suggested, tx>>

\* What the browser runs by itself once the awaited answer is there.
Browser(h) ==
    \/ DepsLoaded(h) \/ DepsFailed(h) \/ ClientConnected(h) \/ VerifyAnswered(h)
    \/ StepRefused(h) \/ PollFound(h) \/ PollGivesUp(h)

Keplr(h) ==
    \/ SuggestAnswered(h) \/ EnableAnswered(h) \/ SignerAnswered(h) \/ AccountsAnswered(h)
    \/ ProviderFails(h) \/ Broadcast(h)

Next ==
    \/ \E h \in Handlers : (\E kind \in Kinds : Activate(h, kind)) \/ Keplr(h) \/ Browser(h) \/ Execute(h)
    \/ \E ok \in BOOLEAN : ImportEnds(ok)
    \/ SwitchAccount \/ Reload

SafetySpec == Init /\ [][Next]_vars

\* Network requests and timers of a browser end: an import, a request to the node or
\* to the site is answered or fails.  Nothing is assumed of the user or of the chain.
Fairness ==
    /\ WF_vars(\E ok \in BOOLEAN : ImportEnds(ok))
    /\ \A h \in Handlers : WF_vars(task[h].pc # "sign" /\ Browser(h))
Spec == SafetySpec /\ Fairness

-----------------------------------------------------------------------------
\* Types; a handler that waits for an import waits for one of this page, and what a
\* handler has told its user goes with where it stands.
PageTypeOK ==
    /\ config \in Configs /\ account \in Accounts
    /\ state.signer \in BOOLEAN /\ state.client \in Endpoint
    /\ state.address \in Accounts \cup {""} /\ (state.signer <=> state.address # "")
    /\ connects \in Nat
    /\ imports \in Seq({"loading", "ok", "failed"}) /\ deps \in 0 .. Len(imports)
    /\ \A h \in Handlers :
           /\ task[h].kind \in Kinds
           /\ task[h].pc \in {"idle", "suggest", "enable", "signer", "accounts", "deps", "verify",
                              "client", "sign", "poll", "done", "gone"}
           /\ task[h].pc = "deps" => task[h].import \in DOMAIN imports
           /\ task[h].notice \in {"none", "success", "failure"}
           /\ task[h].pc = "done" <=> task[h].notice # "none"
           /\ tx[h].status \in {"none", "pending", "ok", "failed"}

\* walletDepsPromise keeps handlers that overlap from importing the bundle twice: at
\* most one import is loading or has succeeded, whatever failed before it, and it is
\* the one that the next caller will be given.
OneImport ==
    \A n \in DOMAIN imports : imports[n] # "failed" => n = deps

\* What the chain reads of a transaction is what stood in the form when it was read,
\* and it is charged to the account that signed: the hand-written codecs agree with
\* tx.proto, the action's button with the status enumeration, and no whole rate or
\* duration that a JavaScript number holds exactly is altered by Number and String.
ChainSeesForm ==
    \A h \in Handlers : tx[h].status # "none" =>
        LET in == task[h].input
            read == Decode(in.kind, tx[h].wire)
            status == <<"activate", "pause", "unlist">>
        IN  /\ SignerOf(in.kind, tx[h].wire) = tx[h].from
            /\ in.kind = "create" =>
                   /\ read.domain = Trim(in.publisher)
                   /\ \A name \in {"label", "summary", "category", "placement", "size"} :
                          read[name] = Trim(in[name])
                   /\ read.unitSeconds = config.slots.unit
                   /\ read.minDurationSeconds = config.slots.min
                   /\ read.maxDurationSeconds = config.slots.max
                   /\ LET rate == Decimal[Trim(in.rate)]
                      IN  rate \in Exact => read.rateAmount = ToString(rate \div 2)
            /\ in.kind = "status" =>
                   read.slotId = Trim(in.slot_id) /\ status[read.status] = in.action
            /\ in.kind = "lease" =>
                   /\ read.slotId = Trim(in.slot_id) /\ read.targetUrl = Trim(in.target_url)
                   /\ LET duration == Decimal[Trim(in.duration_seconds)]
                      IN  duration \in Exact => 2 * read.durationSeconds = duration
            /\ in.kind = "register" =>
                   /\ read.domain = ToLowerCase(Trim(in.domain))
                   /\ read.referrer = Trim(in.referrer)

\* A registration names as owner the wallet that the form names and for which the
\* site has found the badge on the domain's homepage.  The exception is the one the
\* code leaves: state.address is read again after the badge check, and a connection
\* that was under way in another handler may have replaced it meanwhile.
RegisteredWalletVerified ==
    \A h \in Handlers : tx[h].status # "none" /\ task[h].kind = "register" =>
        LET read == Decode("register", tx[h].wire)
            wallet == Trim(task[h].input.wallet)
        IN  /\ BadgeVerified(read.domain, wallet)
            /\ read.owner # wallet => task[h].overtaken

\* A lease for a day that has already begun is not refused for its start date when
\* the chain executes it within the five minutes that parseStartDate adds.
BegunDayAccepted ==
    \A h \in Handlers :
        LET date == Trim(task[h].input.start_date)
        IN  /\ tx[h].status \in {"ok", "failed"} /\ task[h].kind = "lease"
            /\ date # "" /\ DayStart(date) < task[h].asked
            /\ tx[h].at <= task[h].asked + GraceTicks
            => ~StartPassed(h, tx[h].at)

\* What the page tells the user of a handler's transaction.
Submission == INSTANCE TxSubmission WITH
    Submissions <- Handlers,
    ledger <- [h \in Handlers |-> tx[h].status],
    told <- [h \in Handlers |-> IF task[h].kind = "connect" THEN "none" ELSE task[h].notice]

\* The handlers keep the promise of TxSubmission: a submit sends at most one
\* transaction, none after its handler has shown a notice, and a hash is announced
\* only of an executed transaction.
SubmissionKept == Submission!SubmissionSpec

\* A handler does not hang where only the network is to answer: it comes to Keplr's
\* signing request, tells its user how it ended, or is gone with its page.
HandlersSettle ==
    \A h \in Handlers : task[h].pc \in {"deps", "verify", "client", "poll"}
                          ~> task[h].pc \in {"sign", "done", "gone"}
=============================================================================
