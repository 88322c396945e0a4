---------------------------- MODULE MCWalletPage ----------------------------
(***************************************************************************)
(* A small instance of WalletPage for TLC.                                 *)
(***************************************************************************)
EXTENDS WalletPage

TrimmedTexts == " " :> "" @@ " ad " :> "ad"
LoweredTexts == "Site" :> "site"
\* With four bits the whole numbers are exact up to 16, and 17 is rounded to 16.
DecimalTexts == "-1" :> -2 @@ "0" :> 0 @@ "1.5" :> 3 @@ "6" :> 12 @@ "16" :> 32 @@ "17" :> 34
DayTexts == "day0" :> 0 @@ "day1" :> 1

HomeBadges == {<<"site", "grid1a">>}

Deployed ==
    [enabled |-> TRUE, keplr |-> TRUE, suggest |-> TRUE, autoSigner |-> FALSE, chainId |-> "grid",
     rpc |-> [scheme |-> "tcp", port |-> 26657], rest |-> NoEndpoint, gasPriceParses |-> TRUE,
     slots |-> [denom |-> "", unit |-> 1, min |-> 0, max |-> 9], flashes |-> {"page", "form"}]
PageConfigs ==
    { Deployed,
      [Deployed EXCEPT !.suggest = FALSE, !.autoSigner = TRUE, !.gasPriceParses = FALSE,
                       !.flashes = {"page"}],
      [Deployed EXCEPT !.keplr = FALSE, !.flashes = {}],
      [Deployed EXCEPT !.rpc.scheme = " "],
      [Deployed EXCEPT !.enabled = FALSE] }

CreateForm(label, rate) ==
    [kind |-> "create", publisher |-> "Site", label |-> label, summary |-> "", category |-> "",
     placement |-> " ", size |-> " ad ", rate |-> rate]
LeaseForm(target, duration, date) ==
    [kind |-> "lease", slot_id |-> "ad", target_url |-> target, duration_seconds |-> duration,
     start_date |-> date]
RegisterForm(wallet, referrer) ==
    [kind |-> "register", domain |-> "Site", wallet |-> wallet, referrer |-> referrer]

FormInputs ==
    [connect  |-> {},
     create   |-> {CreateForm(" ad ", rate) : rate \in {"16", "1.5"}},
     status   |-> {[kind |-> "status", slot_id |-> "ad", action |-> action] : action \in {"pause", "other"}},
     lease    |-> {LeaseForm(" ad ", "6", date) : date \in {"day0", "day1"}},
     register |-> {RegisterForm("grid1a", "grid1v"), RegisterForm("grid1b", "")}]
=============================================================================
