---------------------------- MODULE TxSubmission ----------------------------
(***************************************************************************)
(* What a page that submits transactions promises its user: at most one    *)
(* transaction for each submission, none once the submission has been      *)
(* reported as ended, and a success only of a transaction that has been    *)
(* executed.  A failure promises less: a transaction that was sent may     *)
(* still be executed, or have been, when the page reports an error of the  *)
(* node or of the network.                                                 *)
(***************************************************************************)
CONSTANT Submissions

VARIABLES ledger,   \* what the chain has of each submission
          told      \* what its user has been told

SubmissionInit ==
    /\ ledger = [s \in Submissions |-> "none"]
    /\ told = [s \in Submissions |-> "none"]

Send(s) ==
    /\ ledger[s] = "none" /\ told[s] = "none"
    /\ ledger' = [ledger EXCEPT ![s] = "pending"]
    /\ told' = told

Commit(s) ==
    /\ ledger[s] = "pending"
    /\ \E result \in {"ok", "failed"} : ledger' = [ledger EXCEPT ![s] = result]
    /\ told' = told

Report(s, report) ==
    /\ told[s] = "none"
    /\ report = "success" => ledger[s] = "ok"
    /\ told' = [told EXCEPT ![s] = report]
    /\ ledger' = ledger

SubmissionNext ==
    \E s \in Submissions :
        \/ Send(s)
        \/ Commit(s)
        \/ \E report \in {"success", "failure"} : Report(s, report)

SubmissionSpec == SubmissionInit /\ [][SubmissionNext]_<<ledger, told>>
=============================================================================
