----------------------------- MODULE SquadStatus -----------------------------
(***************************************************************************)
(* How forge_be reads Squad, its payment provider: the translation of a    *)
(* Squad event or status into the status of a Transaction row, shared by   *)
(* the webhook receiver and the reconciliation cron (squad-status.ts), and *)
(* what Squad says of a transfer when it is asked (squad.client.ts).       *)
(* Event names and statuses are abstracted to the families the code tells  *)
(* apart with includes() and ===.                                          *)
(***************************************************************************)
EXTENDS Naturals

\* Families of event names: "funding" is an incoming credit to a virtual
\* account, "other" is any name no test of the classifier matches.
EventName == {"funding", "transfer.success", "failed", "reversed", "other"}

\* Families of the status field of an event or of a verify answer.
ReportedStatus == {"success", "failed", "reversed", "processing", "other"}

\* Statuses of a Transaction row; "none" is a row not written yet.
NonTerminal == {"pending", "processing"}
Terminal == {"completed", "failed", "reversed"}
RowStatus == NonTerminal \union Terminal \union {"none"}

\* The outcome of the classifier, or NoOutcome when it returns null.
NoOutcome == [kind |-> "none", dbStatus |-> "none"]
VaCredit == [kind |-> "va_credit", dbStatus |-> "completed"]
Transfer(s) == [kind |-> "transfer", dbStatus |-> s]

\* Variant: the provider's own word is stored as the status of the row.
ClassifyVerbatim(event, status) ==
    IF event = "funding" THEN VaCredit ELSE Transfer(status)

\* classifySquadOutcome: the tests are made in this order, so a success status
\* wins over a failed or reversed event name, and a funding event over both.
Classify(event, status) ==
    IF event = "funding" THEN VaCredit
    ELSE IF event = "transfer.success" \/ status = "success"
         THEN Transfer("completed")
    ELSE IF event = "failed" \/ status = "failed" THEN Transfer("failed")
    ELSE IF event = "reversed" \/ status = "reversed" THEN Transfer("reversed")
    ELSE IF status = "processing" THEN Transfer("processing")
    ELSE NoOutcome

\* What Squad knows of an outbound transfer: "unknown" until a transfer call
\* reaches it, then "accepted", and in the end "paid" (possibly "reversed"
\* later) or "failed".
Truth == {"unknown", "accepted", "paid", "failed", "reversed"}

\* The webhook event Squad emits when a transfer reaches a state.
EventOf(truth) ==
    CASE truth = "paid"     -> Classify("transfer.success", "success")
      [] truth = "failed"   -> Classify("failed", "failed")
      [] truth = "reversed" -> Classify("reversed", "reversed")
      [] OTHER              -> Classify("other", "processing")

\* Variant: a lookup that fails is read as a failed transfer.
VerifyOfPessimist(truth) ==
    CASE truth = "paid"     -> Classify("transfer.success", "success")
      [] truth = "reversed" -> Classify("other", "reversed")
      [] OTHER              -> Classify("other", "failed")

\* Variant: an answer that names no final state is read as a success.
VerifyOfOptimist(truth) ==
    CASE truth = "failed"   -> Classify("other", "failed")
      [] truth = "reversed" -> Classify("other", "reversed")
      [] OTHER              -> Classify("transfer.success", "success")

\* verifyTransaction: a polled status carries an event name only for a success,
\* and any error of the call, an unknown reference included, reads as pending.
VerifyOf(truth) ==
    CASE truth = "paid"     -> Classify("transfer.success", "success")
      [] truth = "failed"   -> Classify("other", "failed")
      [] truth = "reversed" -> Classify("other", "reversed")
      [] OTHER              -> Classify("other", "processing")
=============================================================================
