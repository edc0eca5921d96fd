---------------------------- MODULE MoneyServices ----------------------------
(***************************************************************************)
(* Dunning (extended), partner settlements, gateway webhooks, recurring    *)
(* billing and the ledger, side by side.  They share no state here, so     *)
(* their interleaving adds nothing: in a behaviour only the component      *)
(* named by part moves.                                                    *)
(***************************************************************************)
EXTENDS DunningCases, Integers, FiniteSets

CONSTANTS
  \* partner settlements
  Settlements, Earnings, Corrections, Clawbacks, EarningOf, ItemAmount,
  \* gateway webhooks
  Captures, PaymentAmount, MaxRequests, InDashboard, OnRequest,
  \* recurring billing
  BilledAccounts, Suffix, Cycles, Start, MaxTime, InvoiceAmount, MaxChanges, Nobody,
  \* the ledger
  Entries, Lines, Change, LedgerAccounts, MaxRebuilds, Absent,
  None

VARIABLES
  part,
  earning, corrected, state, lines, net, payouts, settling, approvedNet, recounted, contested,
  webhook, booked, rows, made, cause, requests, receiving, late, dead,
  now, schedule, invoice, paid, changes, billing, skipped, overwritten,
  posted, balance, posting, rebuilds, lost

settlementVars ==
  <<earning, corrected, state, lines, net, payouts, settling, approvedNet, recounted, contested>>
webhookVars == <<webhook, booked, rows, made, cause, requests, receiving, late, dead>>
billingVars == <<now, schedule, invoice, paid, changes, billing, skipped, overwritten>>
ledgerVars == <<posted, balance, posting, rebuilds, lost>>
moneyVars == <<part, settlementVars, webhookVars, billingVars, ledgerVars, vars>>

Settle == INSTANCE Settlement WITH
  Amount <- ItemAmount, task <- settling, overlapped <- recounted

Hook == INSTANCE RevenueWebhooks WITH Amount <- PaymentAmount, task <- receiving

Bill == INSTANCE BillingCycles WITH
  Accounts <- BilledAccounts, Amount <- InvoiceAmount, MaxRequests <- MaxChanges,
  requests <- changes, task <- billing, overlapped <- overwritten

Book == INSTANCE Ledger WITH Accounts <- LedgerAccounts, task <- posting

ASSUME MoneyAssumption ==
  /\ Settle!SettlementAssumption /\ Hook!WebhooksAssumption
  /\ Bill!BillingAssumption /\ Book!LedgerAssumption

MoneyInit ==
  /\ part \in {"settlement", "webhooks", "billing", "ledger", "dunning"}
  /\ Settle!Init /\ Hook!Init /\ Bill!Init /\ Book!Init /\ Init

MoneyNext ==
  /\ UNCHANGED part
  /\ \/ part = "settlement" /\ Settle!Next /\ UNCHANGED <<webhookVars, billingVars, ledgerVars, vars>>
     \/ part = "webhooks" /\ Hook!Next /\ UNCHANGED <<settlementVars, billingVars, ledgerVars, vars>>
     \/ part = "billing" /\ Bill!Next /\ UNCHANGED <<settlementVars, webhookVars, ledgerVars, vars>>
     \/ part = "ledger" /\ Book!Next /\ UNCHANGED <<settlementVars, webhookVars, billingVars, vars>>
     \/ part = "dunning" /\ Next /\ UNCHANGED <<settlementVars, webhookVars, billingVars, ledgerVars>>

MoneySpec == MoneyInit /\ [][MoneyNext]_moneyVars

\* The types of the five components.
MoneyTypeOK == Settle!TypeOK /\ Hook!TypeOK /\ Bill!TypeOK /\ Book!TypeOK /\ TypeOK

\* A settlement is the sum of its lines, an earning settled once (Settlement).
LinesAddUp == Settle!LinesAddUp

\* What is locked and paid is what was approved, paid once (Settlement).
PaidAsApproved == Settle!PaidAsApproved

\* The effects of an event happen once (RevenueWebhooks).
EffectsOnce == Hook!EffectsOnce

\* Each day is billed once, and what is due is what is not paid (BillingCycles).
InvoicesAddUp == Bill!InvoicesAddUp

\* A projection is the sum of its lines (Ledger).
ProjectionIsSum == Book!ProjectionIsSum
=============================================================================
