------------------------ MODULE SettlementInvariant ------------------------
(***************************************************************************)
(* Why settlement is correct: what each handler in progress may rely on.   *)
(*                                                                         *)
(* The handler whose transaction holds the invoice row, and only that one, *)
(* is about to credit a payment.  It summed the other COMPLETED rows after *)
(* it had the row; what happened to them since (a refund, a FAILED write)  *)
(* does not take the row lock, but can only have made the sum smaller.     *)
(***************************************************************************)
EXTENDS Settlement

Exists(t) == t \in Txns /\ pay[t].status # "NONE"

\* Every row holds an amount, and the providers only speak of rows.
RowsOK ==
    /\ \A t \in Txns : Exists(t) => pay[t].amount > 0
    /\ \A o \in Orders : Exists(o)
    /\ \A s \in Sessions : session[s] \in {"offered", "paid"} => Exists(s)

\* A manual payment that is logged has a row, so its id is taken.
EntriesOK ==
    /\ OneEntryPerCapture
    /\ \A e \in entries : e.ref \in Manuals => Exists(e.ref)

\* What a handler that is about to credit a payment has made sure of.
SettlingOK(q) ==
    /\ q.amt > 0
    /\ q.txn \in Txns
    /\ q.ref \in Txns
    /\ IF q.op = "manual" THEN q.ref = q.txn /\ q.txn \in Manuals
                          ELSE q.ref \notin Manuals

\* The sum it took under the row lock still covers the other payments.
LockedSumOK(q) ==
    /\ SumOf(Amount, Completed \ {q.txn}) <= q.sum
    /\ q.sum + q.amt <= Total
    /\ q.op # "manual" => pay[q.txn].status # "COMPLETED"

RequestOK(r) ==
    /\ \A s \in req[r].rest : Exists(s)
    /\ req[r].step \in {"supersede", "open"} => req[r].txn \in Sessions /\ req[r].amt > 0
    /\ req[r].step = "confirm" => req[r].op = "confirm"
    /\ req[r].step \in {"hook", "mark", "refundLock", "refund"} => req[r].op = "hook"
    /\ req[r].op = "hook" => req[r].event \in Events
    /\ req[r].step = "hook" => Exists(req[r].event.txn)
    /\ req[r].step \in {"settle", "commit"} => SettlingOK(req[r])
    /\ req[r].step = "commit" => invLock = r /\ LockedSumOK(req[r])
    /\ req[r].step \in {"fail", "refundLock", "refund"} => Exists(req[r].txn)
    /\ req[r].step = "refund" => req[r].sum <= Total

IInv ==
    /\ TypeOK
    /\ NoOverpayment
    /\ StatusMatchesAmount
    /\ RowsOK
    /\ EntriesOK
    /\ \A r \in Requests : RequestOK(r)

-----------------------------------------------------------------------------
(***************************************************************************)
(* Why Stripe's credits are backed.  A payment at a provider is asked for  *)
(* all that manual payments leave open, so that only one can be COMPLETED  *)
(* at a time, and then the invoice is paid; one that a payment intent      *)
(* completed in place of its own session is of the same amount.            *)
(***************************************************************************)
Providers == Sessions \cup Orders

ManualPaid == SumOf(Amount, Completed \cap Manuals)

CoversRest(amount) == Total <= ManualPaid + amount

Backed(amount) == \E s \in Sessions : session[s] = "paid" /\ pay[s].amount = amount

RowsCover == \A t \in Providers : Exists(t) => CoversRest(pay[t].amount)

OneProviderPayment ==
    \A t \in Completed \cap Providers :
        /\ Completed \cap Providers = {t}
        /\ Paid = Total
        /\ t \in Sessions => Backed(pay[t].amount)

\* A handler that credits a provider's payment credits what its row holds.
CreditingOK(q) ==
    /\ q.txn \in Providers /\ Exists(q.txn)
    /\ q.amt = pay[q.txn].amount
    /\ q.txn \in Sessions => Backed(q.amt)

SourceOK(q) ==
    /\ q.step \in {"supersede", "open"} => CoversRest(q.amt)
    /\ q.step \in {"settle", "commit"} /\ q.op # "manual" => CreditingOK(q)
    /\ q.step = "fail" => q.txn \in Providers
    /\ q.step \in {"refundLock", "refund"} => q.txn \in Orders
    /\ q.step = "hook" /\ q.event.kind \in {"session_completed", "intent_succeeded"} =>
         session[q.event.txn] = "paid"

BackingInv ==
    /\ RowsCover
    /\ OneProviderPayment
    /\ \A r \in Requests : SourceOK(req[r])

\* A session that is not offered yet belongs to one checkout alone, so that
\* the customer has not paid it when the checkout makes its row.
Opening(q) == q.step \in {"supersede", "open"}

CheckoutsApart ==
    /\ \A r \in Requests : Opening(req[r]) => session[req[r].txn] = "created"
    /\ \A q, r \in Requests :
          Opening(req[q]) /\ Opening(req[r]) /\ req[q].txn = req[r].txn => q = r

\* Only a refund writes a sum that it took before it had the invoice row.
Refunding == \E r \in Requests : CommitRefund(r)

=============================================================================
