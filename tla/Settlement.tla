----------------------------- MODULE Settlement -----------------------------
(***************************************************************************)
(* How money is recorded against one issued invoice.                       *)
(*                                                                         *)
(* Four kinds of handler record or void payments of the same invoice while *)
(* others cancel it or show it: an administrator's manual payment, the     *)
(* public Stripe checkout and its confirmation on the return page, the     *)
(* capture of a PayPal order, and the webhooks of both providers.  A       *)
(* handler is a request that runs as a sequence of steps, one for every    *)
(* database statement or transaction after which another request may run;  *)
(* what it read earlier stays in its record and may be stale when it is    *)
(* used.  The two settling transactions take the invoice's row lock        *)
(* (SELECT ... FOR UPDATE); the refund transaction and the plain updates   *)
(* do not.                                                                 *)
(*                                                                         *)
(* The invoice is issued and its total no longer changes.                  *)
(***************************************************************************)
EXTENDS InvoiceStatus, UnitSums

CONSTANTS
    Requests,   \* handler executions that may be in progress together
    Manuals,    \* transaction ids of manual payments
    Sessions,   \* Stripe checkout session ids
    Orders,     \* ids of PayPal orders created while PayPal was offered
    Total,      \* the total of the invoice, in units
    Nil         \* no request, no transaction, no event

Txns == Manuals \cup Sessions \cup Orders

ASSUME TotalAssumption == Total \in Nat \ {0}

ASSUME TxnsAssumption ==
    /\ IsFiniteSet(Txns)
    /\ Manuals \cap Sessions = {}
    /\ Manuals \cap Orders = {}
    /\ Sessions \cap Orders = {}

ASSUME NilAssumption == Nil \notin Requests /\ Nil \notin Txns

VARIABLES
    status,      \* Invoice.status as stored
    amountPaid,  \* Invoice.amountPaid as stored
    pay,         \* the payment row of each transaction id
    entries,     \* PaymentTransaction rows: which capture paid which payment
    processed,   \* webhook events whose row says processed
    invLock,     \* the request whose transaction holds the invoice row
    req,         \* the progress of each request
    session,     \* Stripe's view of each checkout session
    order        \* PayPal's view of each order

invoice == <<status, amountPaid>>
records == <<pay, entries>>
provider == <<session, order>>
vars == <<status, amountPaid, pay, entries, processed, invLock, req, session, order>>

-----------------------------------------------------------------------------
(***************************************************************************)
(* Types.                                                                  *)
(***************************************************************************)

RowStatuses == {"NONE", "PENDING", "COMPLETED", "FAILED", "CANCELLED", "REFUNDED"}

\* born orders the rows by createdAt; NONE is a row that does not exist.
Row == [status: RowStatuses, amount: Nat, born: Nat]
NoRow == [status |-> "NONE", amount |-> 0, born |-> 0]

StripeEvents == [kind: {"session_completed", "intent_succeeded", "intent_failed"}, txn: Sessions]
PayPalEvents == [kind: {"capture_completed", "capture_denied", "capture_refunded"}, txn: Orders]
Events == StripeEvents \cup PayPalEvents

Ops == {"idle", "manual", "checkout", "confirm", "capture", "hook", "cancel", "view"}

Steps == {"idle", "cancel", "view", "supersede", "open", "confirm", "hook",
          "settle", "commit", "fail", "refundLock", "refund", "mark", "unmark"}

Request == [op: Ops, step: Steps, txn: Txns \cup {Nil}, ref: Txns \cup {Nil},
            amt: Nat, sum: Nat, seen: InvoiceStatuses, rest: SUBSET Sessions,
            event: Events \cup {Nil}]

Idle == [op |-> "idle", step |-> "idle", txn |-> Nil, ref |-> Nil, amt |-> 0,
         sum |-> 0, seen |-> "SENT", rest |-> {}, event |-> Nil]

-----------------------------------------------------------------------------
(***************************************************************************)
(* What the queries over payment rows return.                              *)
(***************************************************************************)

Amount == [t \in Txns |-> pay[t].amount]

Rows == {t \in Txns : pay[t].status # "NONE"}

Completed == {t \in Txns : pay[t].status = "COMPLETED"}

Pending == {t \in Txns : pay[t].status = "PENDING"}

Paid == SumOf(Amount, Completed)

\* findPendingProviderPayments orders by createdAt, newest first.
Newest(S) == {t \in S : \A u \in S : pay[u].born <= pay[t].born}

\* A payment row that a refund transaction has updated and not yet committed.
RowHeld(t) == \E q \in Requests : req[q].step = "refund" /\ req[q].txn = t

\* Slip: the settling transactions read the invoice without FOR UPDATE.
RowLockIgnored == TRUE

InvoiceRowFree == invLock = Nil

\* Slip: a transaction that fails keeps its connection and its locks.
RowKept == UNCHANGED invLock

ReleaseRow == invLock' = Nil

Goto(r, step) == req' = [req EXCEPT ![r].step = step]

Finish(r) == req' = [req EXCEPT ![r] = Idle]

Start(r, fields) ==
    /\ req[r].step = "idle"
    /\ req' = [req EXCEPT ![r] = fields]

-----------------------------------------------------------------------------
(***************************************************************************)
(* A manual payment: the handler reads the invoice, checks the shown       *)
(* status, and only then opens the settling transaction.                   *)
(***************************************************************************)
RecordManualPayment(r) ==
    \E t \in Manuals, a \in 1 .. Total + 1, overdue \in BOOLEAN :
        /\ CanRecordPayment(DeriveInvoiceStatus(status, Total, amountPaid, overdue))
        /\ Start(r, [Idle EXCEPT !.op = "manual", !.step = "settle",
                                 !.txn = t, !.ref = t, !.amt = a])
        /\ UNCHANGED <<invoice, records, processed, invLock, provider>>

(***************************************************************************)
(* The settling transactions.  The other COMPLETED rows are summed after   *)
(* the invoice row is locked; a provider's own row is left out of the sum, *)
(* for it may be completed again.                                          *)
(***************************************************************************)
IsManual(r) == req[r].op = "manual"

Others(r) == IF IsManual(r) THEN Completed ELSE Completed \ {req[r].txn}

\* Slip: the amount is compared with the total, not with what is left of it.
FitsAlone(r) == req[r].amt <= Total

Fits(r) == SumOf(Amount, Others(r)) + req[r].amt <= Total

\* What a webhook and the return page still need once a payment is dealt with.
Back(r, step) ==
    req' = [req EXCEPT ![r] = [Idle EXCEPT !.op = req[r].op, !.step = step,
                                           !.event = req[r].event, !.rest = req[r].rest]]

AfterSuccess(r) == IF req[r].op = "hook" THEN Back(r, "mark") ELSE Finish(r)

AfterError(r) ==
    CASE req[r].op = "hook"    -> Back(r, "unmark")
      [] req[r].op = "confirm" -> Back(r, "confirm")
      [] OTHER                 -> Finish(r)

AlreadyCompleted(r) == ~IsManual(r) /\ pay[req[r].txn].status = "COMPLETED"

BeginSettlement(r) ==
    /\ req[r].step = "settle"
    /\ InvoiceRowFree
    /\ \/ AlreadyCompleted(r) /\ AfterSuccess(r) /\ UNCHANGED invLock
       \/ ~AlreadyCompleted(r) /\ ~Fits(r) /\ AfterError(r) /\ UNCHANGED invLock
       \/ /\ ~AlreadyCompleted(r)
          /\ Fits(r)
          /\ req' = [req EXCEPT ![r].step = "commit", ![r].sum = SumOf(Amount, Others(r))]
          /\ invLock' = r
    /\ UNCHANGED <<invoice, records, processed, provider>>

\* The payment rows the transaction is about to update.
WriteSet(r) ==
    IF IsManual(r) THEN {} ELSE {req[r].txn} \cup Pending

\* It waits for a refund that holds one of them and that waits for it.
Deadlocked(r) == req[r].step = "commit" /\ \E t \in WriteSet(r) : RowHeld(t)

IdTaken(r) == IsManual(r) /\ pay[req[r].txn].status # "NONE"

SettledRow(r) ==
    LET old == pay[req[r].txn]
    IN  [status |-> "COMPLETED", amount |-> req[r].amt,
         born |-> IF old.status = "NONE" THEN Cardinality(Rows) + 1 ELSE old.born]

\* Slip: the new balance forgets the payments recorded before.
OwnAmount(r) == req[r].amt

NextPaid(r) == req[r].sum + req[r].amt

\* Slip: a transaction row is created for every report of a capture.
NeverLogged(r) == FALSE

Logged(r) == ~IsManual(r) /\ \E e \in entries : e.ref = req[r].ref

NewEntry(r) ==
    [id |-> Cardinality(entries) + 1, ref |-> req[r].ref, payment |-> req[r].txn]

CommitSettlement(r) ==
    /\ req[r].step = "commit"
    /\ ~Deadlocked(r) /\ ~IdTaken(r)
    /\ pay' = [t \in Txns |->
                  IF t = req[r].txn THEN SettledRow(r)
                  ELSE IF ~IsManual(r) /\ t \in Pending
                       THEN [pay[t] EXCEPT !.status = "CANCELLED"] ELSE pay[t]]
    /\ entries' = IF Logged(r) THEN entries ELSE entries \cup {NewEntry(r)}
    /\ amountPaid' = NextPaid(r)
    /\ status' = SettledStatus(NextPaid(r), Total)
    /\ ReleaseRow
    /\ AfterSuccess(r)
    /\ UNCHANGED <<processed, provider>>

(***************************************************************************)
(* The transaction rolls back: the transaction id of a manual payment is   *)
(* taken, or PostgreSQL breaks a deadlock with a refund.                   *)
(***************************************************************************)
AbortSettlement(r) ==
    /\ req[r].step = "commit"
    /\ IdTaken(r) \/ Deadlocked(r)
    /\ ReleaseRow
    /\ AfterError(r)
    /\ UNCHANGED <<invoice, records, processed, provider>>

-----------------------------------------------------------------------------
(***************************************************************************)
(* Stripe.  A checkout charges what the COMPLETED rows leave open, retires *)
(* the other PENDING sessions in the database (never at Stripe), and only  *)
(* then inserts its own row and returns the session's address.             *)
(***************************************************************************)
CreateCheckout(r) ==
    \E s \in Sessions, overdue \in BOOLEAN :
        /\ session[s] = "none"
        /\ status # "CANCELLED"
        /\ Paid < Total
        /\ CanRecordPayment(DeriveInvoiceStatus(status, Total, Paid, overdue))
        /\ Start(r, [Idle EXCEPT !.op = "checkout", !.step = "supersede",
                                 !.txn = s, !.amt = Total - Paid])
        /\ session' = [session EXCEPT ![s] = "created"]
        /\ UNCHANGED <<invoice, records, processed, invLock, order>>

SupersedePending(r) ==
    /\ req[r].step = "supersede"
    /\ pay' = [t \in Txns |->
                  IF t \in (Pending \cap Sessions) \ {req[r].txn}
                  THEN [pay[t] EXCEPT !.status = "CANCELLED"] ELSE pay[t]]
    /\ Goto(r, "open")
    /\ UNCHANGED <<invoice, entries, processed, invLock, provider>>

OpenPayment(r) ==
    /\ req[r].step = "open"
    /\ pay' = [pay EXCEPT ![req[r].txn] =
                  IF pay[req[r].txn].status # "NONE" THEN pay[req[r].txn]
                  ELSE [status |-> "PENDING", amount |-> req[r].amt,
                        born |-> Cardinality(Rows) + 1]]
    /\ session' = [session EXCEPT ![req[r].txn] = "offered"]
    /\ Finish(r)
    /\ UNCHANGED <<invoice, entries, processed, invLock, order>>

(***************************************************************************)
(* The return page: every session that was PENDING when the list was read  *)
(* is looked up at Stripe, newest first, until one of them settles.        *)
(***************************************************************************)
ConfirmCheckout(r) ==
    /\ status # "CANCELLED"
    /\ Paid < Total
    /\ Pending \cap Sessions # {}
    /\ Start(r, [Idle EXCEPT !.op = "confirm", !.step = "confirm",
                             !.rest = Pending \cap Sessions])
    /\ UNCHANGED <<invoice, records, processed, invLock, provider>>

\* Slip: a session counts as captured as soon as it is open.
OpenedAtStripe(s) == session[s] \in {"offered", "paid"}

PaidAtStripe(s) == session[s] = "paid"

ConfirmNext(r) ==
    /\ req[r].step = "confirm"
    /\ \/ req[r].rest = {} /\ Finish(r)
       \/ \E s \in Newest(req[r].rest) :
             IF PaidAtStripe(s)
             THEN req' = [req EXCEPT ![r].step = "settle", ![r].txn = s, ![r].ref = s,
                                     ![r].amt = pay[s].amount, ![r].rest = @ \ {s}]
             ELSE req' = [req EXCEPT ![r].rest = @ \ {s}]
    /\ UNCHANGED <<invoice, records, processed, invLock, provider>>

\* The customer pays a session whose address was returned to the browser.
CustomerPays(s) ==
    /\ session[s] = "offered"
    /\ session' = [session EXCEPT ![s] = "paid"]
    /\ UNCHANGED <<invoice, records, processed, invLock, req, order>>

-----------------------------------------------------------------------------
(***************************************************************************)
(* PayPal.  The capture endpoint finds the order's row whatever its        *)
(* status.  PayPal answers that the order is completed, also when it was   *)
(* captured, or captured and refunded, before; or it holds the capture.    *)
(***************************************************************************)
CaptureOrder(r) ==
    \E o \in Orders :
        /\ status # "CANCELLED"
        /\ pay[o].status # "NONE"
        /\ \/ /\ order' = [order EXCEPT ![o] = IF @ = "refunded" THEN @ ELSE "captured"]
              /\ Start(r, [Idle EXCEPT !.op = "capture", !.step = "settle", !.txn = o,
                                       !.ref = o, !.amt = pay[o].amount])
           \/ /\ order[o] \in {"approved", "held"}
              /\ order' = [order EXCEPT ![o] = "held"]
              /\ Start(r, [Idle EXCEPT !.op = "capture", !.step = "fail", !.txn = o])
        /\ UNCHANGED <<invoice, records, processed, invLock, session>>

\* PayPal releases a held capture, or gives a captured amount back.
PayPalMoves(o) ==
    /\ \/ order[o] = "held" /\ order' = [order EXCEPT ![o] = "captured"]
       \/ order[o] = "captured" /\ order' = [order EXCEPT ![o] = "refunded"]
    /\ UNCHANGED <<invoice, records, processed, invLock, req, session>>

\* markProviderPaymentStatus: whatever the row holds by now.
WriteFailed(r) ==
    /\ req[r].step = "fail"
    /\ ~RowHeld(req[r].txn)
    /\ pay' = [pay EXCEPT ![req[r].txn].status = "FAILED"]
    /\ AfterSuccess(r)
    /\ UNCHANGED <<invoice, entries, processed, invLock, provider>>

-----------------------------------------------------------------------------
(***************************************************************************)
(* Webhooks.  A provider may deliver an event it has sent at any time and  *)
(* any number of times; a delivery first reads whether the event is        *)
(* processed and may act on that long afterwards.                          *)
(***************************************************************************)
Sent(e) ==
    CASE e.kind \in {"session_completed", "intent_succeeded"} -> session[e.txn] = "paid"
      [] e.kind = "intent_failed"     -> session[e.txn] \in {"offered", "paid"}
      [] e.kind = "capture_completed" -> order[e.txn] \in {"captured", "refunded"}
      [] e.kind = "capture_refunded"  -> order[e.txn] = "refunded"
      [] e.kind = "capture_denied"    -> order[e.txn] = "held"

ReceiveEvent(r) ==
    \E e \in Events :
        /\ Sent(e)
        /\ e \notin processed
        /\ Start(r, [Idle EXCEPT !.op = "hook", !.step = "hook", !.event = e])
        /\ UNCHANGED <<invoice, records, processed, invLock, provider>>

Hook(r, kinds) == req[r].step = "hook" /\ req[r].event.kind \in kinds

\* The row an event is about, if any: payment intents carry no session id, so
\* the newest PENDING session of the invoice stands in for it.
Subject(e) ==
    IF e.kind \in {"intent_succeeded", "intent_failed"}
    THEN Newest(Pending \cap Sessions)
    ELSE {e.txn}

HookSettles(r) ==
    /\ Hook(r, {"session_completed", "intent_succeeded", "capture_completed"})
    /\ LET e == req[r].event
           Fitting == {t \in Subject(e) : pay[t].amount = pay[e.txn].amount}
       IN  \/ \E t \in Fitting :
                 req' = [req EXCEPT ![r].step = "settle", ![r].txn = t, ![r].ref = e.txn,
                                    ![r].amt = pay[t].amount]
           \/ Fitting = {} /\ Goto(r, "mark")
    /\ UNCHANGED <<invoice, records, processed, invLock, provider>>

HookFails(r) ==
    /\ Hook(r, {"intent_failed", "capture_denied"})
    /\ LET Open == Subject(req[r].event) \cap Pending
       IN  \/ \E t \in Open : req' = [req EXCEPT ![r].step = "fail", ![r].txn = t]
           \/ Open = {} /\ Goto(r, "mark")
    /\ UNCHANGED <<invoice, records, processed, invLock, provider>>

(***************************************************************************)
(* The refund transaction.  It updates the payment row first, so that row  *)
(* is locked until it commits; it never locks the invoice row before it    *)
(* has summed the COMPLETED rows.                                          *)
(***************************************************************************)
FindRefunded(r) ==
    /\ Hook(r, {"capture_refunded"})
    /\ LET o == req[r].event.txn
       IN  IF pay[o].status \in {"NONE", "REFUNDED"} THEN Goto(r, "mark")
           ELSE req' = [req EXCEPT ![r].step = "refundLock", ![r].txn = o]
    /\ UNCHANGED <<invoice, records, processed, invLock, provider>>

ReadForRefund(r) ==
    /\ req[r].step = "refundLock"
    /\ ~RowHeld(req[r].txn)
    /\ req' = [req EXCEPT ![r].step = "refund", ![r].seen = status,
                          ![r].sum = SumOf(Amount, Completed \ {req[r].txn})]
    /\ UNCHANGED <<invoice, records, processed, invLock, provider>>

RefundedStatus(sum, seen) ==
    IF sum > 0 THEN SettledStatus(sum, Total)
    ELSE IF seen \in {"PAID", "PARTIALLY_PAID"} THEN "SENT" ELSE seen

CommitRefund(r) ==
    /\ req[r].step = "refund"
    /\ InvoiceRowFree
    /\ pay' = [pay EXCEPT ![req[r].txn].status = "REFUNDED"]
    /\ amountPaid' = req[r].sum
    /\ status' = RefundedStatus(req[r].sum, req[r].seen)
    /\ Back(r, "mark")
    /\ UNCHANGED <<entries, processed, invLock, provider>>

\* PostgreSQL may break the deadlock at the refund's expense instead.
AbortRefund(r) ==
    /\ req[r].step = "refund"
    /\ \E q \in Requests : Deadlocked(q) /\ req[r].txn \in WriteSet(q)
    /\ Back(r, "unmark")
    /\ UNCHANGED <<invoice, records, processed, invLock, provider>>

\* The webhook row is updated and the delivery answered.
MarkEvent(r) ==
    /\ \/ /\ req[r].step = "mark"
          /\ processed' = processed \cup {req[r].event}
       \/ /\ req[r].step = "unmark"
          /\ processed' = processed \ {req[r].event}
    /\ Finish(r)
    /\ UNCHANGED <<invoice, records, invLock, provider>>

-----------------------------------------------------------------------------
(***************************************************************************)
(* The handlers that write the status alone.  Each checks the status it    *)
(* read and then writes; the write waits for the invoice row only.         *)
(***************************************************************************)
ReadToCancel(r) ==
    /\ CanCancelInvoice(status)
    /\ Start(r, [Idle EXCEPT !.op = "cancel", !.step = "cancel"])
    /\ UNCHANGED <<invoice, records, processed, invLock, provider>>

CancelInvoice(r) ==
    /\ req[r].step = "cancel"
    /\ InvoiceRowFree
    /\ status' = "CANCELLED"
    /\ Finish(r)
    /\ UNCHANGED <<amountPaid, records, processed, invLock, provider>>

ReadToView(r) ==
    /\ status = "SENT"
    /\ Start(r, [Idle EXCEPT !.op = "view", !.step = "view"])
    /\ UNCHANGED <<invoice, records, processed, invLock, provider>>

ViewInvoice(r) ==
    /\ req[r].step = "view"
    /\ InvoiceRowFree
    /\ status' = "VIEWED"
    /\ Finish(r)
    /\ UNCHANGED <<amountPaid, records, processed, invLock, provider>>

(***************************************************************************)
(* The process dies, or a statement fails outside every transaction that   *)
(* has committed: an open transaction rolls back and its locks go.         *)
(***************************************************************************)
Crash(r) ==
    /\ req[r].step # "idle"
    /\ Finish(r)
    /\ invLock' = IF invLock = r THEN Nil ELSE invLock
    /\ UNCHANGED <<invoice, records, processed, provider>>

-----------------------------------------------------------------------------
Init ==
    /\ status = "SENT"
    /\ amountPaid = 0
    /\ pay = [t \in Txns |-> IF t \in Orders
                             THEN [status |-> "PENDING", amount |-> Total, born |-> 1]
                             ELSE NoRow]
    /\ entries = {}
    /\ processed = {}
    /\ invLock = Nil
    /\ req = [r \in Requests |-> Idle]
    /\ session = [s \in Sessions |-> "none"]
    /\ order = [o \in Orders |-> "approved"]

Settle(r) == BeginSettlement(r) \/ CommitSettlement(r) \/ AbortSettlement(r)

Stripe(r) ==
    \/ CreateCheckout(r) \/ SupersedePending(r) \/ OpenPayment(r)
    \/ ConfirmCheckout(r) \/ ConfirmNext(r)

Webhook(r) ==
    \/ ReceiveEvent(r) \/ HookSettles(r) \/ HookFails(r) \/ MarkEvent(r)
    \/ FindRefunded(r) \/ ReadForRefund(r) \/ CommitRefund(r) \/ AbortRefund(r)

StatusOnly(r) ==
    ReadToCancel(r) \/ CancelInvoice(r) \/ ReadToView(r) \/ ViewInvoice(r)

Next ==
    \/ \E r \in Requests :
          \/ RecordManualPayment(r) \/ Settle(r) \/ Stripe(r) \/ CaptureOrder(r)
          \/ WriteFailed(r) \/ Webhook(r) \/ StatusOnly(r) \/ Crash(r)
    \/ \E s \in Sessions : CustomerPays(s)
    \/ \E o \in Orders : PayPalMoves(o)

Spec == Init /\ [][Next]_vars

(***************************************************************************)
(* The scheduling that liveness needs: a request in progress runs on, and  *)
(* one that waits for a row gets it, for PostgreSQL queues the waiters of  *)
(* a row lock.  Nothing is assumed of customers, providers or browsers.    *)
(***************************************************************************)
Continue(r) ==
    \/ Settle(r) \/ SupersedePending(r) \/ OpenPayment(r) \/ ConfirmNext(r)
    \/ WriteFailed(r) \/ HookSettles(r) \/ HookFails(r) \/ MarkEvent(r)
    \/ FindRefunded(r) \/ ReadForRefund(r) \/ CommitRefund(r) \/ AbortRefund(r)
    \/ CancelInvoice(r) \/ ViewInvoice(r)

FairSpec == Spec /\ \A r \in Requests : SF_vars(Continue(r))

-----------------------------------------------------------------------------
(***************************************************************************)
(* Properties.                                                             *)
(***************************************************************************)

TypeOK ==
    /\ status \in InvoiceStatuses
    /\ amountPaid \in Nat
    /\ pay \in [Txns -> Row]
    /\ entries \subseteq [id: Nat, ref: Txns, payment: Txns]
    /\ IsFiniteSet(entries)
    /\ processed \subseteq Events
    /\ invLock \in Requests \cup {Nil}
    /\ req \in [Requests -> Request]
    /\ session \in [Sessions -> {"none", "created", "offered", "paid"}]
    /\ order \in [Orders -> {"approved", "held", "captured", "refunded"}]

(***************************************************************************)
(* The COMPLETED payments of an invoice never sum to more than its total,  *)
(* whatever manual payments, confirmations, captures and webhooks race     *)
(* ("Payment exceeds the invoice balance").                                *)
(***************************************************************************)
NoOverpayment == Paid <= Total

(***************************************************************************)
(* The stored status says what the stored amount says: PAID only when      *)
(* amountPaid covers the total, PARTIALLY_PAID only when it covers part.   *)
(***************************************************************************)
StatusMatchesAmount ==
    /\ status = "PAID" => amountPaid = Total
    /\ status = "PARTIALLY_PAID" => 0 < amountPaid /\ amountPaid < Total

(***************************************************************************)
(* A capture is logged against one payment only, however often and through *)
(* whichever route (return page, two kinds of webhook) it is reported.     *)
(***************************************************************************)
OneEntryPerCapture ==
    \A d, e \in entries : d.ref = e.ref => d = e

(***************************************************************************)
(* Stripe sessions are credited with no more than customers paid at        *)
(* Stripe, although payment intents are matched to the newest PENDING      *)
(* session rather than to their own.                                       *)
(***************************************************************************)
StripeCreditsBacked ==
    SumOf(Amount, Completed \cap Sessions)
        <= SumOf(Amount, {s \in Sessions : session[s] = "paid"})

(***************************************************************************)
(* Without refunds the stored amount never falls below what the COMPLETED  *)
(* rows hold: no settling transaction loses the effect of another one.     *)
(***************************************************************************)
StoredAmountCoversRows == Paid <= amountPaid

(***************************************************************************)
(* Every handler that started comes to an end: the row locks of settling   *)
(* and refunding transactions keep none of them waiting for ever.          *)
(***************************************************************************)
EveryRequestEnds ==
    \A r \in Requests : req[r].step # "idle" ~> req[r].step = "idle"

(***************************************************************************)
(* What the tests and the error messages say of the program, and races     *)
(* between its handlers refute.                                            *)
(*                                                                         *)
(* The stored balance is that of the payment records.                      *)
(***************************************************************************)
BalanceFromRows == amountPaid = Paid

(***************************************************************************)
(* A paid invoice cannot be cancelled.                                     *)
(***************************************************************************)
PaidNeverCancelled == [][status = "PAID" => status' # "CANCELLED"]_vars

=============================================================================
