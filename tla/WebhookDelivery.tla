-------------------------- MODULE WebhookDelivery --------------------------
(***************************************************************************)
(* One event of a payment provider, delivered again and again, and the     *)
(* receipt of the payment it reports.  A delivery looks at the event's row,*)
(* takes a lock in Redis, settles, mails the receipt and marks the row.    *)
(* One that finds the lock taken is acknowledged without having done       *)
(* anything; one that cannot reach Redis goes on without the lock.  The    *)
(* payer's return page settles and mails as well.  What settling does to   *)
(* the invoice is Settlement's; here it is done or not done.               *)
(***************************************************************************)
EXTENDS Naturals

CONSTANTS
  Handlers,   \* requests that may run at the same time
  Nothing,    \* null
  MaxSends    \* bound: receipts handed to the mail service

VARIABLES
  row,       \* the event in payment_webhooks
  lock,      \* the handler whose token the webhook's lock holds
  claimed,   \* Payment.receiptSentAt is set
  hook,      \* the requests under way
  settled,   \* the payment is COMPLETED
  answer,    \* whether a delivery was acknowledged, skipped, refused, or failed
  mail       \* receipts handed over, mailed, mailed but reported as failed;
             \* a claim that nobody will give back

vars == <<row, lock, claimed, hook, settled, answer, mail>>

Lease == INSTANCE RedisLock WITH Holders <- Handlers, Nil <- Nothing

Working ==
  {"record", "process", "receipt", "send", "giveback", "mark", "unmark",
   "release"}

Hook == [stage: {"idle", "lock"} \cup Working, kind: {"event", "capture"},
         seen: {"none", "open"}, holds: BOOLEAN, ok: BOOLEAN]

Answers == [acked: BOOLEAN, skipped: BOOLEAN, refused: BOOLEAN, failed: BOOLEAN]

Mails == [sends: 0..MaxSends, sent: Nat, unclear: Nat, stuck: BOOLEAN]

Free == [stage |-> "idle", kind |-> "event", seen |-> "none",
         holds |-> FALSE, ok |-> FALSE]

Init ==
  /\ row = "none"
  /\ lock = Nothing
  /\ claimed = FALSE
  /\ hook = [h \in Handlers |-> Free]
  /\ settled = FALSE
  /\ answer = [acked |-> FALSE, skipped |-> FALSE, refused |-> FALSE,
               failed |-> FALSE]
  /\ mail = [sends |-> 0, sent |-> 0, unclear |-> 0, stuck |-> FALSE]

Go(h, stage) == hook' = [hook EXCEPT ![h].stage = stage]

Ends(h) == hook' = [hook EXCEPT ![h] = Free]

\* Once settled and mailed a delivery marks the event, a capture returns.
Continues(h) == IF hook[h].kind = "event" THEN Go(h, "mark") ELSE Ends(h)

\* An exception reaches the caller: a delivery first reopens the event.
Throws(h) == IF hook[h].kind = "event" THEN Go(h, "unmark") ELSE Ends(h)

Acked == [answer EXCEPT !.acked = TRUE]

Failed == [answer EXCEPT !.failed = TRUE]

-----------------------------------------------------------------------------
(* Deliveries, and the capture on the payer's return. *)

DeliveryArrives(h) ==
  /\ hook[h].stage = "idle"
  /\ IF row = "processed"
       THEN answer' = Acked /\ UNCHANGED hook
       ELSE /\ hook' = [hook EXCEPT ![h] = [Free EXCEPT !.stage = "lock",
                                                        !.seen = row]]
            /\ UNCHANGED answer
  /\ UNCHANGED <<row, lock, claimed, settled, mail>>

CaptureArrives(h) ==
  /\ hook[h].stage = "idle"
  /\ hook' = [hook EXCEPT ![h] = [Free EXCEPT !.stage = "process",
                                              !.kind = "capture"]]
  /\ UNCHANGED <<row, lock, claimed, settled, answer, mail>>

AcquireLock(h) ==
  /\ hook[h].stage = "lock"
  /\ \/ /\ Lease!Granted(h)
        /\ hook' = [hook EXCEPT ![h].stage = "record", ![h].holds = TRUE]
        /\ UNCHANGED answer
     \/ Lease!OutOfReach /\ Go(h, "record") /\ UNCHANGED answer
     \/ /\ Lease!Busy
        /\ Ends(h)
        /\ answer' = [Acked EXCEPT !.skipped = TRUE]
  /\ UNCHANGED <<row, claimed, settled, mail>>

\* The row is created unless it was there; a creation that loses the race
\* looks once more.
CreateWebhook(h) ==
  /\ hook[h].stage = "record"
  /\ row' = IF row = "none" THEN "open" ELSE row
  /\ IF hook[h].seen = "none" /\ row = "processed"
       THEN hook' = [hook EXCEPT ![h].stage = "release", ![h].ok = TRUE]
       ELSE Go(h, "process")
  /\ UNCHANGED <<lock, claimed, settled, answer, mail>>

\* Only a capture that settles itself goes on to the receipt.  An event that
\* names no payment of ours, or another amount, is done with.
ProcessEvent(h) ==
  /\ hook[h].stage = "process"
  /\ \/ /\ settled' = TRUE
        /\ IF hook[h].kind = "event" \/ ~settled THEN Go(h, "receipt")
                                                 ELSE Ends(h)
        /\ UNCHANGED answer
     \/ /\ hook[h].kind = "event"
        /\ Continues(h)
        /\ answer' = [answer EXCEPT !.refused = TRUE]
        /\ UNCHANGED settled
     \/ Throws(h) /\ answer' = Failed /\ UNCHANGED settled
  /\ UNCHANGED <<row, lock, claimed, mail>>

-----------------------------------------------------------------------------
(* The receipt. *)

\* Slip: whoever comes claims.
AlwaysClaimable == TRUE

\* markPaymentReceiptSent updates only a row whose receiptSentAt is null.
Claimable == ~claimed

ClaimReceipt(h) ==
  /\ hook[h].stage = "receipt"
  /\ IF Claimable
       THEN /\ mail.sends < MaxSends
            /\ mail' = [mail EXCEPT !.sends = @ + 1]
            /\ claimed' = TRUE
            /\ Go(h, "send")
       ELSE Continues(h) /\ UNCHANGED <<claimed, mail>>
  /\ UNCHANGED <<row, lock, settled, answer>>

ClaimFails(h) ==
  /\ hook[h].stage = "receipt"
  /\ Throws(h)
  /\ answer' = Failed
  /\ UNCHANGED <<row, lock, claimed, settled, mail>>

\* The mail service takes the receipt, or is not configured or refuses; a
\* send that times out may have been taken.  A customer without an address
\* gets none, and the claim stays.
SendReceipt(h) ==
  /\ hook[h].stage = "send"
  /\ \/ mail' = [mail EXCEPT !.sent = @ + 1] /\ Continues(h)
     \/ mail' = [mail EXCEPT !.stuck = TRUE] /\ Continues(h)
     \/ Go(h, "giveback") /\ UNCHANGED mail
     \/ /\ mail' = [mail EXCEPT !.sent = @ + 1, !.unclear = @ + 1]
        /\ Go(h, "giveback")
  /\ UNCHANGED <<row, lock, claimed, settled, answer>>

GivenBack == FALSE

GiveBack(h) ==
  /\ hook[h].stage = "giveback"
  /\ \/ /\ claimed' = GivenBack
        /\ Continues(h)
        /\ UNCHANGED <<answer, mail>>
     \/ /\ mail' = [mail EXCEPT !.stuck = TRUE]
        /\ answer' = Failed
        /\ Throws(h)
        /\ UNCHANGED claimed
  /\ UNCHANGED <<row, lock, settled>>

-----------------------------------------------------------------------------
(* The end of a delivery. *)

MarkProcessed(h) ==
  /\ hook[h].stage = "mark"
  /\ \/ /\ row' = "processed"
        /\ hook' = [hook EXCEPT ![h].stage = "release", ![h].ok = TRUE]
        /\ UNCHANGED answer
     \/ Go(h, "unmark") /\ answer' = Failed /\ UNCHANGED row
  /\ UNCHANGED <<lock, claimed, settled, mail>>

\* The event is reopened, even if another delivery has processed it since.
MarkFailed(h) ==
  /\ hook[h].stage = "unmark"
  /\ row' \in {row, "open"}
  /\ Go(h, "release")
  /\ UNCHANGED <<lock, claimed, settled, answer, mail>>

\* Slip: a failed delivery is acknowledged like any other.
AnsweredAlways(h) == TRUE

AnsweredWell(h) == hook[h].ok

ReleaseLock(h) ==
  /\ hook[h].stage = "release"
  /\ \/ hook[h].holds /\ Lease!Release(h)
     \/ Lease!OutOfReach
  /\ answer' = [answer EXCEPT !.acked = @ \/ AnsweredWell(h)]
  /\ Ends(h)
  /\ UNCHANGED <<row, claimed, settled, mail>>

ExpireLock ==
  /\ Lease!Expire
  /\ UNCHANGED <<row, claimed, hook, settled, answer, mail>>

\* A process that dies answers nothing.
Crash(h) ==
  /\ hook[h].stage # "idle"
  /\ mail' = [mail EXCEPT !.stuck = @ \/ hook[h].stage \in {"send", "giveback"}]
  /\ answer' = Failed
  /\ Ends(h)
  /\ UNCHANGED <<row, lock, claimed, settled>>

Next ==
  \/ \E h \in Handlers:
       \/ DeliveryArrives(h)
       \/ CaptureArrives(h)
       \/ AcquireLock(h)
       \/ CreateWebhook(h)
       \/ ProcessEvent(h)
       \/ ClaimReceipt(h)
       \/ ClaimFails(h)
       \/ SendReceipt(h)
       \/ GiveBack(h)
       \/ MarkProcessed(h)
       \/ MarkFailed(h)
       \/ ReleaseLock(h)
       \/ Crash(h)
  \/ ExpireLock

Spec == Init /\ [][Next]_vars

-----------------------------------------------------------------------------
(* Properties. *)

\* Every variable holds a value of its kind.
TypeOK ==
  /\ row \in {"none", "open", "processed"}
  /\ Lease!LockType
  /\ claimed \in BOOLEAN
  /\ hook \in [Handlers -> Hook]
  /\ settled \in BOOLEAN
  /\ answer \in Answers
  /\ mail \in Mails

\* A provider that was told "received" of an event that was neither settled
\* nor refused was told so by a delivery that left the event to another one,
\* and that one is still at work or has failed: an event is never acknowledged
\* and forgotten otherwise, although the lock may expire, be out of reach, or
\* outlive its holder.
AcknowledgedIsSettled ==
  answer.acked /\ ~settled /\ ~answer.refused =>
    /\ answer.skipped
    /\ answer.failed \/ \E h \in Handlers: hook[h].stage \in Working

\* However often the payment is reported, by events and by the return page at
\* the same time, the payer gets one receipt, and another one only for each
\* that was mailed although its sending was reported as failed.
ReceiptMailedOnce == mail.sent <= 1 + mail.unclear

\* A receipt that counts as sent was mailed or is being mailed; otherwise the
\* customer has no address or the process or the database failed in between.
ReceiptIsMailed ==
  claimed =>
    \/ mail.sent > 0
    \/ mail.stuck
    \/ \E h \in Handlers: hook[h].stage \in {"send", "giveback"}

-----------------------------------------------------------------------------
(* The inductive invariant. *)

\* The event has had its effect, or will not have one.
Dealt == settled \/ answer.refused

AtReceipt(h) == hook[h].stage \in {"send", "giveback"}

\* What a request has established by the stage it is at.
HookOK(q) ==
  /\ q.stage \in {"receipt", "send", "giveback", "mark"} => Dealt
  /\ q.ok => Dealt
  /\ q.stage = "unmark" => answer.failed
  /\ q.stage = "release" => q.ok \/ answer.failed

\* The event: it is marked only when it is dealt with, and whoever holds the
\* lock will deal with it or has failed.
EventOK ==
  /\ row = "processed" => Dealt
  /\ lock # Nothing /\ ~Dealt /\ ~answer.failed => hook[lock].stage \in Working
  /\ AcknowledgedIsSettled

\* The receipt: one request at a time has claimed it and may mail it.
ReceiptOK ==
  /\ \A g, h \in Handlers: AtReceipt(g) /\ AtReceipt(h) => g = h
  /\ (\E h \in Handlers: AtReceipt(h)) => claimed
  /\ mail.sent <= mail.unclear + (IF claimed THEN 1 ELSE 0)
  /\ (\E h \in Handlers: AtReceipt(h)) => mail.sent <= mail.unclear
  /\ ReceiptIsMailed

IInv ==
  /\ TypeOK
  /\ \A h \in Handlers: HookOK(hook[h])
  /\ EventOK
  /\ ReceiptOK

=============================================================================
