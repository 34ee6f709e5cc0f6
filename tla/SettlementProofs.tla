-------------------------- MODULE SettlementProofs --------------------------
(***************************************************************************)
(* Settlement keeps IInv, for every number of handlers, payments, sessions *)
(* and orders and every total.  One lemma per action shows that it         *)
(* preserves IInv; the lemmas before them say what an action that credits  *)
(* nothing leaves intact.  Under IInv it implements InvoiceLedger: a       *)
(* commit is a credit, a refund or a FAILED write of a COMPLETED row takes *)
(* one back, and no other step of any handler is seen in the ledger.       *)
(***************************************************************************)
EXTENDS SettlementLedger, SettlementInvariant, UnitSumsProofs, TLAPS

(***************************************************************************)
(* Sums over payment rows are amounts.                                     *)
(***************************************************************************)
LEMMA PaidNat ==
    ASSUME TypeOK
    PROVE  /\ \A t \in Txns : Amount[t] \in Nat
           /\ \A S \in SUBSET Txns : IsFiniteSet(S) /\ SumOf(Amount, S) \in Nat
           /\ Completed \in SUBSET Txns
<1>1. \A t \in Txns : Amount[t] \in Nat
  BY DEF TypeOK, Row, Amount
<1>2. ASSUME NEW S \in SUBSET Txns
      PROVE  IsFiniteSet(S) /\ SumOf(Amount, S) \in Nat
  BY <1>1, SumMono, TxnsAssumption
<1> QED
  BY <1>1, <1>2 DEF Completed

(***************************************************************************)
(* A step that credits nothing: it completes no row and changes no         *)
(* COMPLETED amount.                                                       *)
(***************************************************************************)
NoCredit ==
    /\ Completed' \subseteq Completed
    /\ \A t \in Completed' : pay'[t].amount = pay[t].amount

(***************************************************************************)
(* Whatever was summed before such a step is no larger after it.           *)
(***************************************************************************)
LEMMA NoCreditShrinks ==
    ASSUME TypeOK, NoCredit, NEW X
    PROVE  /\ SumOf(Amount', Completed' \ X) \in Nat
           /\ SumOf(Amount, Completed \ X) \in Nat
           /\ SumOf(Amount', Completed' \ X) <= SumOf(Amount, Completed \ X)
<1> DEFINE S == Completed \ X
           T == Completed' \ X
<1>1. IsFiniteSet(S) /\ \A s \in S : Amount[s] \in Nat
  BY PaidNat
<1>2. T \in SUBSET S
  BY DEF NoCredit
<1>3. \A t \in T : Amount'[t] = Amount[t]
  BY DEF NoCredit, Completed, Amount
<1> HIDE DEF S, T
<1>4. /\ SumOf(Amount', T) \in Nat
      /\ SumOf(Amount, S) \in Nat
      /\ SumOf(Amount', T) <= SumOf(Amount, S)
  BY <1>1, <1>2, <1>3, SumShrink
<1> QED
  BY <1>4 DEF S, T

(***************************************************************************)
(* Such a step causes no overpayment.                                      *)
(***************************************************************************)
LEMMA NoCreditFits ==
    ASSUME TypeOK, NoOverpayment, NoCredit
    PROVE  NoOverpayment'
<1>1. /\ SumOf(Amount', Completed' \ {}) \in Nat
      /\ SumOf(Amount, Completed \ {}) \in Nat
      /\ SumOf(Amount', Completed' \ {}) <= SumOf(Amount, Completed \ {})
  BY NoCreditShrinks
<1>2. Completed' \ {} = Completed' /\ Completed \ {} = Completed
  OBVIOUS
<1> QED
  BY <1>1, <1>2, TotalAssumption DEF NoOverpayment, Paid

(***************************************************************************)
(* What a step of one handler leaves true of the others: rows stay, and    *)
(* unless it holds the invoice row, or may take it, nothing is credited.   *)
(***************************************************************************)
RowsStay == \A t \in Txns : pay[t].status # "NONE" => pay'[t].status # "NONE"

OthersSafe(r) ==
    /\ \A q \in Requests \ {r} : req'[q] = req[q]
    /\ RowsStay
    /\ invLock \in {Nil, r} \/ (invLock' = invLock /\ NoCredit)

LEMMA OthersKeep ==
    ASSUME IInv, NEW r \in Requests, OthersSafe(r), NEW q \in Requests \ {r}
    PROVE  RequestOK(q)'
<1> DEFINE x == req[q]
<1>1. x = req'[q] /\ RequestOK(q)
  BY DEF OthersSafe, IInv
<1>2. \A t : Exists(t) => Exists(t)'
  BY DEF Exists, OthersSafe, RowsStay
<1>3. ASSUME x.step = "commit"
      PROVE  invLock' = q /\ LockedSumOK(x)'
  <2>1. invLock = q /\ LockedSumOK(x) /\ SettlingOK(x)
    BY <1>1, <1>3 DEF RequestOK
  <2>2. invLock' = invLock /\ NoCredit
    BY <2>1, NilAssumption DEF OthersSafe
  <2>3. /\ SumOf(Amount', Completed' \ {x.txn}) \in Nat
        /\ SumOf(Amount, Completed \ {x.txn}) \in Nat
        /\ SumOf(Amount', Completed' \ {x.txn}) <= SumOf(Amount, Completed \ {x.txn})
    BY <2>2, NoCreditShrinks DEF IInv
  <2>4. x.sum \in Nat
    BY DEF IInv, TypeOK, Request
  <2>5. SumOf(Amount', Completed' \ {x.txn}) <= x.sum
    BY <2>1, <2>3, <2>4 DEF LockedSumOK
  <2>6. x.op # "manual" => pay'[x.txn].status # "COMPLETED"
    BY <2>1, <2>2 DEF LockedSumOK, SettlingOK, NoCredit, Completed
  <2> QED
    BY <2>1, <2>2, <2>5, <2>6, <1>1 DEF LockedSumOK
<1> QED
  BY <1>1, <1>2, <1>3 DEF RequestOK, SettlingOK, LockedSumOK

(***************************************************************************)
(* A handler whose record alone changes leaves the rest of IInv as it is.  *)
(***************************************************************************)
SessionStates == {"none", "created", "offered", "paid"}
OrderStates == {"approved", "held", "captured", "refunded"}

LEMMA ReadingStep ==
    ASSUME IInv, NEW r \in Requests, NEW x \in Request,
           req' = [req EXCEPT ![r] = x],
           UNCHANGED <<invoice, records>>,
           processed' \subseteq Events,
           invLock' = invLock \/ (invLock \in {Nil, r} /\ invLock' \in {Nil, r}),
           session' \in [Sessions -> SessionStates],
           order' \in [Orders -> OrderStates],
           \A s \in Sessions : session'[s] \in {"offered", "paid"} => Exists(s),
           req'[r] = x => RequestOK(r)'
    PROVE  IInv'
<1>1. req'[r] = x /\ \A q \in Requests \ {r} : req'[q] = req[q]
  BY DEF IInv, TypeOK
<1>2. UNCHANGED <<status, amountPaid, pay, entries>>
  BY DEF invoice, records
<1>3. TypeOK'
  <2>1. req' \in [Requests -> Request]
    BY DEF IInv, TypeOK
  <2>2. invLock' \in Requests \cup {Nil}
    BY DEF IInv, TypeOK
  <2> QED
    BY <1>2, <2>1, <2>2 DEF IInv, TypeOK, SessionStates, OrderStates
<1>4. Amount' = Amount /\ Completed' = Completed
  BY <1>2 DEF Amount, Completed
<1>5. NoOverpayment' /\ StatusMatchesAmount'
  BY <1>2, <1>4 DEF IInv, NoOverpayment, StatusMatchesAmount, Paid
<1>6. \A t : Exists(t)' = Exists(t)
  BY <1>2 DEF Exists
<1>7. RowsOK' /\ EntriesOK'
  BY <1>2, <1>6 DEF IInv, RowsOK, EntriesOK, OneEntryPerCapture
<1>8. OthersSafe(r)
  BY <1>1, <1>2, <1>4 DEF OthersSafe, RowsStay, NoCredit
<1>9. \A q \in Requests : RequestOK(q)'
  BY <1>1, <1>8, OthersKeep
<1> QED
  BY <1>3, <1>5, <1>7, <1>9 DEF IInv

(***************************************************************************)
(* What a handler that is idle again has to answer for: nothing.           *)
(***************************************************************************)
LEMMA IdleOK ==
    /\ Idle \in Request
    /\ \A r \in Requests : req'[r] = Idle => RequestOK(r)'
BY DEF Idle, Request, Ops, Steps, InvoiceStatuses, RequestOK

(***************************************************************************)
(* The same for a handler that neither marks an event nor calls a provider.*)
(***************************************************************************)
LEMMA RecordStep ==
    ASSUME IInv, NEW r \in Requests, NEW x \in Request,
           req' = [req EXCEPT ![r] = x],
           UNCHANGED <<invoice, records, processed, provider>>,
           invLock' = invLock \/ (invLock \in {Nil, r} /\ invLock' \in {Nil, r}),
           req'[r] = x => RequestOK(r)'
    PROVE  IInv'
<1>1. /\ processed' \subseteq Events
      /\ session' \in [Sessions -> SessionStates]
      /\ order' \in [Orders -> OrderStates]
      /\ \A s \in Sessions : session'[s] \in {"offered", "paid"} => Exists(s)
  BY DEF IInv, TypeOK, RowsOK, provider, SessionStates, OrderStates
<1> QED
  BY <1>1, ReadingStep

(***************************************************************************)
(* A transaction that ends, or a handler that answers, forgets what it     *)
(* read; it keeps its event and the sessions it has not looked up.         *)
(***************************************************************************)
LEMMA AfterOK ==
    ASSUME IInv, RowsStay, NEW r \in Requests,
           \/ AfterSuccess(r) \/ AfterError(r) \/ Finish(r)
           \/ (Back(r, "mark") \/ Back(r, "unmark")) /\ req[r].op = "hook"
    PROVE  \E x \in Request :
              req' = [req EXCEPT ![r] = x] /\ (req'[r] = x => RequestOK(r)')
<1> DEFINE B(step) == [Idle EXCEPT !.op = req[r].op, !.step = step,
                                   !.event = req[r].event, !.rest = req[r].rest]
<1>1. /\ req[r] \in Request
      /\ \A s \in req[r].rest : Exists(s)'
      /\ req[r].op = "hook" => req[r].event \in Events
  BY DEF IInv, TypeOK, RequestOK, Exists, RowsStay
<1>2. ASSUME NEW step \in {"mark", "unmark", "confirm"},
             req[r].op = IF step = "confirm" THEN "confirm" ELSE "hook"
      PROVE  B(step) \in Request /\ (req'[r] = B(step) => RequestOK(r)')
  BY <1>1, <1>2 DEF Idle, Request, Ops, Steps, InvoiceStatuses, RequestOK
<1>3. \/ (Back(r, "mark") \/ Back(r, "unmark")) /\ req[r].op = "hook"
      \/ Back(r, "confirm") /\ req[r].op = "confirm"
      \/ Finish(r)
  BY DEF AfterSuccess, AfterError
<1> QED
  BY <1>2, <1>3, IdleOK DEF Back, Finish

(***************************************************************************)
(* A handler that ends, or answers, and changes nothing else.              *)
(***************************************************************************)
LEMMA AfterStep ==
    ASSUME IInv, NEW r \in Requests,
           \/ AfterSuccess(r) \/ AfterError(r) \/ Finish(r)
           \/ (Back(r, "mark") \/ Back(r, "unmark")) /\ req[r].op = "hook",
           UNCHANGED <<invoice, records, processed, provider>>,
           invLock' = invLock \/ (invLock \in {Nil, r} /\ invLock' \in {Nil, r})
    PROVE  IInv'
<1>1. RowsStay
  BY DEF RowsStay, records
<1> QED
  BY <1>1, AfterOK, RecordStep

(***************************************************************************)
(* RecordManualPayment: an id, and an amount that is not zero.             *)
(***************************************************************************)
LEMMA RecordManualPaymentStep ==
    ASSUME IInv, NEW r \in Requests, RecordManualPayment(r)
    PROVE  IInv'
<1>1. PICK t \in Manuals, a \in 1 .. Total + 1 :
         /\ req' = [req EXCEPT ![r] = [Idle EXCEPT !.op = "manual", !.step = "settle",
                                        !.txn = t, !.ref = t, !.amt = a]]
         /\ UNCHANGED <<invoice, records, processed, invLock, provider>>
  BY DEF RecordManualPayment, Start
<1> DEFINE x == [Idle EXCEPT !.op = "manual", !.step = "settle",
                             !.txn = t, !.ref = t, !.amt = a]
<1>2. a \in Nat \ {0} /\ t \in Txns
  BY TotalAssumption DEF Txns
<1>3. x \in Request
  BY <1>2 DEF Idle, Request, Ops, Steps, InvoiceStatuses
<1>4. req'[r] = x => RequestOK(r)'
  BY <1>2 DEF Idle, RequestOK, SettlingOK
<1> QED
  BY <1>1, <1>3, <1>4, RecordStep

(***************************************************************************)
(* BeginSettlement: the sum is taken with the row lock, so it is exact.    *)
(***************************************************************************)
LEMMA BeginSettlementStep ==
    ASSUME IInv, NEW r \in Requests, BeginSettlement(r)
    PROVE  IInv'
<1>1. /\ req[r] \in Request /\ req[r].step = "settle"
      /\ RequestOK(r) /\ SettlingOK(req[r])
      /\ invLock = Nil
      /\ UNCHANGED <<invoice, records, processed, provider>>
  BY DEF IInv, TypeOK, RequestOK, BeginSettlement, InvoiceRowFree
<1>2. CASE (AfterSuccess(r) \/ AfterError(r)) /\ UNCHANGED invLock
  BY <1>1, <1>2, AfterStep
<1>3. CASE /\ ~AlreadyCompleted(r)
           /\ Fits(r)
           /\ req' = [req EXCEPT ![r].step = "commit", ![r].sum = SumOf(Amount, Others(r))]
           /\ invLock' = r
  <2> DEFINE sum == SumOf(Amount, Others(r))
             rest == SumOf(Amount, Completed \ {req[r].txn})
             x == [req[r] EXCEPT !.step = "commit", !.sum = sum]
  <2>1. /\ \A t \in Txns : Amount[t] \in Nat
        /\ IsFiniteSet(Completed) /\ Completed \in SUBSET Txns
        /\ Others(r) \in SUBSET Completed
        /\ Completed \ {req[r].txn} \in SUBSET Others(r)
        /\ IsFiniteSet(Others(r))
    BY PaidNat, FS_Subset DEF IInv, Others
  <2>2. sum \in Nat /\ rest \in Nat /\ rest <= sum
    BY <2>1, SumMono, SumNat
  <2>3. sum + req[r].amt <= Total
    BY <1>3 DEF Fits
  <2>4. x \in Request
    BY <1>1, <2>2 DEF Request, Steps
  <2>5. pay' = pay /\ Amount' = Amount /\ Completed' = Completed
    BY <1>1 DEF records, Amount, Completed
  <2>6. req[r].op # "manual" => pay[req[r].txn].status # "COMPLETED"
    BY <1>3 DEF AlreadyCompleted, IsManual
  <2> HIDE DEF sum, rest
  <2>7. x.step = "commit" /\ x.sum = sum /\ x.txn = req[r].txn /\ x.amt = req[r].amt
        /\ x.op = req[r].op /\ x.rest = req[r].rest /\ x.ref = req[r].ref
        /\ x.event = req[r].event
    BY <1>1 DEF Request
  <2>8. req' = [req EXCEPT ![r] = x]
    BY <1>3 DEF sum
  <2> HIDE DEF x
  <2>9. ASSUME req'[r] = x
        PROVE  RequestOK(r)'
    <3>1. SumOf(Amount', Completed' \ {req'[r].txn}) = rest
      BY <2>5, <2>7, <2>9 DEF rest
    <3>2. LockedSumOK(req[r])'
      BY <2>2, <2>3, <2>5, <2>6, <2>7, <2>9, <3>1 DEF LockedSumOK
    <3> QED
      BY <1>1, <1>3, <2>5, <2>7, <2>9, <3>2 DEF RequestOK, SettlingOK, Exists
  <2> QED
    BY <1>1, <1>3, <2>4, <2>8, <2>9, RecordStep
<1> QED
  BY <1>2, <1>3 DEF BeginSettlement

(***************************************************************************)
(* CommitSettlement: one credit, of an amount that still fits.             *)
(***************************************************************************)
CommitFacts(r) ==
    /\ req[r] \in Request /\ SettlingOK(req[r]) /\ LockedSumOK(req[r])
    /\ invLock = r
    /\ IsManual(r) => pay[req[r].txn].status = "NONE"
    /\ pay[req[r].txn].status # "COMPLETED"

LEMMA CommitReads ==
    ASSUME IInv, NEW r \in Requests, CommitSettlement(r)
    PROVE  CommitFacts(r)
<1>1. RequestOK(r) /\ req[r].step = "commit" /\ req[r] \in Request /\ ~IdTaken(r)
  BY DEF IInv, TypeOK, CommitSettlement
<1> QED
  BY <1>1 DEF RequestOK, CommitFacts, IdTaken, IsManual, LockedSumOK

LEMMA CommitRows ==
    ASSUME IInv, NEW r \in Requests, CommitSettlement(r)
    PROVE  /\ pay' \in [Txns -> Row]
           /\ RowsStay
           /\ Completed' = Completed \cup {req[r].txn}
           /\ \A u \in Txns : pay'[u].amount = IF u = req[r].txn THEN req[r].amt
                                                                ELSE pay[u].amount
           /\ pay'[req[r].txn].status = "COMPLETED"
           /\ \A u \in Txns \ {req[r].txn} :
                 pay'[u].status # "NONE" => pay[u].status # "NONE"
<1>1. CommitFacts(r) /\ pay \in [Txns -> Row]
  BY CommitReads DEF IInv, TypeOK
<1>2. SettledRow(r) \in Row
  <2>1. Rows \subseteq Txns
    BY DEF Rows
  <2>2. Cardinality(Rows) \in Nat
    BY <2>1, TxnsAssumption, FS_Subset, FS_CardinalityType
  <2> QED
    BY <1>1, <2>2 DEF SettledRow, Row, RowStatuses, CommitFacts, Request, SettlingOK
<1>3. pay' = [t \in Txns |->
                 IF t = req[r].txn THEN SettledRow(r)
                 ELSE IF ~IsManual(r) /\ t \in Pending
                      THEN [pay[t] EXCEPT !.status = "CANCELLED"] ELSE pay[t]]
  BY DEF CommitSettlement
<1>4. pay' \in [Txns -> Row]
  BY <1>1, <1>2, <1>3 DEF Row, RowStatuses
<1>5. req[r].txn \in Txns /\ SettledRow(r).status = "COMPLETED"
      /\ SettledRow(r).amount = req[r].amt
  BY <1>1 DEF CommitFacts, SettlingOK, SettledRow
<1>6. ASSUME NEW u \in Txns \ {req[r].txn}
      PROVE  /\ pay'[u].amount = pay[u].amount
             /\ pay'[u].status = "COMPLETED" <=> pay[u].status = "COMPLETED"
             /\ pay[u].status # "NONE" <=> pay'[u].status # "NONE"
  <2>1. CASE pay'[u] = pay[u]
    BY <2>1
  <2>2. CASE u \in Pending /\ pay'[u] = [pay[u] EXCEPT !.status = "CANCELLED"]
    BY <2>2, <1>1 DEF Pending, Row
  <2> QED
    BY <1>3, <2>1, <2>2
<1> HIDE <1>3
<1>7. pay'[req[r].txn] = SettledRow(r)
  BY <1>3, <1>5
<1>8. Completed' = Completed \cup {req[r].txn}
  BY <1>5, <1>6, <1>7 DEF Completed
<1>9. RowsStay
  BY <1>5, <1>6, <1>7 DEF RowsStay
<1> QED
  BY <1>4, <1>5, <1>6, <1>7, <1>8, <1>9

LEMMA CommitFits ==
    ASSUME IInv, NEW r \in Requests, CommitSettlement(r)
    PROVE  NoOverpayment'
<1> DEFINE t == req[r].txn
           S == Completed \ {t}
<1>1. CommitFacts(r)
  BY CommitReads
<1>2. /\ t \in Txns /\ req[r].amt \in Nat /\ req[r].sum \in Nat
      /\ SumOf(Amount, S) <= req[r].sum
      /\ req[r].sum + req[r].amt <= Total
      /\ t \notin Completed
  BY <1>1 DEF CommitFacts, SettlingOK, LockedSumOK, Request, Completed
<1>3. IsFiniteSet(S) /\ S \in SUBSET Txns /\ SumOf(Amount, S) \in Nat
  BY PaidNat DEF IInv
<1>4. \A u \in S : Amount'[u] = Amount[u] /\ Amount'[u] \in Nat
  BY <1>3, CommitRows, PaidNat DEF IInv, Amount
<1>5. Amount'[t] = req[r].amt /\ Completed' = S \cup {t} /\ t \notin S
  BY <1>2, CommitRows DEF Amount
<1> HIDE DEF t, S
<1>6. SumOf(Amount', S) = SumOf(Amount, S)
  BY <1>4, SumSame
<1>7. SumOf(Amount', S \cup {t}) = SumOf(Amount', S) + Amount'[t]
  <2>1. \A u \in S \cup {t} : Amount'[u] \in Nat
    BY <1>2, <1>4, <1>5
  <2> HIDE DEF t
  <2> QED
    BY <2>1, <1>3, <1>5, SumAdd
<1> QED
  BY <1>2, <1>3, <1>5, <1>6, <1>7, TotalAssumption DEF NoOverpayment, Paid

LEMMA CommitSettlementStep ==
    ASSUME IInv, NEW r \in Requests, CommitSettlement(r)
    PROVE  IInv'
<1>1. CommitFacts(r)
  BY CommitReads
<1>2. /\ pay' \in [Txns -> Row]
      /\ RowsStay
      /\ \A u \in Txns : pay'[u].amount = IF u = req[r].txn THEN req[r].amt
                                                           ELSE pay[u].amount
      /\ pay'[req[r].txn].status = "COMPLETED"
      /\ \A u \in Txns \ {req[r].txn} :
            pay'[u].status # "NONE" => pay[u].status # "NONE"
  BY CommitRows
<1>3. PICK x \in Request :
         req' = [req EXCEPT ![r] = x] /\ (req'[r] = x => RequestOK(r)')
  BY <1>2, AfterOK DEF CommitSettlement
<1>4. req' \in [Requests -> Request] /\ req'[r] = x
      /\ \A q \in Requests \ {r} : req'[q] = req[q]
  BY <1>3 DEF IInv, TypeOK
<1>5. /\ req[r].amt \in Nat \ {0} /\ req[r].sum \in Nat
      /\ req[r].sum + req[r].amt <= Total
      /\ amountPaid' = req[r].sum + req[r].amt
      /\ status' = SettledStatus(req[r].sum + req[r].amt, Total)
  BY <1>1 DEF CommitFacts, SettlingOK, LockedSumOK, Request, CommitSettlement, NextPaid
<1>6. StatusMatchesAmount' /\ status' \in InvoiceStatuses /\ amountPaid' \in Nat
  BY <1>5, TotalAssumption DEF StatusMatchesAmount, SettledStatus, InvoiceStatuses
<1>7. /\ entries' \subseteq [id: Nat, ref: Txns, payment: Txns]
      /\ IsFiniteSet(entries')
      /\ EntriesOK'
  <2>1. CASE Logged(r)
    <3>1. entries' = entries
      BY <2>1 DEF CommitSettlement
    <3> QED
      BY <3>1, <1>2 DEF IInv, TypeOK, EntriesOK, OneEntryPerCapture, Exists, RowsStay
  <2>2. CASE ~Logged(r)
    <3> DEFINE n == NewEntry(r)
    <3>1. entries' = entries \cup {n} /\ n.ref = req[r].ref
      BY <2>2 DEF CommitSettlement, NewEntry
    <3>2. n \in [id: Nat, ref: Txns, payment: Txns]
      BY <1>1, FS_CardinalityType DEF IInv, TypeOK, NewEntry, CommitFacts, SettlingOK
    <3>3. \A e \in entries : e.ref # n.ref
      BY <1>1, <2>2, <3>1
         DEF Logged, CommitFacts, SettlingOK, IsManual, IInv, EntriesOK, Exists
    <3>4. n.ref \in Manuals => n.ref \in Txns /\ pay'[n.ref].status # "NONE"
      BY <1>1, <1>2, <3>1 DEF CommitFacts, SettlingOK, Txns
    <3> HIDE DEF n
    <3> QED
      BY <1>2, <3>1, <3>2, <3>3, <3>4, FS_AddElement
         DEF IInv, TypeOK, EntriesOK, OneEntryPerCapture, Exists, RowsStay
  <2> QED
    BY <2>1, <2>2
<1>8. UNCHANGED <<processed, session, order>> /\ invLock' = Nil
  BY DEF CommitSettlement, ReleaseRow, provider
<1>9. TypeOK'
  BY <1>2, <1>4, <1>6, <1>7, <1>8 DEF IInv, TypeOK
<1>10. RowsOK'
  BY <1>2, <1>5, <1>8 DEF IInv, RowsOK, Exists, RowsStay, TypeOK, Row
<1>11. OthersSafe(r)
  BY <1>1, <1>2, <1>4 DEF OthersSafe, CommitFacts
<1>12. \A q \in Requests : RequestOK(q)'
  BY <1>3, <1>4, <1>11, OthersKeep
<1> QED
  BY <1>6, <1>7, <1>9, <1>10, <1>12, CommitFits DEF IInv

(***************************************************************************)
(* AbortSettlement: nothing but the lock and the handler changes.          *)
(***************************************************************************)
LEMMA AbortSettlementStep ==
    ASSUME IInv, NEW r \in Requests, AbortSettlement(r)
    PROVE  IInv'
<1>1. RequestOK(r) /\ req[r].step = "commit"
  BY DEF IInv, AbortSettlement
<1>2. invLock = r
  BY <1>1 DEF RequestOK
<1> QED
  BY <1>2, AfterStep DEF AbortSettlement, ReleaseRow

(***************************************************************************)
(* A step that writes rows or the invoice and credits nothing.             *)
(***************************************************************************)
LEMMA WritingStep ==
    ASSUME IInv, NEW r \in Requests, NEW x \in Request,
           req' = [req EXCEPT ![r] = x],
           UNCHANGED <<entries, processed, invLock, order>>,
           pay' \in [Txns -> Row], RowsStay, NoCredit,
           \A u \in Txns : pay'[u].status # "NONE" => pay'[u].amount > 0,
           session' \in [Sessions -> SessionStates],
           \A s \in Sessions : session'[s] \in {"offered", "paid"} => pay'[s].status # "NONE",
           status' \in InvoiceStatuses, amountPaid' \in Nat, StatusMatchesAmount',
           req'[r] = x => RequestOK(r)'
    PROVE  IInv'
<1>1. /\ req'[r] = x /\ req' \in [Requests -> Request]
      /\ \A q \in Requests \ {r} : req'[q] = req[q]
  BY DEF IInv, TypeOK
<1>2. TypeOK'
  BY <1>1 DEF IInv, TypeOK, SessionStates
<1>3. NoOverpayment'
  BY NoCreditFits DEF IInv
<1>4. \A t : Exists(t) => Exists(t)'
  BY DEF Exists, RowsStay
<1>5. RowsOK'
  BY <1>4 DEF IInv, RowsOK, Exists, Txns
<1>6. EntriesOK'
  BY <1>4 DEF IInv, EntriesOK, OneEntryPerCapture
<1>7. OthersSafe(r)
  BY <1>1 DEF OthersSafe
<1>8. \A q \in Requests : RequestOK(q)'
  BY <1>1, <1>7, OthersKeep
<1> QED
  BY <1>2, <1>3, <1>5, <1>6, <1>8 DEF IInv

(***************************************************************************)
(* CreateCheckout: what is open is not zero.                               *)
(***************************************************************************)
LEMMA CreateCheckoutStep ==
    ASSUME IInv, NEW r \in Requests, CreateCheckout(r)
    PROVE  IInv'
<1>1. PICK s \in Sessions :
         /\ Paid < Total
         /\ req' = [req EXCEPT ![r] = [Idle EXCEPT !.op = "checkout", !.step = "supersede",
                                                   !.txn = s, !.amt = Total - Paid]]
         /\ session' = [session EXCEPT ![s] = "created"]
         /\ UNCHANGED <<invoice, records, processed, invLock, order>>
  BY DEF CreateCheckout, Start
<1> DEFINE x == [Idle EXCEPT !.op = "checkout", !.step = "supersede",
                             !.txn = s, !.amt = Total - Paid]
<1>2. Paid \in Nat
  BY PaidNat DEF IInv, Paid
<1>3. Total - Paid \in Nat \ {0} /\ s \in Txns
  BY <1>1, <1>2, TotalAssumption DEF Txns
<1>4. x \in Request
  BY <1>3 DEF Idle, Request, Ops, Steps, InvoiceStatuses
<1>5. req'[r] = x => RequestOK(r)'
  BY <1>3 DEF Idle, RequestOK
<1>6. /\ session' \in [Sessions -> SessionStates]
      /\ order' \in [Orders -> OrderStates]
      /\ \A u \in Sessions : session'[u] \in {"offered", "paid"} => Exists(u)
      /\ processed' \subseteq Events
  BY <1>1 DEF IInv, TypeOK, RowsOK, SessionStates, OrderStates
<1> QED
  BY <1>1, <1>4, <1>5, <1>6, ReadingStep

(***************************************************************************)
(* SupersedePending: PENDING sessions are given up.                        *)
(***************************************************************************)
LEMMA SupersedePendingStep ==
    ASSUME IInv, NEW r \in Requests, SupersedePending(r)
    PROVE  IInv'
<1> DEFINE x == [req[r] EXCEPT !.step = "open"]
<1>1. req[r] \in Request /\ RequestOK(r) /\ req[r].step = "supersede"
      /\ pay \in [Txns -> Row] /\ RowsOK
  BY DEF IInv, TypeOK, SupersedePending
<1>2. ASSUME NEW u \in Txns
      PROVE  /\ pay'[u] \in Row /\ pay'[u].amount = pay[u].amount
             /\ pay'[u].status = "NONE" <=> pay[u].status = "NONE"
             /\ pay'[u].status = "COMPLETED" <=> pay[u].status = "COMPLETED"
  <2>1. CASE pay'[u] = pay[u]
    BY <1>1, <2>1
  <2>2. CASE u \in Pending /\ pay'[u] = [pay[u] EXCEPT !.status = "CANCELLED"]
    BY <1>1, <2>2 DEF Pending, Row, RowStatuses
  <2> QED
    BY <2>1, <2>2 DEF SupersedePending
<1>3. pay' \in [Txns -> Row]
  BY <1>2 DEF SupersedePending
<1>4. RowsStay /\ NoCredit
  BY <1>2 DEF RowsStay, NoCredit, Completed
<1>5. \A u \in Txns : pay'[u].status # "NONE" => pay'[u].amount > 0
  BY <1>1, <1>2 DEF RowsOK, Exists
<1>6. UNCHANGED <<status, amountPaid, entries, processed, invLock, session, order>>
  BY DEF SupersedePending, invoice, provider
<1>7. x \in Request
  BY <1>1 DEF Request, Steps
<1>8. req'[r] = x => RequestOK(r)'
  BY <1>1, <1>4 DEF RequestOK, Request, Exists, RowsStay
<1>9. /\ session' \in [Sessions -> SessionStates]
      /\ \A s \in Sessions : session'[s] \in {"offered", "paid"} => pay'[s].status # "NONE"
      /\ status' \in InvoiceStatuses /\ amountPaid' \in Nat /\ StatusMatchesAmount'
  BY <1>2, <1>6 DEF IInv, TypeOK, RowsOK, Exists, SessionStates, StatusMatchesAmount
<1>10. req' = [req EXCEPT ![r] = x]
  BY DEF SupersedePending, Goto
<1> QED
  BY <1>3, <1>4, <1>5, <1>6, <1>7, <1>8, <1>9, <1>10, WritingStep

(***************************************************************************)
(* OpenPayment: the row of a new session holds what it charges.            *)
(***************************************************************************)
LEMMA OpenPaymentStep ==
    ASSUME IInv, NEW r \in Requests, OpenPayment(r)
    PROVE  IInv'
<1> DEFINE s == req[r].txn
<1>1. /\ s \in Sessions /\ s \in Txns /\ req[r].amt \in Nat \ {0}
      /\ pay \in [Txns -> Row] /\ session \in [Sessions -> SessionStates] /\ RowsOK
  BY DEF IInv, TypeOK, OpenPayment, RequestOK, Request, Txns, SessionStates
<1>2. Cardinality(Rows) + 1 \in Nat
  <2>1. Rows \subseteq Txns
    BY DEF Rows
  <2> QED
    BY <2>1, TxnsAssumption, FS_Subset, FS_CardinalityType
<1>3. /\ pay' = [pay EXCEPT ![s] =
                    IF pay[s].status # "NONE" THEN pay[s]
                    ELSE [status |-> "PENDING", amount |-> req[r].amt,
                          born |-> Cardinality(Rows) + 1]]
      /\ session' = [session EXCEPT ![s] = "offered"]
      /\ Finish(r)
      /\ UNCHANGED <<status, amountPaid, entries, processed, invLock, order>>
  BY DEF OpenPayment, invoice
<1> HIDE DEF s
<1>4. \A u \in Txns \ {s} : pay'[u] = pay[u]
  BY <1>1, <1>3
<1>5. /\ pay'[s] \in Row /\ pay'[s].status # "NONE" /\ pay'[s].amount > 0
      /\ pay'[s].status = "COMPLETED" => pay'[s] = pay[s]
  <2>1. CASE pay[s].status # "NONE"
    BY <1>1, <1>3, <2>1 DEF RowsOK, Exists
  <2>2. CASE pay[s].status = "NONE"
    BY <1>1, <1>2, <1>3, <2>2 DEF Row, RowStatuses
  <2> QED
    BY <2>1, <2>2
<1>6. pay' \in [Txns -> Row] /\ RowsStay /\ NoCredit
  BY <1>1, <1>3, <1>4, <1>5 DEF RowsStay, NoCredit, Completed
<1>7. \A u \in Txns : pay'[u].status # "NONE" => pay'[u].amount > 0
  BY <1>1, <1>4, <1>5 DEF RowsOK, Exists
<1>8. session' \in [Sessions -> SessionStates]
  BY <1>1, <1>3 DEF SessionStates
<1>9. \A u \in Sessions : session'[u] \in {"offered", "paid"} => pay'[u].status # "NONE"
  BY <1>1, <1>3, <1>4, <1>5 DEF RowsOK, Exists
<1>10. status' \in InvoiceStatuses /\ amountPaid' \in Nat /\ StatusMatchesAmount'
  BY <1>3 DEF IInv, TypeOK, StatusMatchesAmount
<1>11. PICK x \in Request :
          req' = [req EXCEPT ![r] = x] /\ (req'[r] = x => RequestOK(r)')
  BY <1>3, <1>6, AfterOK
<1> QED
  BY <1>3, <1>6, <1>7, <1>8, <1>9, <1>10, <1>11, WritingStep

(***************************************************************************)
(* The return page and the webhooks: what a handler picks up has a row.    *)
(***************************************************************************)
LEMMA ConfirmCheckoutStep ==
    ASSUME IInv, NEW r \in Requests, ConfirmCheckout(r)
    PROVE  IInv'
<1> DEFINE x == [Idle EXCEPT !.op = "confirm", !.step = "confirm",
                             !.rest = Pending \cap Sessions]
<1>1. /\ req' = [req EXCEPT ![r] = x]
      /\ UNCHANGED <<invoice, records, processed, invLock, provider>>
  BY DEF ConfirmCheckout, Start
<1>2. x \in Request
  BY DEF Idle, Request, Ops, Steps, InvoiceStatuses
<1>3. \A s \in Pending \cap Sessions : s \in Txns /\ pay'[s].status # "NONE"
  BY <1>1 DEF Pending, records
<1>4. x.op = "confirm" /\ x.step = "confirm" /\ x.rest = Pending \cap Sessions
  BY DEF Idle
<1> HIDE DEF x
<1>5. req'[r] = x => RequestOK(r)'
  BY <1>3, <1>4 DEF RequestOK, Exists
<1> QED
  BY <1>1, <1>2, <1>5, RecordStep

LEMMA SessionTxns == \A s \in Sessions : s \in Txns /\ s \notin Manuals
BY TxnsAssumption DEF Txns

LEMMA OrderTxns == \A o \in Orders : o \in Txns /\ o \notin Manuals
BY TxnsAssumption DEF Txns

LEMMA ConfirmNextStep ==
    ASSUME IInv, NEW r \in Requests, ConfirmNext(r)
    PROVE  IInv'
<1>1. /\ req[r] \in Request /\ RequestOK(r) /\ req[r].step = "confirm"
      /\ UNCHANGED <<invoice, records, processed, invLock, provider>>
  BY DEF IInv, TypeOK, ConfirmNext
<1>2. CASE Finish(r)
  BY <1>1, <1>2, AfterStep
<1>3. ASSUME NEW s \in Newest(req[r].rest),
             req' = [req EXCEPT ![r].step = "settle", ![r].txn = s, ![r].ref = s,
                                ![r].amt = pay[s].amount, ![r].rest = @ \ {s}]
      PROVE  IInv'
  <2> DEFINE x == [req[r] EXCEPT !.step = "settle", !.txn = s, !.ref = s,
                                 !.amt = pay[s].amount, !.rest = @ \ {s}]
  <2>1. s \in req[r].rest /\ s \in Sessions /\ s \in Txns /\ s \notin Manuals
    BY <1>1, SessionTxns DEF Newest, Request
  <2>2. pay[s].amount \in Nat \ {0}
    BY <1>1, <2>1 DEF RequestOK, IInv, RowsOK, TypeOK, Row
  <2>3. x \in Request
    BY <1>1, <2>1, <2>2 DEF Request, Steps
  <2>4. req'[r] = x => RequestOK(r)'
    BY <1>1, <2>1, <2>2 DEF RequestOK, SettlingOK, Request, Exists, records
  <2>5. req' = [req EXCEPT ![r] = x]
    BY <1>3
  <2> HIDE DEF x
  <2> QED
    BY <1>1, <2>3, <2>4, <2>5, RecordStep
<1>4. ASSUME NEW s \in Newest(req[r].rest),
             req' = [req EXCEPT ![r].rest = @ \ {s}]
      PROVE  IInv'
  <2> DEFINE x == [req[r] EXCEPT !.rest = @ \ {s}]
  <2>1. x \in Request
    BY <1>1 DEF Request
  <2>2. req'[r] = x => RequestOK(r)'
    BY <1>1 DEF RequestOK, Request, Exists, records
  <2> QED
    BY <1>1, <1>4, <2>1, <2>2, RecordStep
<1> QED
  BY <1>2, <1>3, <1>4 DEF ConfirmNext

(***************************************************************************)
(* CaptureOrder: an order has had a row from the start.                    *)
(***************************************************************************)
LEMMA CaptureOrderStep ==
    ASSUME IInv, NEW r \in Requests, CaptureOrder(r)
    PROVE  IInv'
<1> DEFINE settle(o) == [Idle EXCEPT !.op = "capture", !.step = "settle", !.txn = o,
                                     !.ref = o, !.amt = pay[o].amount]
           fail(o) == [Idle EXCEPT !.op = "capture", !.step = "fail", !.txn = o]
<1>1. PICK o \in Orders :
         /\ \/ order' = [order EXCEPT ![o] = IF @ = "refunded" THEN @ ELSE "captured"]
               /\ req' = [req EXCEPT ![r] = settle(o)]
            \/ order' = [order EXCEPT ![o] = "held"]
               /\ req' = [req EXCEPT ![r] = fail(o)]
         /\ UNCHANGED <<invoice, records, processed, invLock, session>>
  BY DEF CaptureOrder, Start
<1>2. o \in Txns /\ o \notin Manuals /\ Exists(o) /\ pay[o].amount \in Nat \ {0}
  BY OrderTxns DEF IInv, RowsOK, TypeOK, Row
<1>3. /\ session' \in [Sessions -> SessionStates]
      /\ order' \in [Orders -> OrderStates]
      /\ \A s \in Sessions : session'[s] \in {"offered", "paid"} => Exists(s)
      /\ processed' \subseteq Events
      /\ pay' = pay
  BY <1>1 DEF IInv, TypeOK, RowsOK, SessionStates, OrderStates, records
<1>4. settle(o) \in Request /\ fail(o) \in Request
  BY <1>2 DEF Idle, Request, Ops, Steps, InvoiceStatuses
<1>5. req'[r] = settle(o) => RequestOK(r)'
  BY <1>2 DEF Idle, RequestOK, SettlingOK
<1>6. req'[r] = fail(o) => RequestOK(r)'
  BY <1>2, <1>3 DEF Idle, RequestOK, Exists
<1> HIDE DEF settle, fail
<1>7. CASE req' = [req EXCEPT ![r] = settle(o)]
  BY <1>1, <1>3, <1>4, <1>5, <1>7, ReadingStep
<1>8. CASE req' = [req EXCEPT ![r] = fail(o)]
  BY <1>1, <1>3, <1>4, <1>6, <1>8, ReadingStep
<1> QED
  BY <1>1, <1>7, <1>8

(***************************************************************************)
(* CustomerPays and PayPalMoves: the providers move, the database does not.*)
(***************************************************************************)
LEMMA ProviderStep ==
    ASSUME IInv,
           \/ \E s \in Sessions : CustomerPays(s)
           \/ \E o \in Orders : PayPalMoves(o)
    PROVE  IInv'
<1>1. UNCHANGED <<status, amountPaid, pay, entries, processed, invLock, req>>
  BY DEF CustomerPays, PayPalMoves, invoice, records
<1>2. /\ session' \in [Sessions -> SessionStates]
      /\ order' \in [Orders -> OrderStates]
  BY DEF CustomerPays, PayPalMoves, IInv, TypeOK, SessionStates, OrderStates
<1>3. \A s \in Sessions : session'[s] \in {"offered", "paid"} => Exists(s)
  <2>1. CASE \E s \in Sessions : CustomerPays(s)
    BY <2>1 DEF CustomerPays, IInv, TypeOK, RowsOK
  <2>2. CASE \E o \in Orders : PayPalMoves(o)
    BY <2>2 DEF PayPalMoves, IInv, RowsOK
  <2> QED
    BY <2>1, <2>2
<1>4. /\ Amount' = Amount /\ Completed' = Completed
      /\ \A t : Exists(t)' = Exists(t)
  BY <1>1 DEF Amount, Completed, Exists
<1>5. TypeOK'
  BY <1>1, <1>2 DEF IInv, TypeOK, SessionStates, OrderStates
<1>6. NoOverpayment' /\ StatusMatchesAmount'
  BY <1>1, <1>4 DEF IInv, NoOverpayment, StatusMatchesAmount, Paid
<1>7. RowsOK' /\ EntriesOK'
  BY <1>1, <1>3, <1>4 DEF IInv, RowsOK, EntriesOK, OneEntryPerCapture
<1>8. \A q \in Requests : RequestOK(q)'
  BY <1>1, <1>4 DEF IInv, RequestOK, SettlingOK, LockedSumOK
<1> QED
  BY <1>5, <1>6, <1>7, <1>8 DEF IInv

(***************************************************************************)
(* WriteFailed: a row that exists is marked, its amount stays.             *)
(***************************************************************************)
LEMMA MarkedRow ==
    ASSUME IInv, NEW t \in Txns, Exists(t), NEW st \in {"FAILED", "REFUNDED"},
           pay' = [pay EXCEPT ![t].status = st]
    PROVE  /\ pay' \in [Txns -> Row]
           /\ RowsStay /\ NoCredit
           /\ \A u \in Txns : pay'[u].status # "NONE" => pay'[u].amount > 0
           /\ \A s \in Sessions : session[s] \in {"offered", "paid"} => pay'[s].status # "NONE"
<1>1. pay \in [Txns -> Row] /\ RowsOK
  BY DEF IInv, TypeOK
<1>2. ASSUME NEW u \in Txns
      PROVE  /\ pay'[u] \in Row /\ pay'[u].amount = pay[u].amount
             /\ pay'[u].status = IF u = t THEN st ELSE pay[u].status
  BY <1>1 DEF Row, RowStatuses
<1>3. pay' \in [Txns -> Row]
  BY <1>2, <1>1
<1>4. RowsStay /\ NoCredit
  BY <1>2 DEF RowsStay, NoCredit, Completed
<1>5. \A u \in Txns : pay'[u].status # "NONE" => pay'[u].amount > 0
  BY <1>1, <1>2 DEF RowsOK, Exists
<1>6. \A s \in Sessions : session[s] \in {"offered", "paid"} => pay'[s].status # "NONE"
  BY <1>1, <1>2 DEF RowsOK, Exists
<1> QED
  BY <1>3, <1>4, <1>5, <1>6

LEMMA WriteFailedStep ==
    ASSUME IInv, NEW r \in Requests, WriteFailed(r)
    PROVE  IInv'
<1>1. /\ Exists(req[r].txn) /\ req[r].txn \in Txns
      /\ pay' = [pay EXCEPT ![req[r].txn].status = "FAILED"]
      /\ AfterSuccess(r)
      /\ UNCHANGED <<status, amountPaid, entries, processed, invLock, session, order>>
  BY DEF IInv, WriteFailed, RequestOK, Exists, invoice, provider
<1>2. /\ pay' \in [Txns -> Row] /\ RowsStay /\ NoCredit
      /\ \A u \in Txns : pay'[u].status # "NONE" => pay'[u].amount > 0
      /\ \A s \in Sessions : session'[s] \in {"offered", "paid"} => pay'[s].status # "NONE"
  BY <1>1, MarkedRow
<1>3. /\ session' \in [Sessions -> SessionStates]
      /\ status' \in InvoiceStatuses /\ amountPaid' \in Nat /\ StatusMatchesAmount'
  BY <1>1 DEF IInv, TypeOK, SessionStates, StatusMatchesAmount
<1>4. PICK x \in Request :
         req' = [req EXCEPT ![r] = x] /\ (req'[r] = x => RequestOK(r)')
  BY <1>1, <1>2, AfterOK
<1> QED
  BY <1>1, <1>2, <1>3, <1>4, WritingStep

(***************************************************************************)
(* The steps of a webhook.                                                 *)
(***************************************************************************)
LEMMA ReceiveEventStep ==
    ASSUME IInv, NEW r \in Requests, ReceiveEvent(r)
    PROVE  IInv'
<1>1. PICK e \in Events :
         /\ Sent(e)
         /\ req' = [req EXCEPT ![r] = [Idle EXCEPT !.op = "hook", !.step = "hook", !.event = e]]
         /\ UNCHANGED <<invoice, records, processed, invLock, provider>>
  BY DEF ReceiveEvent, Start
<1> DEFINE x == [Idle EXCEPT !.op = "hook", !.step = "hook", !.event = e]
<1>2. Exists(e.txn)
  <2>1. CASE e \in PayPalEvents
    BY <2>1 DEF PayPalEvents, IInv, RowsOK
  <2>2. CASE e \in StripeEvents
    <3>1. /\ e.txn \in Sessions
          /\ e.kind \in {"session_completed", "intent_succeeded", "intent_failed"}
      BY <2>2 DEF StripeEvents
    <3>2. session[e.txn] \in {"offered", "paid"}
      BY <1>1, <3>1 DEF Sent
    <3> QED
      BY <3>1, <3>2 DEF IInv, RowsOK
  <2> QED
    BY <2>1, <2>2 DEF Events
<1>3. x \in Request
  BY DEF Idle, Request, Ops, Steps, InvoiceStatuses
<1>4. pay' = pay
  BY <1>1 DEF records
<1>5. req'[r] = x => RequestOK(r)'
  BY <1>2, <1>4 DEF Idle, RequestOK, Exists
<1> QED
  BY <1>1, <1>3, <1>5, RecordStep

\* A handler that moves to a step which relies on nothing, or on a row.
LEMMA GotoStep ==
    ASSUME IInv, NEW r \in Requests,
           NEW step \in {"mark", "fail", "refundLock"}, NEW t \in Txns \cup {Nil},
           step # "mark" => Exists(t), req[r].op = "hook",
           req' = [req EXCEPT ![r].step = step, ![r].txn = t],
           UNCHANGED <<invoice, records, processed, invLock, provider>>
    PROVE  IInv'
<1> DEFINE x == [req[r] EXCEPT !.step = step, !.txn = t]
<1>1. req[r] \in Request /\ RequestOK(r)
  BY DEF IInv, TypeOK
<1>2. x \in Request
  BY <1>1 DEF Request, Steps
<1>3. /\ x.step = step /\ x.txn = t /\ x.rest = req[r].rest
      /\ x.op = req[r].op /\ x.event = req[r].event
  BY <1>1 DEF Request
<1>4. pay' = pay
  BY DEF records
<1>5. req' = [req EXCEPT ![r] = x]
  OBVIOUS
<1> HIDE DEF x
<1>6. req'[r] = x => RequestOK(r)'
  BY <1>1, <1>3, <1>4 DEF RequestOK, Exists
<1> QED
  BY <1>2, <1>5, <1>6, RecordStep

LEMMA GotoMarkStep ==
    ASSUME IInv, NEW r \in Requests, Goto(r, "mark"), req[r].op = "hook",
           UNCHANGED <<invoice, records, processed, invLock, provider>>
    PROVE  IInv'
<1>1. req[r] \in Request /\ req[r].txn \in Txns \cup {Nil}
  BY DEF IInv, TypeOK, Request
<1>2. req' = [req EXCEPT ![r].step = "mark", ![r].txn = req[r].txn]
  BY <1>1 DEF Goto, IInv, TypeOK, Request
<1> QED
  BY <1>1, <1>2, GotoStep

LEMMA HookSettlesStep ==
    ASSUME IInv, NEW r \in Requests, HookSettles(r)
    PROVE  IInv'
<1> DEFINE e == req[r].event
<1>1. /\ req[r] \in Request /\ RequestOK(r) /\ e \in Events /\ Exists(e.txn)
      /\ req[r].op = "hook" /\ req[r].step = "hook"
      /\ UNCHANGED <<invoice, records, processed, invLock, provider>>
  BY DEF IInv, TypeOK, HookSettles, Hook, RequestOK
<1>2. e.txn \in Txns /\ e.txn \notin Manuals
  BY <1>1, SessionTxns, OrderTxns DEF Events, StripeEvents, PayPalEvents
<1>3. CASE Goto(r, "mark")
  BY <1>1, <1>3, GotoMarkStep
<1>4. ASSUME NEW t \in Subject(e), pay[t].amount = pay[e.txn].amount,
             req' = [req EXCEPT ![r].step = "settle", ![r].txn = t, ![r].ref = e.txn,
                                ![r].amt = pay[t].amount]
      PROVE  IInv'
  <2> DEFINE x == [req[r] EXCEPT !.step = "settle", !.txn = t, !.ref = e.txn,
                                 !.amt = pay[t].amount]
  <2>1. t \in Txns
    BY <1>2, SessionTxns DEF Subject, Newest
  <2>2. pay[t].amount \in Nat \ {0}
    BY <1>1, <1>2, <1>4 DEF IInv, RowsOK, TypeOK, Row
  <2>3. x \in Request
    BY <1>1, <1>2, <2>1, <2>2 DEF Request, Steps
  <2>4. /\ x.step = "settle" /\ x.txn = t /\ x.ref = e.txn /\ x.amt = pay[t].amount
        /\ x.rest = req[r].rest /\ x.op = req[r].op /\ x.event = req[r].event
    BY <1>1 DEF Request
  <2>5. pay' = pay
    BY <1>1 DEF records
  <2>6. req' = [req EXCEPT ![r] = x]
    BY <1>4
  <2> HIDE DEF x, e
  <2>7. req'[r] = x => RequestOK(r)'
    BY <1>1, <1>2, <2>1, <2>2, <2>4, <2>5 DEF RequestOK, SettlingOK, Exists
  <2> QED
    BY <1>1, <2>3, <2>6, <2>7, RecordStep
<1> QED
  BY <1>3, <1>4 DEF HookSettles

LEMMA HookFailsStep ==
    ASSUME IInv, NEW r \in Requests, HookFails(r)
    PROVE  IInv'
<1>1. /\ UNCHANGED <<invoice, records, processed, invLock, provider>>
      /\ req[r].op = "hook"
  BY DEF HookFails, Hook, IInv, RequestOK
<1>2. CASE Goto(r, "mark")
  BY <1>1, <1>2, GotoMarkStep
<1>3. ASSUME NEW t \in Pending, req' = [req EXCEPT ![r].step = "fail", ![r].txn = t]
      PROVE  IInv'
  <2>1. t \in Txns /\ Exists(t)
    BY DEF Pending, Exists
  <2> QED
    BY <1>1, <1>3, <2>1, GotoStep
<1> QED
  BY <1>2, <1>3 DEF HookFails

LEMMA FindRefundedStep ==
    ASSUME IInv, NEW r \in Requests, FindRefunded(r)
    PROVE  IInv'
<1>1. /\ UNCHANGED <<invoice, records, processed, invLock, provider>>
      /\ req[r].op = "hook"
  BY DEF FindRefunded, Hook, IInv, RequestOK
<1>2. CASE Goto(r, "mark")
  BY <1>1, <1>2, GotoMarkStep
<1>3. CASE /\ pay[req[r].event.txn].status \notin {"NONE", "REFUNDED"}
           /\ req' = [req EXCEPT ![r].step = "refundLock", ![r].txn = req[r].event.txn]
  <2>1. Exists(req[r].event.txn) /\ req[r].event.txn \in Txns
    BY DEF IInv, RequestOK, FindRefunded, Hook, Exists
  <2> QED
    BY <1>1, <1>3, <2>1, GotoStep
<1> QED
  BY <1>2, <1>3 DEF FindRefunded

(***************************************************************************)
(* The refund transaction: what it sums without the invoice row never      *)
(* exceeds the total, for nothing ever does.                               *)
(***************************************************************************)
LEMMA ReadForRefundStep ==
    ASSUME IInv, NEW r \in Requests, ReadForRefund(r)
    PROVE  IInv'
<1> DEFINE sum == SumOf(Amount, Completed \ {req[r].txn})
           x == [req[r] EXCEPT !.step = "refund", !.seen = status, !.sum = sum]
<1>1. /\ req[r] \in Request /\ RequestOK(r) /\ req[r].step = "refundLock"
      /\ UNCHANGED <<invoice, records, processed, invLock, provider>>
      /\ req' = [req EXCEPT ![r] = x]
  BY DEF IInv, TypeOK, ReadForRefund
<1>2. sum \in Nat /\ sum <= Total
  <2>1. IsFiniteSet(Completed) /\ \A t \in Completed : Amount[t] \in Nat
    BY PaidNat DEF IInv
  <2>2. sum \in Nat /\ sum <= SumOf(Amount, Completed) /\ SumOf(Amount, Completed) \in Nat
    BY <2>1, SumMono, SumNat
  <2> QED
    BY <2>2, TotalAssumption DEF IInv, NoOverpayment, Paid
<1> HIDE DEF sum
<1>3. x \in Request
  BY <1>1, <1>2 DEF Request, Steps, IInv, TypeOK
<1>4. /\ x.step = "refund" /\ x.txn = req[r].txn /\ x.rest = req[r].rest /\ x.sum = sum
      /\ x.op = req[r].op /\ x.event = req[r].event
  BY <1>1 DEF Request
<1>5. pay' = pay
  BY <1>1 DEF records
<1> HIDE DEF x
<1>6. req'[r] = x => RequestOK(r)'
  BY <1>1, <1>2, <1>4, <1>5 DEF RequestOK, Exists
<1> QED
  BY <1>1, <1>3, <1>6, RecordStep

LEMMA CommitRefundStep ==
    ASSUME IInv, NEW r \in Requests, CommitRefund(r)
    PROVE  IInv'
<1>1. /\ req[r] \in Request /\ Exists(req[r].txn) /\ req[r].txn \in Txns
      /\ req[r].sum \in Nat /\ req[r].sum <= Total /\ req[r].seen \in InvoiceStatuses
      /\ req[r].op = "hook"
  BY DEF IInv, TypeOK, Request, RequestOK, CommitRefund, Exists
<1>2. /\ pay' = [pay EXCEPT ![req[r].txn].status = "REFUNDED"]
      /\ amountPaid' = req[r].sum
      /\ status' = RefundedStatus(req[r].sum, req[r].seen)
      /\ Back(r, "mark")
      /\ UNCHANGED <<entries, processed, invLock, session, order>>
  BY DEF CommitRefund, provider
<1>3. /\ pay' \in [Txns -> Row] /\ RowsStay /\ NoCredit
      /\ \A u \in Txns : pay'[u].status # "NONE" => pay'[u].amount > 0
      /\ \A s \in Sessions : session'[s] \in {"offered", "paid"} => pay'[s].status # "NONE"
  BY <1>1, <1>2, MarkedRow
<1>4. status' \in InvoiceStatuses /\ amountPaid' \in Nat /\ StatusMatchesAmount'
  BY <1>1, <1>2, TotalAssumption
     DEF RefundedStatus, SettledStatus, InvoiceStatuses, StatusMatchesAmount
<1>5. session' \in [Sessions -> SessionStates]
  BY <1>2 DEF IInv, TypeOK, SessionStates
<1>6. PICK x \in Request :
         req' = [req EXCEPT ![r] = x] /\ (req'[r] = x => RequestOK(r)')
  BY <1>1, <1>2, <1>3, AfterOK
<1> QED
  BY <1>2, <1>3, <1>4, <1>5, <1>6, WritingStep

LEMMA AbortRefundStep ==
    ASSUME IInv, NEW r \in Requests, AbortRefund(r)
    PROVE  IInv'
BY AfterStep DEF AbortRefund, IInv, RequestOK

LEMMA MarkEventStep ==
    ASSUME IInv, NEW r \in Requests, MarkEvent(r)
    PROVE  IInv'
<1>1. RequestOK(r) /\ req[r] \in Request /\ processed \subseteq Events
  BY DEF IInv, TypeOK
<1>2. PICK x \in Request :
         req' = [req EXCEPT ![r] = x] /\ (req'[r] = x => RequestOK(r)')
  BY AfterOK DEF MarkEvent, RowsStay, records
<1>3. /\ session' \in [Sessions -> SessionStates]
      /\ order' \in [Orders -> OrderStates]
      /\ \A s \in Sessions : session'[s] \in {"offered", "paid"} => Exists(s)
  BY DEF MarkEvent, IInv, TypeOK, RowsOK, SessionStates, OrderStates, provider
<1>4. UNCHANGED <<invoice, records, invLock>>
  BY DEF MarkEvent
<1>5. processed' \subseteq Events
  BY <1>1 DEF MarkEvent, RequestOK
<1> QED
  BY <1>2, <1>3, <1>4, <1>5, ReadingStep

(***************************************************************************)
(* Cancelling and viewing: a status that claims no payment.                *)
(***************************************************************************)
LEMMA StatusReadStep ==
    ASSUME IInv, NEW r \in Requests, ReadToCancel(r) \/ ReadToView(r)
    PROVE  IInv'
<1> DEFINE x(op, step) == [Idle EXCEPT !.op = op, !.step = step]
<1>1. /\ \/ req' = [req EXCEPT ![r] = x("cancel", "cancel")]
         \/ req' = [req EXCEPT ![r] = x("view", "view")]
      /\ UNCHANGED <<invoice, records, processed, invLock, provider>>
  BY DEF ReadToCancel, ReadToView, Start
<1>2. ASSUME NEW v \in {"cancel", "view"}
      PROVE  x(v, v) \in Request /\ (req'[r] = x(v, v) => RequestOK(r)')
  BY DEF Idle, Request, Ops, Steps, InvoiceStatuses, RequestOK
<1> HIDE DEF x
<1> QED
  BY <1>1, <1>2, RecordStep

LEMMA StatusWriteStep ==
    ASSUME IInv, NEW r \in Requests, CancelInvoice(r) \/ ViewInvoice(r)
    PROVE  IInv'
<1>1. /\ status' \in {"CANCELLED", "VIEWED"}
      /\ Finish(r)
      /\ UNCHANGED <<amountPaid, pay, entries, processed, invLock, session, order>>
  BY DEF CancelInvoice, ViewInvoice, records, provider
<1>2. pay' \in [Txns -> Row] /\ RowsStay /\ NoCredit
  BY <1>1 DEF IInv, TypeOK, RowsStay, NoCredit, Completed
<1>3. /\ \A u \in Txns : pay'[u].status # "NONE" => pay'[u].amount > 0
      /\ \A s \in Sessions : session'[s] \in {"offered", "paid"} => pay'[s].status # "NONE"
      /\ session' \in [Sessions -> SessionStates]
  BY <1>1 DEF IInv, TypeOK, RowsOK, Exists, SessionStates
<1>4. status' \in InvoiceStatuses /\ amountPaid' \in Nat /\ StatusMatchesAmount'
  BY <1>1 DEF IInv, TypeOK, InvoiceStatuses, StatusMatchesAmount
<1>5. PICK x \in Request :
         req' = [req EXCEPT ![r] = x] /\ (req'[r] = x => RequestOK(r)')
  BY <1>1, <1>2, AfterOK
<1> QED
  BY <1>1, <1>2, <1>3, <1>4, <1>5, WritingStep

(***************************************************************************)
(* Crash: the handler and its lock are gone, the rows are not.             *)
(***************************************************************************)
LEMMA CrashStep ==
    ASSUME IInv, NEW r \in Requests, Crash(r)
    PROVE  IInv'
<1>1. invLock' = invLock \/ (invLock \in {Nil, r} /\ invLock' \in {Nil, r})
  BY DEF Crash
<1> QED
  BY <1>1, AfterStep DEF Crash

-----------------------------------------------------------------------------

(***************************************************************************)
(* Before the first request there is nothing to answer for.                *)
(***************************************************************************)
LEMMA InitOK == Init => IInv
<1> SUFFICES ASSUME Init PROVE IInv
  OBVIOUS
<1>1. \A t \in Txns : pay[t] = IF t \in Orders
                             THEN [status |-> "PENDING", amount |-> Total, born |-> 1]
                             ELSE NoRow
  BY DEF Init
<1>2. TypeOK
  BY TotalAssumption, FS_EmptySet, IdleOK, <1>1
     DEF Init, TypeOK, InvoiceStatuses, Row, RowStatuses, NoRow, Idle, Request, Ops, Steps
<1>3. Completed = {}
  BY <1>1 DEF Completed, NoRow
<1>4. NoOverpayment
  BY <1>3, SumEmpty, TotalAssumption DEF NoOverpayment, Paid
<1>5. RowsOK
  BY <1>1, TotalAssumption, OrderTxns DEF RowsOK, Exists, NoRow, Init
<1>6. EntriesOK /\ StatusMatchesAmount
  BY DEF Init, EntriesOK, OneEntryPerCapture, StatusMatchesAmount
<1>7. ASSUME NEW r \in Requests PROVE RequestOK(r)
  <2>1. req[r] = Idle
    BY DEF Init
  <2> QED
    BY <2>1 DEF Idle, RequestOK
<1> QED
  BY <1>2, <1>4, <1>5, <1>6, <1>7 DEF IInv

(***************************************************************************)
(* Every step, and every stutter, keeps IInv.                              *)
(***************************************************************************)
LEMMA StutterStep == IInv /\ UNCHANGED vars => IInv'
<1> SUFFICES ASSUME IInv, UNCHANGED vars PROVE IInv'
  OBVIOUS
<1>1. UNCHANGED <<status, amountPaid, pay, entries, processed, invLock, req, session, order>>
  BY DEF vars
<1>2. /\ Amount' = Amount /\ Completed' = Completed
      /\ \A t : Exists(t)' = Exists(t)
  BY <1>1 DEF Amount, Completed, Exists
<1>3. TypeOK'
  BY <1>1 DEF IInv, TypeOK
<1>4. NoOverpayment' /\ StatusMatchesAmount' /\ RowsOK' /\ EntriesOK'
  BY <1>1, <1>2
     DEF IInv, NoOverpayment, StatusMatchesAmount, Paid, RowsOK, EntriesOK, OneEntryPerCapture
<1>5. \A q \in Requests : RequestOK(q)'
  BY <1>1, <1>2 DEF IInv, RequestOK, SettlingOK, LockedSumOK
<1> QED
  BY <1>3, <1>4, <1>5 DEF IInv

LEMMA NextStep == IInv /\ [Next]_vars => IInv'
<1> SUFFICES ASSUME IInv, Next PROVE IInv'
  BY StutterStep
<1>1. ASSUME NEW r \in Requests, Settle(r) PROVE IInv'
  BY <1>1, BeginSettlementStep, CommitSettlementStep, AbortSettlementStep DEF Settle
<1>2. ASSUME NEW r \in Requests, Stripe(r) PROVE IInv'
  BY <1>2, CreateCheckoutStep, SupersedePendingStep, OpenPaymentStep,
     ConfirmCheckoutStep, ConfirmNextStep DEF Stripe
<1>3. ASSUME NEW r \in Requests, Webhook(r) PROVE IInv'
  BY <1>3, ReceiveEventStep, HookSettlesStep, HookFailsStep, MarkEventStep,
     FindRefundedStep, ReadForRefundStep, CommitRefundStep, AbortRefundStep DEF Webhook
<1>4. ASSUME NEW r \in Requests, StatusOnly(r) PROVE IInv'
  BY <1>4, StatusReadStep, StatusWriteStep DEF StatusOnly
<1>5. ASSUME NEW r \in Requests,
             RecordManualPayment(r) \/ CaptureOrder(r) \/ WriteFailed(r) \/ Crash(r)
      PROVE  IInv'
  BY <1>5, RecordManualPaymentStep, CaptureOrderStep, WriteFailedStep, CrashStep
<1> QED
  BY <1>1, <1>2, <1>3, <1>4, <1>5, ProviderStep DEF Next

(***************************************************************************)
(* The inductive invariant holds in every state the handlers reach.        *)
(***************************************************************************)
THEOREM Invariance == Spec => []IInv
BY InitOK, NextStep, PTL DEF Spec

(***************************************************************************)
(* Every variable keeps its type.                                          *)
(***************************************************************************)
THEOREM TypeCorrect == Spec => []TypeOK
<1>1. IInv => TypeOK
  BY DEF IInv
<1> QED
  BY <1>1, Invariance, PTL

(***************************************************************************)
(* No interleaving of handlers credits an invoice beyond its total         *)
(* (completeProviderPayment, recordCompletedPaymentAndSettleInvoice).      *)
(***************************************************************************)
THEOREM NeverOverpaid == Spec => []NoOverpayment
<1>1. IInv => NoOverpayment
  BY DEF IInv
<1> QED
  BY <1>1, Invariance, PTL

(***************************************************************************)
(* The stored status agrees with the stored amount, although refunds,      *)
(* cancellations and views write without the invoice row's lock.           *)
(***************************************************************************)
THEOREM StatusAlwaysMatches == Spec => []StatusMatchesAmount
<1>1. IInv => StatusMatchesAmount
  BY DEF IInv
<1> QED
  BY <1>1, Invariance, PTL

(***************************************************************************)
(* A capture has one PaymentTransaction row, however often it is reported. *)
(***************************************************************************)
THEOREM LoggedOnce == Spec => []OneEntryPerCapture
<1>1. IInv => OneEntryPerCapture
  BY DEF IInv, EntriesOK
<1> QED
  BY <1>1, Invariance, PTL

-----------------------------------------------------------------------------
(***************************************************************************)
(* BackingInv.  What a handler has made sure of stays true while rows and  *)
(* their amounts stay, sessions that were paid stay paid, and manual       *)
(* payments do not become less.                                            *)
(***************************************************************************)
AmountsStay == \A t \in Txns : Exists(t) => pay'[t].amount = pay[t].amount

PaidStay == \A s \in Sessions : session[s] = "paid" => session'[s] = "paid"

ManualsGrow ==
    /\ ManualPaid \in Nat
    /\ ManualPaid' \in Nat
    /\ ManualPaid <= ManualPaid'

Steady == RowsStay /\ AmountsStay /\ PaidStay /\ ManualsGrow

LEMMA ProviderTxns ==
    /\ Providers \subseteq Txns
    /\ Sessions \subseteq Providers /\ Orders \subseteq Providers
    /\ Providers \cap Manuals = {}
    /\ Txns = Manuals \cup Providers
BY TxnsAssumption DEF Providers, Txns

LEMMA BackedStays ==
    ASSUME IInv, Steady, NEW amount, Backed(amount)
    PROVE  Backed(amount)'
<1>1. PICK s \in Sessions : session[s] = "paid" /\ pay[s].amount = amount
  BY DEF Backed
<1>2. Exists(s)
  BY <1>1 DEF IInv, RowsOK
<1>3. session'[s] = "paid" /\ pay'[s].amount = amount
  BY <1>1, <1>2 DEF Steady, PaidStay, AmountsStay, Exists
<1> QED
  BY <1>3 DEF Backed

LEMMA SourceStays ==
    ASSUME IInv, Steady, NEW q \in Request, SourceOK(q),
           q.step = "hook" => q.event \in Events
    PROVE  SourceOK(q)'
<1>1. q.amt \in Nat
  BY DEF Request
<1>2. CoversRest(q.amt) => CoversRest(q.amt)'
  BY <1>1, TotalAssumption DEF CoversRest, Steady, ManualsGrow
<1>3. CreditingOK(q) => CreditingOK(q)'
  <2> SUFFICES ASSUME CreditingOK(q) PROVE CreditingOK(q)'
    OBVIOUS
  <2>1. Exists(q.txn) /\ q.txn \in Providers /\ q.amt = pay[q.txn].amount
    BY DEF CreditingOK
  <2>2. Exists(q.txn)' /\ pay'[q.txn].amount = pay[q.txn].amount
    BY <2>1 DEF Exists, Steady, RowsStay, AmountsStay
  <2>3. q.txn \in Sessions => Backed(q.amt)'
    BY BackedStays DEF CreditingOK
  <2> QED
    BY <2>1, <2>2, <2>3 DEF CreditingOK
<1>4. q.step = "hook" /\ q.event.kind \in {"session_completed", "intent_succeeded"} =>
        session'[q.event.txn] = "paid"
  <2> SUFFICES ASSUME q.step = "hook",
                      q.event.kind \in {"session_completed", "intent_succeeded"}
               PROVE  session'[q.event.txn] = "paid"
    OBVIOUS
  <2>1. session[q.event.txn] = "paid"
    BY DEF SourceOK
  <2>2. q.event.txn \in Sessions
    BY DEF Events, StripeEvents, PayPalEvents
  <2> QED
    BY <2>1, <2>2 DEF Steady, PaidStay
<1> QED
  BY <1>2, <1>3, <1>4 DEF SourceOK

(***************************************************************************)
(* One handler moves, to a record that is in order.                        *)
(***************************************************************************)
LEMMA SourcesStay ==
    ASSUME IInv, BackingInv, Steady, NEW g \in Requests, req'[g] = req[g]
    PROVE  SourceOK(req[g])'
<1>1. PICK q \in Request : q = req[g]
  BY DEF IInv, TypeOK
<1>2. SourceOK(q) /\ (q.step = "hook" => q.event \in Events)
  BY <1>1 DEF IInv, RequestOK, BackingInv
<1>3. SourceOK(q)'
  BY <1>2, SourceStays
<1> QED
  BY <1>1, <1>3 DEF SourceOK, CreditingOK, CoversRest, Backed, Exists

LEMMA MovesBacked ==
    ASSUME IInv, BackingInv, Steady, RowsCover', OneProviderPayment',
           NEW r \in Requests, NEW x \in Request, req' = [req EXCEPT ![r] = x],
           SourceOK(x), x.step = "hook" => x.event \in Events
    PROVE  BackingInv'
<1>1. req'[r] = x /\ \A q \in Requests \ {r} : req'[q] = req[q]
  BY DEF IInv, TypeOK
<1>2. SourceOK(x)'
  BY SourceStays
<1>3. SourceOK(req[r])'
  BY <1>1, <1>2 DEF SourceOK, CreditingOK, CoversRest, Backed, Exists
<1> QED
  BY <1>1, <1>3, SourcesStay DEF BackingInv

(***************************************************************************)
(* A step that credits nothing, and leaves manual payments as they are.    *)
(***************************************************************************)
NewRowsCover == \A t \in Providers : ~Exists(t) /\ Exists(t)' => CoversRest(pay'[t].amount)

ManualsStay == Completed' \cap Manuals = Completed \cap Manuals

LEMMA NoCreditSteady ==
    ASSUME IInv, RowsStay, AmountsStay, PaidStay, NoCredit, ManualsStay
    PROVE  Steady /\ ManualPaid' = ManualPaid
<1> DEFINE S == Completed \cap Manuals
<1>1. ManualPaid \in Nat
  BY PaidNat DEF IInv, ManualPaid
<1>2. \A t \in S : Amount'[t] = Amount[t]
  BY DEF NoCredit, ManualsStay, Completed, Amount
<1>3. SumOf(Amount', S) = SumOf(Amount, S)
  BY <1>2, SumSame
<1>4. ManualPaid' = ManualPaid
  BY <1>3 DEF ManualPaid, ManualsStay
<1> QED
  BY <1>1, <1>4 DEF Steady, ManualsGrow

LEMMA RowsStillCover ==
    ASSUME IInv, BackingInv, Steady, NewRowsCover, ManualPaid' = ManualPaid
    PROVE  RowsCover'
<1> SUFFICES ASSUME NEW t \in Providers, Exists(t)'
             PROVE  CoversRest(pay[t].amount)'
  BY DEF RowsCover
<1>1. CASE Exists(t)
  <2>1. pay'[t].amount = pay[t].amount /\ CoversRest(pay[t].amount)
    BY <1>1 DEF Steady, AmountsStay, BackingInv, RowsCover, Exists
  <2> QED
    BY <2>1 DEF CoversRest
<1>2. CASE ~Exists(t)
  BY <1>2 DEF NewRowsCover, CoversRest
<1> QED
  BY <1>1, <1>2

LEMMA NoCreditBacked ==
    ASSUME IInv, BackingInv, RowsStay, AmountsStay, PaidStay, NoCredit, ManualsStay, NewRowsCover
    PROVE  Steady /\ RowsCover' /\ OneProviderPayment'
<1>1. Steady /\ RowsCover'
  BY NoCreditSteady, RowsStillCover
<1>2. ASSUME NEW t \in Completed' \cap Providers
      PROVE  /\ Completed' \cap Providers = {t}
             /\ Paid' = Total
             /\ t \in Sessions => Backed(pay[t].amount)'
  <2>1. t \in Completed \cap Providers /\ pay'[t].amount = pay[t].amount
    BY DEF NoCredit
  <2>2. /\ Completed \cap Providers = {t}
        /\ Paid = Total
        /\ t \in Sessions => Backed(pay[t].amount)
    BY <2>1 DEF BackingInv, OneProviderPayment
  <2>3. Completed' = Completed
    BY <2>2, ProviderTxns DEF NoCredit, ManualsStay, Completed
  <2>4. \A u \in Completed : Amount'[u] = Amount[u]
    BY <2>3 DEF NoCredit, Amount, Completed
  <2>5. Paid' = Paid
    BY <2>3, <2>4, SumSame DEF Paid
  <2>6. ASSUME t \in Sessions
        PROVE  Backed(pay[t].amount)'
    <3>1. PICK a : a = pay[t].amount
      OBVIOUS
    <3>2. Backed(a)
      BY <2>2, <2>6, <3>1 DEF Backed
    <3>3. Backed(a)'
      BY <1>1, <3>2, BackedStays
    <3> QED
      BY <2>1, <3>1, <3>3 DEF Backed
  <2> QED
    BY <2>2, <2>3, <2>5, <2>6
<1> QED
  BY <1>1, <1>2 DEF OneProviderPayment

LEMMA WriteBacked ==
    ASSUME IInv, BackingInv, RowsStay, AmountsStay, PaidStay, NoCredit, ManualsStay, NewRowsCover,
           NEW r \in Requests, NEW x \in Request, req' = [req EXCEPT ![r] = x],
           SourceOK(x), x.step = "hook" => x.event \in Events
    PROVE  BackingInv'
BY NoCreditBacked, MovesBacked

\* A step that leaves the rows alone.
LEMMA SameRowsBacked ==
    ASSUME IInv, BackingInv, UNCHANGED pay
    PROVE  /\ RowsStay /\ AmountsStay /\ NoCredit /\ ManualsStay /\ NewRowsCover
           /\ UNCHANGED session => PaidStay
BY DEF RowsStay, AmountsStay, NoCredit, ManualsStay, NewRowsCover, Exists, Completed, PaidStay

LEMMA ReadBacked ==
    ASSUME IInv, BackingInv, UNCHANGED pay, PaidStay,
           NEW r \in Requests, NEW x \in Request, req' = [req EXCEPT ![r] = x],
           SourceOK(x), x.step = "hook" => x.event \in Events
    PROVE  BackingInv'
BY SameRowsBacked, WriteBacked

(***************************************************************************)
(* A handler that ends, or answers, relies on nothing any more.            *)
(***************************************************************************)
LEMMA AfterSource ==
    ASSUME IInv, RowsStay, NEW r \in Requests,
           \/ AfterSuccess(r) \/ AfterError(r) \/ Finish(r)
           \/ (Back(r, "mark") \/ Back(r, "unmark")) /\ req[r].op = "hook"
    PROVE  \E x \in Request :
              /\ req' = [req EXCEPT ![r] = x]
              /\ SourceOK(x)
              /\ x.step # "hook"
<1>1. PICK x \in Request : req' = [req EXCEPT ![r] = x]
  BY AfterOK
<1>2. req'[r] = x
  BY <1>1 DEF IInv, TypeOK
<1>3. \/ Finish(r)
      \/ \E step \in {"mark", "unmark", "confirm"} : Back(r, step)
  BY DEF AfterSuccess, AfterError
<1>4. x.step \in {"idle", "mark", "unmark", "confirm"}
  <2>1. CASE Finish(r)
    <3>1. req'[r] = Idle
      BY <2>1 DEF Finish, IInv, TypeOK
    <3> QED
      BY <1>2, <3>1 DEF Idle
  <2>2. ASSUME NEW step \in {"mark", "unmark", "confirm"}, Back(r, step)
        PROVE  x.step = step
    <3>1. req'[r] = [Idle EXCEPT !.op = req[r].op, !.step = step,
                                 !.event = req[r].event, !.rest = req[r].rest]
      BY <2>2 DEF Back, IInv, TypeOK
    <3> QED
      BY <1>2, <3>1 DEF Idle
  <2> QED
    BY <1>3, <2>1, <2>2
<1>5. SourceOK(x)
  BY <1>4 DEF SourceOK
<1> QED
  BY <1>1, <1>4, <1>5

LEMMA AfterBacked ==
    ASSUME IInv, BackingInv, NEW r \in Requests,
           \/ AfterSuccess(r) \/ AfterError(r) \/ Finish(r)
           \/ (Back(r, "mark") \/ Back(r, "unmark")) /\ req[r].op = "hook",
           UNCHANGED <<pay, session>>
    PROVE  BackingInv'
BY AfterSource, SameRowsBacked, ReadBacked

\* After a step that keeps IInv a handler's record is of its type.
LEMMA WriteMoves ==
    ASSUME IInv, IInv', BackingInv,
           RowsStay, AmountsStay, PaidStay, NoCredit, ManualsStay, NewRowsCover,
           NEW r \in Requests, NEW x, req' = [req EXCEPT ![r] = x], SourceOK(x)
    PROVE  BackingInv'
<1>1. req'[r] = x /\ req'[r] \in Request
  BY DEF IInv, TypeOK
<1>2. req'[r].step = "hook" => req'[r].event \in Events
  BY DEF IInv, RequestOK
<1>3. x \in Request /\ (x.step = "hook" => x.event \in Events)
  BY <1>1, <1>2
<1> QED
  BY <1>3, WriteBacked

LEMMA ReadMoves ==
    ASSUME IInv, IInv', BackingInv, UNCHANGED pay, PaidStay,
           NEW r \in Requests, NEW x, req' = [req EXCEPT ![r] = x], SourceOK(x)
    PROVE  BackingInv'
BY SameRowsBacked, WriteMoves

(***************************************************************************)
(* Every action keeps BackingInv.  Most handlers read, or end.             *)
(***************************************************************************)
LEMMA BeginBacked ==
    ASSUME IInv, IInv', BackingInv, NEW r \in Requests,
           \/ RecordManualPayment(r) \/ BeginSettlement(r) \/ AbortSettlement(r)
    PROVE  BackingInv'
<1>1. UNCHANGED <<pay, session>> /\ PaidStay
  BY SameRowsBacked
     DEF RecordManualPayment, BeginSettlement, AbortSettlement, records, provider
<1>2. CASE RecordManualPayment(r)
  <2>1. PICK t \in Manuals, a \in 1 .. Total + 1 :
          req' = [req EXCEPT ![r] = [Idle EXCEPT !.op = "manual", !.step = "settle",
                                                 !.txn = t, !.ref = t, !.amt = a]]
    BY <1>2 DEF RecordManualPayment, Start
  <2> DEFINE x == [Idle EXCEPT !.op = "manual", !.step = "settle",
                               !.txn = t, !.ref = t, !.amt = a]
  <2>2. SourceOK(x)
    BY DEF Idle, SourceOK
  <2> HIDE DEF x
  <2>3. req' = [req EXCEPT ![r] = x]
    BY <2>1 DEF x
  <2> QED
    BY <1>1, <2>2, <2>3, ReadMoves
<1>3. CASE AfterSuccess(r) \/ AfterError(r)
  BY <1>1, <1>3, AfterBacked
<1>4. ASSUME NEW sum, req[r].step = "settle",
             req' = [req EXCEPT ![r].step = "commit", ![r].sum = sum]
      PROVE  BackingInv'
  <2> DEFINE x == [req[r] EXCEPT !.step = "commit", !.sum = sum]
  <2>1. req[r] \in Request /\ SourceOK(req[r])
    BY DEF IInv, TypeOK, BackingInv
  <2>2. x.step = "commit" /\ x.txn = req[r].txn /\ x.amt = req[r].amt /\ x.op = req[r].op
    BY <2>1 DEF Request
  <2>3. req' = [req EXCEPT ![r] = x]
    BY <1>4 DEF IInv, TypeOK
  <2> HIDE DEF x
  <2>4. SourceOK(x)
    BY <1>4, <2>1, <2>2 DEF SourceOK, CreditingOK
  <2> QED
    BY <1>1, <2>3, <2>4, ReadMoves
<1> QED
  BY <1>2, <1>3, <1>4 DEF BeginSettlement, AbortSettlement

LEMMA RestBacked ==
    ASSUME IInv, IInv', BackingInv, NEW r \in Requests,
           \/ AbortRefund(r) \/ MarkEvent(r) \/ CancelInvoice(r) \/ ViewInvoice(r) \/ Crash(r)
    PROVE  BackingInv'
BY AfterBacked
   DEF AbortRefund, MarkEvent, CancelInvoice, ViewInvoice, Crash, records, provider, IInv, RequestOK

LEMMA StartBacked ==
    ASSUME IInv, IInv', BackingInv, NEW r \in Requests,
           ReadToCancel(r) \/ ReadToView(r) \/ ConfirmCheckout(r)
    PROVE  BackingInv'
<1>1. UNCHANGED <<pay, session>> /\ PaidStay
  BY SameRowsBacked DEF ReadToCancel, ReadToView, ConfirmCheckout, records, provider
<1> DEFINE x(op, step) == [Idle EXCEPT !.op = op, !.step = step]
           y == [Idle EXCEPT !.op = "confirm", !.step = "confirm", !.rest = Pending \cap Sessions]
<1>2. SourceOK(x("cancel", "cancel")) /\ SourceOK(x("view", "view")) /\ SourceOK(y)
  BY DEF Idle, SourceOK
<1>3. \/ req' = [req EXCEPT ![r] = x("cancel", "cancel")]
      \/ req' = [req EXCEPT ![r] = x("view", "view")]
      \/ req' = [req EXCEPT ![r] = y]
  BY DEF ReadToCancel, ReadToView, ConfirmCheckout, Start
<1> HIDE DEF x, y
<1> QED
  BY <1>1, <1>2, <1>3, ReadMoves

(***************************************************************************)
(* A checkout starts only when no payment at a provider is COMPLETED, and  *)
(* asks for all that manual payments leave open.                           *)
(***************************************************************************)
LEMMA UnpaidIsManual ==
    ASSUME IInv, BackingInv, Paid < Total
    PROVE  Completed \subseteq Manuals /\ Paid = ManualPaid
<1>1. Completed \cap Providers = {}
  <2> SUFFICES ASSUME NEW t \in Completed \cap Providers PROVE FALSE
    OBVIOUS
  <2>1. Paid = Total
    BY DEF BackingInv, OneProviderPayment
  <2> QED
    BY <2>1, TotalAssumption
<1>2. Completed \subseteq Manuals
  BY <1>1, ProviderTxns DEF Completed
<1>3. Completed \cap Manuals = Completed
  BY <1>2
<1> QED
  BY <1>2, <1>3 DEF Paid, ManualPaid

LEMMA CheckoutBacked ==
    ASSUME IInv, IInv', BackingInv, NEW r \in Requests, CreateCheckout(r)
    PROVE  BackingInv'
<1>1. PICK s \in Sessions :
         /\ Paid < Total
         /\ session[s] = "none"
         /\ req' = [req EXCEPT ![r] = [Idle EXCEPT !.op = "checkout", !.step = "supersede",
                                                   !.txn = s, !.amt = Total - Paid]]
         /\ session' = [session EXCEPT ![s] = "created"]
         /\ UNCHANGED pay
  BY DEF CreateCheckout, Start, records
<1>2. PaidStay
  BY <1>1 DEF PaidStay, IInv, TypeOK
<1> DEFINE x == [Idle EXCEPT !.op = "checkout", !.step = "supersede",
                             !.txn = s, !.amt = Total - Paid]
<1>3. x.step = "supersede" /\ x.amt = Total - Paid
  BY DEF Idle
<1>4. Paid = ManualPaid /\ Paid \in Nat
  BY <1>1, UnpaidIsManual, PaidNat DEF IInv, Paid
<1>5. req' = [req EXCEPT ![r] = x]
  BY <1>1
<1> HIDE DEF x
<1>6. SourceOK(x)
  BY <1>3, <1>4, TotalAssumption DEF SourceOK, CoversRest
<1> QED
  BY <1>1, <1>2, <1>5, <1>6, ReadMoves

LEMMA SupersedeBacked ==
    ASSUME IInv, IInv', BackingInv, NEW r \in Requests, SupersedePending(r)
    PROVE  BackingInv'
<1> DEFINE x == [req[r] EXCEPT !.step = "open"]
<1>1. req[r] \in Request /\ req[r].step = "supersede" /\ SourceOK(req[r])
      /\ pay \in [Txns -> Row] /\ UNCHANGED session
  BY DEF IInv, TypeOK, SupersedePending, BackingInv, provider
<1>2. ASSUME NEW u \in Txns
      PROVE  /\ pay'[u].amount = pay[u].amount
             /\ pay'[u].status = "NONE" <=> pay[u].status = "NONE"
             /\ pay'[u].status = "COMPLETED" <=> pay[u].status = "COMPLETED"
  <2>1. CASE pay'[u] = pay[u]
    BY <1>1, <2>1
  <2>2. CASE u \in Pending /\ pay'[u] = [pay[u] EXCEPT !.status = "CANCELLED"]
    BY <1>1, <2>2 DEF Pending, Row, RowStatuses
  <2> QED
    BY <2>1, <2>2 DEF SupersedePending
<1>3. RowsStay /\ AmountsStay /\ NoCredit /\ ManualsStay
  BY <1>2 DEF RowsStay, AmountsStay, NoCredit, ManualsStay, Completed
<1>4. NewRowsCover
  BY <1>2, ProviderTxns DEF NewRowsCover, Exists
<1>5. PaidStay
  BY <1>1 DEF PaidStay
<1>6. x.step = "open" /\ x.amt = req[r].amt
  BY <1>1 DEF Request
<1>7. req' = [req EXCEPT ![r] = x]
  BY DEF SupersedePending, Goto
<1> HIDE DEF x
<1>8. SourceOK(x)
  BY <1>1, <1>6 DEF SourceOK
<1> QED
  BY <1>3, <1>4, <1>5, <1>7, <1>8, WriteMoves

(***************************************************************************)
(* CheckoutsApart: only a checkout that starts takes a session, a new one, *)
(* and only the checkout that took it offers it.                           *)
(***************************************************************************)
NoNewOpening ==
    \A g \in Requests : Opening(req'[g]) => Opening(req[g]) /\ req'[g].txn = req[g].txn

LEMMA ApartStays ==
    ASSUME CheckoutsApart, NoNewOpening,
           \A g \in Requests :
              Opening(req'[g]) => session'[req[g].txn] = session[req[g].txn]
    PROVE  CheckoutsApart'
BY DEF CheckoutsApart, NoNewOpening, Opening

LEMMA EndsApart ==
    ASSUME IInv, NEW r \in Requests,
           \/ AfterSuccess(r) \/ AfterError(r) \/ Finish(r)
           \/ Back(r, "mark") \/ Back(r, "unmark")
    PROVE  NoNewOpening /\ ~Opening(req'[r])
<1>1. \/ Finish(r)
      \/ \E step \in {"mark", "unmark", "confirm"} : Back(r, step)
  BY DEF AfterSuccess, AfterError
<1>2. CASE Finish(r)
  BY <1>2 DEF Finish, Idle, IInv, TypeOK, NoNewOpening, Opening
<1>3. ASSUME NEW step \in {"mark", "unmark", "confirm"}, Back(r, step)
      PROVE  NoNewOpening /\ ~Opening(req'[r])
  BY <1>3 DEF Back, Idle, IInv, TypeOK, NoNewOpening, Opening
<1> QED
  BY <1>1, <1>2, <1>3

LEMMA StartsApart ==
    ASSUME IInv, NEW r \in Requests,
           \/ RecordManualPayment(r) \/ ConfirmCheckout(r) \/ CaptureOrder(r)
           \/ ReceiveEvent(r) \/ ReadToCancel(r) \/ ReadToView(r)
    PROVE  NoNewOpening /\ UNCHANGED session
<1>1. req'[r].step \in {"settle", "confirm", "fail", "hook", "cancel", "view"}
      /\ \A g \in Requests \ {r} : req'[g] = req[g]
  <2>1. CASE RecordManualPayment(r)
    BY <2>1 DEF RecordManualPayment, Start, Idle, IInv, TypeOK
  <2>2. CASE ConfirmCheckout(r) \/ ReadToCancel(r) \/ ReadToView(r)
    BY <2>2 DEF ConfirmCheckout, ReadToCancel, ReadToView, Start, Idle, IInv, TypeOK
  <2>3. CASE CaptureOrder(r)
    <3>1. PICK o \in Orders :
            \/ req' = [req EXCEPT ![r] = [Idle EXCEPT !.op = "capture", !.step = "settle",
                                      !.txn = o, !.ref = o, !.amt = pay[o].amount]]
            \/ req' = [req EXCEPT ![r] = [Idle EXCEPT !.op = "capture", !.step = "fail",
                                      !.txn = o]]
      BY <2>3 DEF CaptureOrder, Start
    <3> QED
      BY <3>1 DEF Idle, IInv, TypeOK
  <2>4. CASE ReceiveEvent(r)
    BY <2>4 DEF ReceiveEvent, Start, Idle, IInv, TypeOK
  <2> QED
    BY <2>1, <2>2, <2>3, <2>4
<1>2. NoNewOpening
  BY <1>1 DEF NoNewOpening, Opening
<1> QED
  BY <1>2 DEF RecordManualPayment, ConfirmCheckout, CaptureOrder, ReceiveEvent,
              ReadToCancel, ReadToView, provider

LEMMA MovesApart ==
    ASSUME IInv, NEW r \in Requests,
           \/ BeginSettlement(r) \/ CommitSettlement(r) \/ AbortSettlement(r)
           \/ ConfirmNext(r) \/ WriteFailed(r) \/ MarkEvent(r) \/ CommitRefund(r) \/ AbortRefund(r)
           \/ CancelInvoice(r) \/ ViewInvoice(r) \/ Crash(r)
           \/ HookSettles(r) \/ HookFails(r) \/ FindRefunded(r) \/ ReadForRefund(r)
           \/ SupersedePending(r)
    PROVE  NoNewOpening /\ UNCHANGED session
<1>1. UNCHANGED session
  BY DEF BeginSettlement, CommitSettlement, AbortSettlement, ConfirmNext, WriteFailed,
         MarkEvent, CommitRefund, AbortRefund, CancelInvoice, ViewInvoice, Crash,
         HookSettles, HookFails, FindRefunded, ReadForRefund, SupersedePending, provider
<1>2. CASE \/ AfterSuccess(r) \/ AfterError(r) \/ Finish(r)
           \/ Back(r, "mark") \/ Back(r, "unmark")
  BY <1>1, <1>2, EndsApart
<1>3. req \in [Requests -> Request]
  BY DEF IInv, TypeOK
<1>4. CASE SupersedePending(r)
  <2>1. req' = [req EXCEPT ![r].step = "open"] /\ req[r].step = "supersede"
    BY <1>4 DEF SupersedePending, Goto
  <2>2. req'[r].txn = req[r].txn /\ \A g \in Requests \ {r} : req'[g] = req[g]
    BY <1>3, <2>1 DEF Request
  <2> QED
    BY <1>1, <2>1, <2>2 DEF NoNewOpening, Opening
<1>5. ASSUME \E f : req' = [req EXCEPT ![r] = f] /\ ~Opening(f)
      PROVE  NoNewOpening
  BY <1>3, <1>5 DEF NoNewOpening
<1>6. CASE BeginSettlement(r) /\ ~AfterSuccess(r) /\ ~AfterError(r)
  <2>1. PICK sum : req' = [req EXCEPT ![r].step = "commit", ![r].sum = sum]
    BY <1>6 DEF BeginSettlement
  <2> DEFINE f == [req[r] EXCEPT !.step = "commit", !.sum = sum]
  <2>2. req' = [req EXCEPT ![r] = f] /\ ~Opening(f)
    BY <1>3, <2>1 DEF Request, Opening
  <2> QED
    BY <1>1, <1>5, <2>2
<1>7. CASE ConfirmNext(r) /\ ~Finish(r)
  <2>1. PICK s : \/ req' = [req EXCEPT ![r].step = "settle", ![r].txn = s, ![r].ref = s,
                                       ![r].amt = pay[s].amount, ![r].rest = @ \ {s}]
                 \/ req' = [req EXCEPT ![r].rest = @ \ {s}]
    BY <1>7 DEF ConfirmNext
  <2>2. req[r].step = "confirm"
    BY <1>7 DEF ConfirmNext
  <2> DEFINE f == [req[r] EXCEPT !.step = "settle", !.txn = s, !.ref = s,
                                 !.amt = pay[s].amount, !.rest = @ \ {s}]
             h == [req[r] EXCEPT !.rest = @ \ {s}]
  <2>3. ~Opening(f) /\ ~Opening(h)
    BY <1>3, <2>2 DEF Request, Opening
  <2>4. req' = [req EXCEPT ![r] = f] \/ req' = [req EXCEPT ![r] = h]
    BY <1>3, <2>1
  <2> QED
    BY <1>1, <1>5, <2>3, <2>4
<1>8. CASE HookSettles(r) \/ HookFails(r) \/ FindRefunded(r) \/ ReadForRefund(r)
  <2>1. ASSUME NEW step \in {"mark", "settle", "fail", "refundLock", "refund"},
               NEW t, NEW u, NEW a, NEW seen, NEW sum,
               \/ req' = [req EXCEPT ![r].step = step]
               \/ req' = [req EXCEPT ![r].step = step, ![r].txn = t]
               \/ req' = [req EXCEPT ![r].step = step, ![r].txn = t, ![r].ref = u, ![r].amt = a]
               \/ req' = [req EXCEPT ![r].step = step, ![r].seen = seen, ![r].sum = sum]
        PROVE  NoNewOpening
    BY <1>3, <2>1 DEF Request, Opening, NoNewOpening
  <2>2. CASE HookSettles(r)
    <3>1. CASE Goto(r, "mark")
      BY <1>1, <2>1, <3>1 DEF Goto
    <3>2. CASE ~Goto(r, "mark")
      <4>1. PICK t : req' = [req EXCEPT ![r].step = "settle", ![r].txn = t,
                                        ![r].ref = req[r].event.txn, ![r].amt = pay[t].amount]
        BY <2>2, <3>2 DEF HookSettles
      <4> QED
        BY <1>1, <2>1, <4>1
    <3> QED
      BY <3>1, <3>2
  <2>3. CASE HookFails(r)
    BY <1>1, <2>1, <2>3 DEF HookFails, Goto
  <2>4. CASE FindRefunded(r)
    BY <1>1, <2>1, <2>4 DEF FindRefunded, Goto
  <2>5. CASE ReadForRefund(r)
    BY <1>1, <2>1, <2>5 DEF ReadForRefund
  <2> QED
    BY <1>8, <2>2, <2>3, <2>4, <2>5
<1> QED
  BY <1>2, <1>4, <1>6, <1>7, <1>8
     DEF CommitSettlement, AbortSettlement, WriteFailed, BeginSettlement, ConfirmNext,
         MarkEvent, CommitRefund, AbortRefund, CancelInvoice, ViewInvoice, Crash

LEMMA CheckoutApart ==
    ASSUME IInv, CheckoutsApart, NEW r \in Requests, CreateCheckout(r)
    PROVE  CheckoutsApart'
<1>1. PICK s \in Sessions :
         /\ session[s] = "none"
         /\ req' = [req EXCEPT ![r] = [Idle EXCEPT !.op = "checkout", !.step = "supersede",
                                                   !.txn = s, !.amt = Total - Paid]]
         /\ session' = [session EXCEPT ![s] = "created"]
  BY DEF CreateCheckout, Start
<1>2. /\ req'[r].txn = s
      /\ \A g \in Requests \ {r} : req'[g] = req[g]
  BY <1>1 DEF IInv, TypeOK, Idle
<1>3. \A t : session[t] = "created" => session'[t] = "created"
  BY <1>1 DEF IInv, TypeOK
<1>4. session'[s] = "created" /\ session[s] # "created"
  BY <1>1 DEF IInv, TypeOK
<1> QED
  BY <1>2, <1>3, <1>4 DEF CheckoutsApart, Opening

LEMMA OpenApart ==
    ASSUME IInv, CheckoutsApart, NEW r \in Requests, OpenPayment(r)
    PROVE  CheckoutsApart'
<1>1. NoNewOpening /\ ~Opening(req'[r])
  BY EndsApart DEF OpenPayment
<1>2. Opening(req[r]) /\ session' = [session EXCEPT ![req[r].txn] = "offered"]
  BY DEF OpenPayment, Opening
<1>3. ASSUME NEW g \in Requests, Opening(req'[g])
      PROVE  session'[req[g].txn] = session[req[g].txn]
  <2>1. Opening(req[g]) /\ g # r
    BY <1>1, <1>3 DEF NoNewOpening
  <2>2. req[g].txn # req[r].txn
    BY <1>2, <2>1 DEF CheckoutsApart
  <2> QED
    BY <1>2, <2>2
<1> QED
  BY <1>1, <1>3, ApartStays

LEMMA NextApart ==
    ASSUME IInv, CheckoutsApart, [Next]_vars
    PROVE  CheckoutsApart'
<1>1. ASSUME NEW r \in Requests,
             \/ Settle(r) \/ Stripe(r) \/ Webhook(r) \/ StatusOnly(r)
             \/ RecordManualPayment(r) \/ CaptureOrder(r) \/ WriteFailed(r) \/ Crash(r)
      PROVE  CheckoutsApart'
  <2>1. CASE CreateCheckout(r) \/ OpenPayment(r)
    BY <2>1, CheckoutApart, OpenApart
  <2>2. CASE ~CreateCheckout(r) /\ ~OpenPayment(r)
    <3>1. NoNewOpening /\ UNCHANGED session
      BY <1>1, <2>2, StartsApart, MovesApart DEF Settle, Stripe, Webhook, StatusOnly
    <3> QED
      BY <3>1, ApartStays
  <2> QED
    BY <2>1, <2>2
<1>2. ASSUME NEW s \in Sessions, CustomerPays(s)
      PROVE  CheckoutsApart'
  BY <1>2 DEF CustomerPays, CheckoutsApart, Opening
<1>3. CASE UNCHANGED <<req, session>>
  BY <1>3 DEF CheckoutsApart, Opening
<1> QED
  BY <1>1, <1>2, <1>3 DEF Next, vars, PayPalMoves

LEMMA OpenBacked ==
    ASSUME IInv, IInv', BackingInv, CheckoutsApart, NEW r \in Requests, OpenPayment(r)
    PROVE  BackingInv'
<1> DEFINE s == req[r].txn
<1>1. /\ s \in Sessions /\ s \in Txns
      /\ pay \in [Txns -> Row] /\ session \in [Sessions -> SessionStates]
      /\ CoversRest(req[r].amt)
  BY DEF IInv, TypeOK, OpenPayment, RequestOK, Txns, SessionStates, BackingInv, SourceOK
<1>2. /\ pay' = [pay EXCEPT ![s] =
                    IF pay[s].status # "NONE" THEN pay[s]
                    ELSE [status |-> "PENDING", amount |-> req[r].amt,
                          born |-> Cardinality(Rows) + 1]]
      /\ session' = [session EXCEPT ![s] = "offered"]
      /\ Finish(r)
  BY DEF OpenPayment
<1>3. session[s] = "created"
  BY DEF CheckoutsApart, Opening, OpenPayment
<1> HIDE DEF s
<1>4. \A u \in Txns \ {s} : pay'[u] = pay[u]
  BY <1>1, <1>2
<1>5. pay[s].status # "NONE" => pay'[s] = pay[s]
  BY <1>1, <1>2
<1>6. pay[s].status = "NONE" => pay'[s].status = "PENDING" /\ pay'[s].amount = req[r].amt
  BY <1>1, <1>2
<1>7. RowsStay /\ AmountsStay
  BY <1>4, <1>5 DEF RowsStay, AmountsStay, Exists
<1>8. NoCredit /\ ManualsStay
  BY <1>4, <1>5, <1>6 DEF NoCredit, ManualsStay, Completed
<1>9. NewRowsCover
  BY <1>1, <1>4, <1>6 DEF NewRowsCover, Exists
<1>10. PaidStay
  BY <1>1, <1>2, <1>3 DEF PaidStay
<1>11. PICK x \in Request : req' = [req EXCEPT ![r] = x] /\ SourceOK(x)
  BY <1>2, <1>7, AfterSource
<1> QED
  BY <1>7, <1>8, <1>9, <1>10, <1>11, WriteMoves

(***************************************************************************)
(* The return page and the capture endpoint credit what the provider says  *)
(* was paid, by the amount of its own row.                                 *)
(***************************************************************************)
LEMMA ConfirmNextBacked ==
    ASSUME IInv, IInv', BackingInv, NEW r \in Requests, ConfirmNext(r)
    PROVE  BackingInv'
<1>1. UNCHANGED <<pay, session>> /\ PaidStay
  BY SameRowsBacked DEF ConfirmNext, records, provider
<1>2. req[r] \in Request /\ req[r].step = "confirm" /\ req[r].op = "confirm"
      /\ \A s \in req[r].rest : Exists(s) /\ s \in Sessions
  BY DEF IInv, TypeOK, ConfirmNext, RequestOK, Request
<1>3. CASE Finish(r)
  BY <1>1, <1>3, AfterBacked
<1>4. ASSUME NEW s \in req[r].rest, session[s] = "paid",
             req' = [req EXCEPT ![r].step = "settle", ![r].txn = s, ![r].ref = s,
                                ![r].amt = pay[s].amount, ![r].rest = @ \ {s}]
      PROVE  BackingInv'
  <2> DEFINE x == [req[r] EXCEPT !.step = "settle", !.txn = s, !.ref = s,
                                 !.amt = pay[s].amount, !.rest = @ \ {s}]
  <2>1. x.step = "settle" /\ x.txn = s /\ x.amt = pay[s].amount
    BY <1>2 DEF Request
  <2>2. Exists(s) /\ s \in Providers /\ Backed(pay[s].amount)
    BY <1>2, <1>4, ProviderTxns DEF Backed
  <2>3. req' = [req EXCEPT ![r] = x]
    BY <1>4 DEF IInv, TypeOK
  <2> HIDE DEF x
  <2>4. CreditingOK(x)
    BY <2>1, <2>2 DEF CreditingOK, Backed
  <2>5. SourceOK(x)
    BY <2>1, <2>4 DEF SourceOK
  <2> QED
    BY <1>1, <2>3, <2>5, ReadMoves
<1>5. ASSUME NEW s, req' = [req EXCEPT ![r].rest = @ \ {s}]
      PROVE  BackingInv'
  <2> DEFINE x == [req[r] EXCEPT !.rest = @ \ {s}]
  <2>1. x.step = "confirm"
    BY <1>2 DEF Request
  <2>2. req' = [req EXCEPT ![r] = x]
    BY <1>5 DEF IInv, TypeOK
  <2> HIDE DEF x
  <2>3. SourceOK(x)
    BY <2>1 DEF SourceOK
  <2> QED
    BY <1>1, <2>2, <2>3, ReadMoves
<1> QED
  BY <1>3, <1>4, <1>5 DEF ConfirmNext, PaidAtStripe, Newest

LEMMA CaptureBacked ==
    ASSUME IInv, IInv', BackingInv, NEW r \in Requests, CaptureOrder(r)
    PROVE  BackingInv'
<1> DEFINE settle(o) == [Idle EXCEPT !.op = "capture", !.step = "settle", !.txn = o,
                                     !.ref = o, !.amt = pay[o].amount]
           fail(o) == [Idle EXCEPT !.op = "capture", !.step = "fail", !.txn = o]
<1>1. PICK o \in Orders :
         /\ \/ req' = [req EXCEPT ![r] = settle(o)]
            \/ req' = [req EXCEPT ![r] = fail(o)]
         /\ UNCHANGED <<pay, session>>
  BY DEF CaptureOrder, Start, records
<1>2. PaidStay
  BY <1>1, SameRowsBacked
<1>3. o \in Providers /\ o \notin Sessions /\ Exists(o)
  BY ProviderTxns, TxnsAssumption DEF IInv, RowsOK
<1>4. SourceOK(settle(o))
  BY <1>3 DEF Idle, SourceOK, CreditingOK
<1>5. SourceOK(fail(o))
  BY <1>3 DEF Idle, SourceOK
<1> HIDE DEF settle, fail
<1> QED
  BY <1>1, <1>2, <1>4, <1>5, ReadMoves

(***************************************************************************)
(* A provider's row that is marked FAILED or REFUNDED.                     *)
(***************************************************************************)
LEMMA MarkedBacked ==
    ASSUME IInv, IInv', BackingInv, NEW r \in Requests, WriteFailed(r) \/ CommitRefund(r)
    PROVE  BackingInv'
<1> DEFINE t == req[r].txn
<1>1. PICK st \in {"FAILED", "REFUNDED"} : pay' = [pay EXCEPT ![t].status = st]
  BY DEF WriteFailed, CommitRefund
<1>2. /\ t \in Txns /\ t \in Providers /\ Exists(t)
      /\ CommitRefund(r) => req[r].op = "hook"
      /\ UNCHANGED session
  BY ProviderTxns
     DEF IInv, RequestOK, BackingInv, SourceOK, WriteFailed, CommitRefund, Exists, provider
<1>3. RowsStay /\ NoCredit
  BY <1>1, <1>2, MarkedRow
<1>4. \E x \in Request : req' = [req EXCEPT ![r] = x] /\ SourceOK(x) /\ x.step # "hook"
  BY <1>2, <1>3, AfterSource DEF WriteFailed, CommitRefund
<1> HIDE DEF t
<1>5. ASSUME NEW u \in Txns
      PROVE  /\ pay'[u].amount = pay[u].amount
             /\ pay'[u].status = IF u = t THEN st ELSE pay[u].status
  BY <1>1, <1>2 DEF IInv, TypeOK, Row, RowStatuses
<1>6. AmountsStay /\ NewRowsCover
  BY <1>2, <1>5, ProviderTxns DEF AmountsStay, NewRowsCover, Exists
<1>7. ManualsStay
  BY <1>2, <1>5, ProviderTxns DEF ManualsStay, Completed
<1>8. PaidStay
  BY <1>2 DEF PaidStay
<1> QED
  BY <1>3, <1>4, <1>6, <1>7, <1>8, WriteBacked

(***************************************************************************)
(* Webhooks.  A payment intent completes a row of the amount that was paid.*)
(***************************************************************************)
LEMMA ReceiveBacked ==
    ASSUME IInv, IInv', BackingInv, NEW r \in Requests, ReceiveEvent(r)
    PROVE  BackingInv'
<1> DEFINE x(e) == [Idle EXCEPT !.op = "hook", !.step = "hook", !.event = e]
<1>1. PICK e \in Events :
         /\ Sent(e)
         /\ req' = [req EXCEPT ![r] = x(e)]
         /\ UNCHANGED <<pay, session>>
  BY DEF ReceiveEvent, Start, records, provider
<1>2. PaidStay
  BY <1>1, SameRowsBacked
<1>3. e.kind \in {"session_completed", "intent_succeeded"} => session[e.txn] = "paid"
  BY <1>1 DEF Sent
<1>4. SourceOK(x(e))
  BY <1>3 DEF Idle, SourceOK
<1> HIDE DEF x
<1> QED
  BY <1>1, <1>2, <1>4, ReadMoves

\* A webhook that moves to a step which relies on nothing, or on a row.
LEMMA GotoBacked ==
    ASSUME IInv, IInv', BackingInv, NEW r \in Requests, UNCHANGED <<pay, session>>,
           \/ Goto(r, "mark")
           \/ \E step \in {"fail", "refundLock"}, t \in Providers :
                 /\ step = "refundLock" => t \in Orders
                 /\ req' = [req EXCEPT ![r].step = step, ![r].txn = t]
           \/ \E seen, sum :
                 /\ req[r].step = "refundLock"
                 /\ req' = [req EXCEPT ![r].step = "refund", ![r].seen = seen, ![r].sum = sum]
    PROVE  BackingInv'
<1>1. PaidStay
  BY SameRowsBacked
<1>2. req[r] \in Request /\ SourceOK(req[r])
  BY DEF IInv, TypeOK, BackingInv
<1>3. CASE Goto(r, "mark")
  <2> DEFINE x == [req[r] EXCEPT !.step = "mark"]
  <2>1. req' = [req EXCEPT ![r] = x] /\ x.step = "mark"
    BY <1>2, <1>3 DEF Goto, Request, IInv, TypeOK
  <2> HIDE DEF x
  <2>2. SourceOK(x)
    BY <2>1 DEF SourceOK
  <2> QED
    BY <1>1, <2>1, <2>2, ReadMoves
<1>4. ASSUME NEW step \in {"fail", "refundLock"}, NEW t \in Providers,
             step = "refundLock" => t \in Orders,
             req' = [req EXCEPT ![r].step = step, ![r].txn = t]
      PROVE  BackingInv'
  <2> DEFINE x == [req[r] EXCEPT !.step = step, !.txn = t]
  <2>1. req' = [req EXCEPT ![r] = x] /\ x.step = step /\ x.txn = t
    BY <1>2, <1>4 DEF Request, IInv, TypeOK
  <2> HIDE DEF x
  <2>2. SourceOK(x)
    BY <1>4, <2>1 DEF SourceOK
  <2> QED
    BY <1>1, <2>1, <2>2, ReadMoves
<1>5. ASSUME NEW seen, NEW sum, req[r].step = "refundLock",
             req' = [req EXCEPT ![r].step = "refund", ![r].seen = seen, ![r].sum = sum]
      PROVE  BackingInv'
  <2> DEFINE x == [req[r] EXCEPT !.step = "refund", !.seen = seen, !.sum = sum]
  <2>1. req' = [req EXCEPT ![r] = x] /\ x.step = "refund" /\ x.txn = req[r].txn
    BY <1>2, <1>5 DEF Request, IInv, TypeOK
  <2>2. req[r].txn \in Orders
    BY <1>2, <1>5 DEF SourceOK
  <2> HIDE DEF x
  <2>3. SourceOK(x)
    BY <2>1, <2>2 DEF SourceOK
  <2> QED
    BY <1>1, <2>1, <2>3, ReadMoves
<1> QED
  BY <1>3, <1>4, <1>5

LEMMA HookRestBacked ==
    ASSUME IInv, IInv', BackingInv, NEW r \in Requests,
           HookFails(r) \/ FindRefunded(r) \/ ReadForRefund(r)
    PROVE  BackingInv'
<1>1. UNCHANGED <<pay, session>>
  BY DEF HookFails, FindRefunded, ReadForRefund, records, provider
<1>2. Goto(r, "mark") => BackingInv'
  BY <1>1, GotoBacked
<1>3. ASSUME HookFails(r) \/ FindRefunded(r)
      PROVE  req[r].event \in Events /\ req[r].event.txn \in Providers
  <2>1. req[r].event \in Events
    BY <1>3 DEF HookFails, FindRefunded, Hook, IInv, RequestOK
  <2> QED
    BY <2>1, ProviderTxns DEF Events, StripeEvents, PayPalEvents
<1>4. CASE HookFails(r) /\ ~Goto(r, "mark")
  <2>1. PICK t \in Subject(req[r].event) :
          req' = [req EXCEPT ![r].step = "fail", ![r].txn = t]
    BY <1>4 DEF HookFails
  <2>2. t \in Providers
    BY <1>3, <1>4, ProviderTxns DEF Subject, Newest
  <2> QED
    BY <1>1, <2>1, <2>2, GotoBacked
<1>5. CASE FindRefunded(r) /\ ~Goto(r, "mark")
  <2>1. req' = [req EXCEPT ![r].step = "refundLock", ![r].txn = req[r].event.txn]
    BY <1>5 DEF FindRefunded
  <2>2. req[r].event.txn \in Orders
    BY <1>3, <1>5 DEF FindRefunded, Hook, Events, StripeEvents, PayPalEvents
  <2> QED
    BY <1>1, <1>3, <1>5, <2>1, <2>2, GotoBacked
<1>6. CASE ReadForRefund(r)
  BY <1>1, <1>6, GotoBacked DEF ReadForRefund
<1> QED
  BY <1>2, <1>4, <1>5, <1>6

LEMMA HookSettlesBacked ==
    ASSUME IInv, IInv', BackingInv, NEW r \in Requests, HookSettles(r)
    PROVE  BackingInv'
<1> DEFINE e == req[r].event
<1>1. /\ req[r] \in Request /\ e \in Events /\ Exists(e.txn) /\ req[r].op = "hook"
      /\ req[r].step = "hook" /\ SourceOK(req[r])
      /\ e.kind \in {"session_completed", "intent_succeeded", "capture_completed"}
      /\ UNCHANGED <<pay, session>>
  BY DEF IInv, TypeOK, HookSettles, Hook, RequestOK, BackingInv, records, provider
<1>2. CASE Goto(r, "mark")
  BY <1>1, <1>2, GotoBacked
<1>3. CASE ~Goto(r, "mark")
  <2>1. PICK t \in Subject(e) :
          /\ pay[t].amount = pay[e.txn].amount
          /\ req' = [req EXCEPT ![r].step = "settle", ![r].txn = t, ![r].ref = e.txn,
                                ![r].amt = pay[t].amount]
    BY <1>3 DEF HookSettles
  <2> DEFINE x == [req[r] EXCEPT !.step = "settle", !.txn = t, !.ref = e.txn,
                                 !.amt = pay[t].amount]
  <2>2. x.step = "settle" /\ x.txn = t /\ x.amt = pay[t].amount
    BY <1>1 DEF Request
  <2>3. req' = [req EXCEPT ![r] = x]
    BY <2>1 DEF IInv, TypeOK
  <2> HIDE DEF x
  <2>4. t \in Providers /\ Exists(t)
    <3>1. e.txn \in Providers
      BY <1>1, ProviderTxns DEF Events, StripeEvents, PayPalEvents
    <3>2. t = e.txn \/ t \in Pending \cap Sessions
      BY <2>1 DEF Subject, Newest
    <3> QED
      BY <1>1, <3>1, <3>2, ProviderTxns DEF Exists, Pending
  <2>5. ASSUME t \in Sessions
        PROVE  Backed(pay[t].amount)
    <3>1. e \in StripeEvents
      <4>1. CASE e \in PayPalEvents
        <5>1. e.kind = "capture_completed" /\ e.txn \in Orders
          BY <1>1, <4>1 DEF PayPalEvents
        <5>2. t = e.txn
          BY <2>1, <5>1 DEF Subject
        <5> QED
          BY <2>5, <5>1, <5>2, TxnsAssumption
      <4> QED
        BY <1>1, <4>1 DEF Events
    <3>2. e.txn \in Sessions /\ e.kind \in {"session_completed", "intent_succeeded"}
      BY <1>1, <3>1 DEF StripeEvents
    <3>3. session[e.txn] = "paid"
      BY <1>1, <3>2 DEF SourceOK
    <3> QED
      BY <2>1, <3>2, <3>3 DEF Backed
  <2>6. CreditingOK(x)
    BY <2>2, <2>4, <2>5 DEF CreditingOK, Backed
  <2>7. SourceOK(x)
    BY <2>2, <2>6 DEF SourceOK
  <2> QED
    BY <1>1, <2>3, <2>7, SameRowsBacked, ReadMoves
<1> QED
  BY <1>2, <1>3

(***************************************************************************)
(* CommitSettlement adds one amount to what is paid.                       *)
(***************************************************************************)
LEMMA CommitPays ==
    ASSUME IInv, NEW r \in Requests, CommitSettlement(r)
    PROVE  /\ Paid \in Nat
           /\ Paid' = Paid + req[r].amt
           /\ Paid + req[r].amt <= amountPaid'
           /\ amountPaid' <= Total
           /\ Paid < Total
           /\ \A u \in Completed : Amount'[u] = Amount[u]
<1> DEFINE t == req[r].txn
<1>1. CommitFacts(r)
  BY CommitReads
<1>2. /\ t \in Txns /\ req[r].amt \in Nat \ {0} /\ req[r].sum \in Nat
      /\ SumOf(Amount, Completed \ {t}) <= req[r].sum
      /\ req[r].sum + req[r].amt <= Total
      /\ t \notin Completed
  BY <1>1 DEF CommitFacts, SettlingOK, LockedSumOK, Request, Completed
<1>3. Completed \ {t} = Completed
  BY <1>2
<1>4. IsFiniteSet(Completed) /\ Completed \in SUBSET Txns /\ Paid \in Nat
  BY PaidNat DEF IInv, Paid
<1>5. \A u \in Completed : Amount'[u] = Amount[u] /\ Amount'[u] \in Nat
  BY <1>2, <1>4, CommitRows, PaidNat DEF IInv, Amount
<1>6. Amount'[t] = req[r].amt /\ Completed' = Completed \cup {t}
  BY <1>2, CommitRows DEF Amount
<1>7. amountPaid' = req[r].sum + req[r].amt
  BY DEF CommitSettlement, NextPaid
<1> HIDE DEF t
<1>8. SumOf(Amount', Completed) = Paid
  BY <1>5, SumSame DEF Paid
<1>9. SumOf(Amount', Completed \cup {t}) = SumOf(Amount', Completed) + Amount'[t]
  <2>1. \A u \in Completed \cup {t} : Amount'[u] \in Nat
    BY <1>2, <1>5, <1>6
  <2> QED
    BY <2>1, <1>2, <1>4, SumAdd
<1>10. Paid' = Paid + req[r].amt
  BY <1>6, <1>8, <1>9 DEF Paid
<1>11. Paid <= req[r].sum
  BY <1>2, <1>3 DEF Paid
<1> QED
  BY <1>2, <1>4, <1>5, <1>7, <1>10, <1>11, TotalAssumption

LEMMA CommitBacked ==
    ASSUME IInv, IInv', BackingInv, NEW r \in Requests, CommitSettlement(r)
    PROVE  BackingInv'
<1> DEFINE t == req[r].txn
           amt == req[r].amt
<1>1. /\ CommitFacts(r) /\ t \in Txns /\ amt \in Nat
      /\ req[r].step = "commit" /\ SourceOK(req[r])
      /\ UNCHANGED session
  BY CommitReads DEF CommitFacts, SettlingOK, Request, CommitSettlement, provider, BackingInv
<1>2. /\ RowsStay
      /\ Completed' = Completed \cup {t}
      /\ \A u \in Txns \ {t} : /\ pay'[u].amount = pay[u].amount
                               /\ pay'[u].status # "NONE" => pay[u].status # "NONE"
      /\ pay'[t].amount = amt /\ pay'[t].status = "COMPLETED"
  BY <1>1, CommitRows
<1>3. /\ Paid \in Nat /\ Paid' = Paid + amt /\ Paid' <= Total
      /\ Completed \subseteq Manuals /\ Paid = ManualPaid
      /\ \A u \in Completed : Amount'[u] = Amount[u]
  BY CommitPays, UnpaidIsManual DEF IInv, NoOverpayment
<1>4. PICK x \in Request : req' = [req EXCEPT ![r] = x] /\ SourceOK(x) /\ x.step # "hook"
  BY <1>2, AfterSource DEF CommitSettlement
<1>5. PaidStay
  BY <1>1 DEF PaidStay
<1>6. CASE req[r].op = "manual"
  <2>1. t \in Manuals /\ pay[t].status = "NONE"
    BY <1>1, <1>6 DEF CommitFacts, SettlingOK, IsManual
  <2> HIDE DEF t, amt
  <2>2. Completed' \cap Manuals = Completed' /\ Completed' \cap Providers = {}
    BY <1>2, <1>3, <2>1, ProviderTxns
  <2>3. ManualPaid' = Paid'
    BY <2>2 DEF ManualPaid, Paid
  <2>4. ManualsGrow
    BY <1>1, <1>3, <2>3 DEF ManualsGrow
  <2>5. AmountsStay
    BY <1>2, <2>1 DEF AmountsStay, Exists
  <2>6. Steady
    BY <1>2, <1>5, <2>4, <2>5 DEF Steady
  <2>7. RowsCover'
    <3> SUFFICES ASSUME NEW u \in Providers, Exists(u)'
                 PROVE  CoversRest(pay[u].amount)'
      BY DEF RowsCover
    <3>1. u # t /\ u \in Txns
      BY <2>1, ProviderTxns
    <3>2. Exists(u) /\ pay'[u].amount = pay[u].amount
      BY <1>2, <3>1 DEF Exists
    <3>3. CoversRest(pay[u].amount) /\ pay[u].amount \in Nat
      BY <3>1, <3>2 DEF BackingInv, RowsCover, IInv, TypeOK, Row
    <3> QED
      BY <2>4, <3>2, <3>3, TotalAssumption DEF CoversRest, ManualsGrow
  <2>8. OneProviderPayment'
    BY <2>2 DEF OneProviderPayment
  <2> QED
    BY <1>4, <2>6, <2>7, <2>8, MovesBacked
<1>7. CASE req[r].op # "manual"
  <2>1. /\ t \in Providers /\ Exists(t) /\ amt = pay[t].amount
        /\ t \in Sessions => Backed(amt)
    BY <1>1, <1>7 DEF SourceOK, CreditingOK
  <2>2. Total <= Paid + amt
    BY <1>3, <2>1 DEF BackingInv, RowsCover, CoversRest
  <2> HIDE DEF t, amt
  <2>3. Paid' = Total
    BY <1>1, <1>3, <2>2, TotalAssumption
  <2>4. Completed' \cap Manuals = Completed /\ Completed' \cap Providers = {t}
    BY <1>2, <1>3, <2>1, ProviderTxns
  <2>5. ManualPaid' = ManualPaid
    <3>1. SumOf(Amount', Completed) = SumOf(Amount, Completed)
      BY <1>3, SumSame
    <3> QED
      BY <1>3, <2>4, <3>1 DEF ManualPaid, Paid
  <2>6. ManualsGrow
    BY <1>3, <2>5 DEF ManualsGrow
  <2>7. AmountsStay /\ NewRowsCover
    BY <1>2, <2>1, ProviderTxns DEF AmountsStay, NewRowsCover, Exists
  <2>8. Steady
    BY <1>2, <1>5, <2>6, <2>7 DEF Steady
  <2>9. RowsCover'
    BY <2>5, <2>7, <2>8, RowsStillCover
  <2>10. ASSUME t \in Sessions
         PROVE  \E s \in Sessions : session'[s] = "paid" /\ pay'[s].amount = amt
    <3>1. PICK a : a = amt
      OBVIOUS
    <3>2. Backed(a)
      BY <2>1, <2>10, <3>1 DEF Backed
    <3>3. Backed(a)'
      BY <2>8, <3>2, BackedStays
    <3> QED
      BY <3>1, <3>3 DEF Backed
  <2>11. OneProviderPayment'
    BY <1>2, <2>3, <2>4, <2>10 DEF OneProviderPayment, Backed
  <2> QED
    BY <1>4, <2>8, <2>9, <2>11, MovesBacked
<1> QED
  BY <1>6, <1>7

(***************************************************************************)
(* The providers' own moves, a stutter, and the beginning.                 *)
(***************************************************************************)
LEMMA ProviderBacked ==
    ASSUME IInv, BackingInv, UNCHANGED <<pay, req>>, PaidStay
    PROVE  BackingInv'
<1>1. Steady /\ RowsCover' /\ OneProviderPayment'
  BY SameRowsBacked, NoCreditBacked
<1>2. \A g \in Requests : SourceOK(req[g])'
  BY <1>1, SourcesStay
<1> QED
  BY <1>1, <1>2 DEF BackingInv

LEMMA InitBacked == Init => BackingInv /\ CheckoutsApart
<1> SUFFICES ASSUME Init PROVE BackingInv /\ CheckoutsApart
  OBVIOUS
<1>1. \A r \in Requests : req[r] = Idle
  BY DEF Init
<1>2. CheckoutsApart /\ \A r \in Requests : SourceOK(req[r])
  BY <1>1 DEF CheckoutsApart, Opening, SourceOK, Idle
<1>3. Completed = {}
  BY DEF Init, Completed, NoRow
<1>4. OneProviderPayment
  BY <1>3 DEF OneProviderPayment
<1>5. ManualPaid = 0
  <2>1. Completed \cap Manuals = {}
    BY <1>3
  <2> QED
    BY <2>1, SumEmpty DEF ManualPaid
<1>6. RowsCover
  BY <1>5, ProviderTxns, TotalAssumption DEF Init, NoRow, RowsCover, CoversRest, Exists
<1> QED
  BY <1>2, <1>4, <1>6 DEF BackingInv

LEMMA NextBacked ==
    ASSUME IInv, IInv', BackingInv, CheckoutsApart, [Next]_vars
    PROVE  BackingInv'
<1>1. ASSUME NEW r \in Requests,
             \/ RecordManualPayment(r) \/ Settle(r) \/ CaptureOrder(r)
             \/ WriteFailed(r) \/ StatusOnly(r) \/ Crash(r)
      PROVE  BackingInv'
  BY <1>1, BeginBacked, CommitBacked, CaptureBacked, MarkedBacked, StartBacked, RestBacked
     DEF Settle, StatusOnly
<1>2. ASSUME NEW r \in Requests, Stripe(r)
      PROVE  BackingInv'
  BY <1>2, CheckoutBacked, SupersedeBacked, OpenBacked, StartBacked, ConfirmNextBacked DEF Stripe
<1>3. ASSUME NEW r \in Requests, Webhook(r)
      PROVE  BackingInv'
  BY <1>3, ReceiveBacked, HookSettlesBacked, HookRestBacked, MarkedBacked, RestBacked DEF Webhook
<1>4. ASSUME NEW s \in Sessions, CustomerPays(s)
      PROVE  BackingInv'
  <2>1. UNCHANGED <<pay, req>> /\ PaidStay
    BY <1>4 DEF CustomerPays, records, PaidStay, IInv, TypeOK
  <2> QED
    BY <2>1, ProviderBacked
<1>5. CASE UNCHANGED <<pay, req, session>>
  BY <1>5, ProviderBacked DEF PaidStay
<1> QED
  BY <1>1, <1>2, <1>3, <1>4, <1>5 DEF Next, vars, PayPalMoves, records

LEMMA BackingHolds == Spec => [](IInv /\ BackingInv /\ CheckoutsApart)
<1>1. Init => IInv /\ BackingInv /\ CheckoutsApart
  BY InitOK, InitBacked
<1>2. IInv /\ BackingInv /\ CheckoutsApart /\ [Next]_vars
        => (IInv /\ BackingInv /\ CheckoutsApart)'
  BY NextStep, NextBacked, NextApart
<1> QED
  BY <1>1, <1>2, PTL DEF Spec

(***************************************************************************)
(* Stripe sessions are credited with no more than customers paid there:    *)
(* one payment of a provider is COMPLETED at most, and one of its amount   *)
(* was paid (handleStripeSucceededIntent takes the newest PENDING row).    *)
(***************************************************************************)
THEOREM CreditsAreBacked == Spec => []StripeCreditsBacked
<1>1. ASSUME IInv, BackingInv
      PROVE  StripeCreditsBacked
  <2> DEFINE P == {s \in Sessions : session[s] = "paid"}
             C == Completed \cap Sessions
  <2>1. /\ P \in SUBSET Txns /\ IsFiniteSet(P) /\ SumOf(Amount, P) \in Nat
        /\ \A s \in P : Amount[s] \in Nat
    BY <1>1, PaidNat, ProviderTxns DEF IInv
  <2>2. CASE C = {}
    BY <2>1, <2>2, SumEmpty DEF StripeCreditsBacked
  <2>3. CASE C # {}
    <3>1. PICK t \in C : TRUE
      BY <2>3
    <3>2. C = {t} /\ Backed(pay[t].amount)
      BY <1>1, <3>1, ProviderTxns DEF BackingInv, OneProviderPayment
    <3>3. PICK s \in P : Amount[s] = Amount[t]
      BY <3>1, <3>2, ProviderTxns DEF Backed, Amount, Completed
    <3> HIDE DEF P
    <3>4. SumOf(Amount, {s}) <= SumOf(Amount, P)
      BY <2>1, <3>3, SumMono
    <3>5. SumOf(Amount, {s}) = Amount[s] /\ SumOf(Amount, {t}) = Amount[t]
      <4>1. Amount[s] \in Nat /\ Amount[t] \in Nat
        BY <2>1, <3>3
      <4> QED
        BY <4>1, SumOne
    <3> QED
      BY <3>2, <3>3, <3>4, <3>5 DEF StripeCreditsBacked, P
  <2> QED
    BY <2>2, <2>3
<1> QED
  BY <1>1, BackingHolds, PTL

(***************************************************************************)
(* The stored amount and the rows.  Only the settling transaction raises   *)
(* what is paid, and it stores no less.                                    *)
(***************************************************************************)
LEMMA NoCreditCovers ==
    ASSUME IInv, StoredAmountCoversRows, NoCredit, UNCHANGED amountPaid
    PROVE  StoredAmountCoversRows'
<1>1. /\ SumOf(Amount', Completed' \ {}) \in Nat
      /\ SumOf(Amount, Completed \ {}) \in Nat
      /\ SumOf(Amount', Completed' \ {}) <= SumOf(Amount, Completed \ {})
  BY NoCreditShrinks DEF IInv
<1>2. Completed' \ {} = Completed' /\ Completed \ {} = Completed
  OBVIOUS
<1> QED
  BY <1>1, <1>2 DEF StoredAmountCoversRows, Paid, IInv, TypeOK

LEMMA NextCovers ==
    ASSUME IInv, BackingInv, StoredAmountCoversRows, [Next]_vars, ~Refunding
    PROVE  StoredAmountCoversRows'
<1>1. ASSUME NEW r \in Requests, CommitSettlement(r)
      PROVE  StoredAmountCoversRows'
  <2>1. Paid' = Paid + req[r].amt /\ Paid + req[r].amt <= amountPaid'
    BY <1>1, CommitPays
  <2> QED
    BY <2>1 DEF StoredAmountCoversRows
<1>2. ASSUME NEW r \in Requests, WriteFailed(r)
      PROVE  NoCredit /\ UNCHANGED amountPaid
  <2>1. req[r].txn \in Txns /\ Exists(req[r].txn)
    BY <1>2 DEF WriteFailed, IInv, RequestOK, Exists
  <2> QED
    BY <1>2, <2>1, MarkedRow DEF WriteFailed, invoice
<1>3. ASSUME NEW r \in Requests, SupersedePending(r)
      PROVE  NoCredit /\ UNCHANGED amountPaid
  <2>1. \A u \in Txns : pay'[u] = pay[u] \/ pay'[u] = [pay[u] EXCEPT !.status = "CANCELLED"]
    BY <1>3 DEF SupersedePending
  <2>2. \A u \in Txns : pay[u] \in Row
    BY DEF IInv, TypeOK
  <2>3. \A u \in Completed' : pay'[u] = pay[u]
    BY <2>1, <2>2 DEF Completed, Row
  <2> QED
    BY <1>3, <2>3 DEF SupersedePending, NoCredit, Completed, invoice
<1>4. ASSUME NEW r \in Requests, OpenPayment(r)
      PROVE  NoCredit /\ UNCHANGED amountPaid
  <2>1. pay \in [Txns -> Row]
    BY DEF IInv, TypeOK
  <2>2. \A u \in Completed' : pay'[u] = pay[u]
    BY <1>4, <2>1 DEF OpenPayment, Completed
  <2> QED
    BY <1>4, <2>2 DEF OpenPayment, NoCredit, Completed, invoice
<1>5. ASSUME NEW r \in Requests,
             \/ Settle(r) \/ Stripe(r) \/ Webhook(r) \/ StatusOnly(r)
             \/ RecordManualPayment(r) \/ CaptureOrder(r) \/ WriteFailed(r) \/ Crash(r),
             ~CommitSettlement(r), ~WriteFailed(r), ~SupersedePending(r), ~OpenPayment(r)
      PROVE  UNCHANGED <<pay, amountPaid>>
  <2>1. ~CommitRefund(r)
    BY DEF Refunding
  <2>2. CASE Settle(r) \/ RecordManualPayment(r) \/ CaptureOrder(r) \/ Crash(r)
    BY <1>5, <2>2 DEF Settle, BeginSettlement, AbortSettlement, RecordManualPayment,
                      CaptureOrder, Crash, invoice, records
  <2>3. CASE Stripe(r)
    BY <1>5, <2>3 DEF Stripe, CreateCheckout, ConfirmCheckout, ConfirmNext, invoice, records
  <2>4. CASE Webhook(r)
    BY <1>5, <2>1, <2>4 DEF Webhook, ReceiveEvent, HookSettles, HookFails, MarkEvent,
                            FindRefunded, ReadForRefund, AbortRefund, invoice, records
  <2>5. CASE StatusOnly(r)
    BY <1>5, <2>5 DEF StatusOnly, ReadToCancel, CancelInvoice, ReadToView, ViewInvoice,
                      invoice, records
  <2> QED
    BY <1>5, <2>2, <2>3, <2>4, <2>5
<1>6. UNCHANGED <<pay, amountPaid>> => NoCredit /\ UNCHANGED amountPaid
  BY DEF NoCredit, Completed
<1>7. CASE \/ \E s \in Sessions : CustomerPays(s)
           \/ \E o \in Orders : PayPalMoves(o)
           \/ UNCHANGED vars
  BY <1>6, <1>7, NoCreditCovers DEF CustomerPays, PayPalMoves, vars, invoice, records
<1> QED
  BY <1>1, <1>2, <1>3, <1>4, <1>5, <1>6, <1>7, NoCreditCovers DEF Next

(***************************************************************************)
(* As long as no refund commits, no settling transaction loses the effect  *)
(* of another one on the stored amount.                                    *)
(***************************************************************************)
THEOREM StoredCoversUntilRefund ==
    Spec /\ [][~Refunding]_vars => []StoredAmountCoversRows
<1>1. Init => StoredAmountCoversRows
  <2> SUFFICES ASSUME Init PROVE StoredAmountCoversRows
    OBVIOUS
  <2>1. Completed = {} /\ amountPaid = 0
    BY DEF Init, Completed, NoRow
  <2> QED
    BY <2>1, SumEmpty DEF StoredAmountCoversRows, Paid
<1>2. IInv /\ BackingInv /\ StoredAmountCoversRows /\ [Next]_vars /\ [~Refunding]_vars
        => StoredAmountCoversRows'
  <2>1. CASE UNCHANGED vars
    <3>1. UNCHANGED <<pay, amountPaid>>
      BY <2>1 DEF vars
    <3> QED
      BY <3>1 DEF StoredAmountCoversRows, Paid, Amount, Completed
  <2>2. CASE ~Refunding
    BY <2>2, NextCovers
  <2> QED
    BY <2>1, <2>2
<1> QED
  BY <1>1, <1>2, BackingHolds, PTL DEF Spec

(***************************************************************************)
(* Only orders of PayPal are refunded: with the providers of today the     *)
(* stored amount always covers the rows.                                   *)
(***************************************************************************)
THEOREM StoredCoversRows ==
    ASSUME Orders = {}
    PROVE  Spec => []StoredAmountCoversRows
<1>1. BackingInv => ~Refunding
  BY DEF BackingInv, SourceOK, Refunding, CommitRefund
<1> QED
  BY <1>1, BackingHolds, StoredCoversUntilRefund, PTL

-----------------------------------------------------------------------------
(***************************************************************************)
(* What the ledger has credited is what the COMPLETED rows hold.           *)
(***************************************************************************)
LEMMA CreditedIsPaid ==
    ASSUME TypeOK
    PROVE  SumOf(credited, Txns) = SumOf(Amount, Completed)
<1>1. Completed \in SUBSET Txns
  BY DEF Completed
<1>2. \A t \in Txns \ Completed : credited[t] = 0
  BY DEF credited, Completed
<1>3. \A t \in Completed : credited[t] = Amount[t]
  BY DEF credited, Completed, Amount
<1>4. SumOf(credited, Txns) = SumOf(credited, Completed)
  BY <1>1, <1>2, SumWithoutZeros
<1>5. SumOf(credited, Completed) = SumOf(Amount, Completed)
  BY <1>3, SumSame
<1> QED
  BY <1>4, <1>5

(***************************************************************************)
(* Steps the ledger does not see.                                          *)
(***************************************************************************)
LEMMA Unseen ==
    ASSUME UNCHANGED entries,
           \A t \in Txns : /\ pay'[t].status = "COMPLETED" <=> pay[t].status = "COMPLETED"
                           /\ pay[t].status = "COMPLETED" => pay'[t].amount = pay[t].amount
    PROVE  UNCHANGED Ledger!ledger
<1>1. credited' = credited
  BY DEF credited
<1>2. captured' = captured
  BY DEF captured
<1> QED
  BY <1>1, <1>2 DEF Ledger!ledger

(***************************************************************************)
(* CommitSettlement is a credit.                                           *)
(***************************************************************************)
LEMMA CommitCredits ==
    ASSUME IInv, NEW r \in Requests, CommitSettlement(r)
    PROVE  Ledger!Credit(req[r].txn, req[r].amt, req[r].ref)
           /\ req[r].txn \in Txns /\ req[r].amt \in 1 .. Total /\ req[r].ref \in Txns
<1> DEFINE t == req[r].txn
           a == req[r].amt
<1>1. CommitFacts(r) /\ TypeOK
  BY CommitReads DEF IInv
<1>2. /\ t \in Txns /\ req[r].ref \in Txns /\ a \in Nat \ {0} /\ req[r].sum \in Nat
      /\ SumOf(Amount, Completed \ {t}) <= req[r].sum /\ req[r].sum + a <= Total
      /\ t \notin Completed
  BY <1>1 DEF CommitFacts, SettlingOK, LockedSumOK, Request, Completed
<1>3. Completed \ {t} = Completed
  BY <1>2
<1>4. SumOf(credited, Txns) + a <= Total
  <2>1. SumOf(Amount, Completed) \in Nat
    BY <1>1, PaidNat
  <2> QED
    BY <1>1, <1>2, <1>3, <2>1, CreditedIsPaid, TotalAssumption
<1>5. credited[t] = 0
  BY <1>2 DEF credited, Completed
<1>6. credited' = [credited EXCEPT ![t] = a]
  <2>1. /\ Completed' = Completed \cup {t}
        /\ \A u \in Txns : pay'[u].amount = IF u = t THEN a ELSE pay[u].amount
        /\ pay'[t].status = "COMPLETED"
    BY CommitRows
  <2>2. credited'[t] = a
    BY <1>2, <2>1 DEF credited
  <2>3. ASSUME NEW u \in Txns \ {t}
        PROVE  credited'[u] = credited[u]
    <3>1. u \in Completed' <=> u \in Completed
      BY <2>1
    <3> QED
      BY <3>1, <2>1 DEF credited, Completed
  <2>4. credited' = [u \in Txns |-> credited'[u]] /\ credited = [u \in Txns |-> credited[u]]
    BY DEF credited
  <2> HIDE DEF t, a
  <2> QED
    BY <1>2, <2>2, <2>3, <2>4
<1>7. captured' = captured \cup {req[r].ref}
  <2>1. CASE Logged(r)
    BY <2>1 DEF CommitSettlement, Logged, captured
  <2>2. CASE ~Logged(r)
    <3>1. entries' = entries \cup {NewEntry(r)} /\ NewEntry(r).ref = req[r].ref
      BY <2>2 DEF CommitSettlement, NewEntry
    <3> QED
      BY <3>1 DEF captured
  <2> QED
    BY <2>1, <2>2
<1>8. a \in 1 .. Total
  BY <1>2, TotalAssumption
<1>9. Ledger!SumOf(credited, Txns) = SumOf(credited, Txns)
  BY DEF Ledger!SumOf, Ledger!Units, Ledger!UnitsOf, Ledger!Cardinality, SumOf, Units, UnitsOf,
         Cardinality
<1> QED
  BY <1>2, <1>4, <1>5, <1>6, <1>7, <1>8, <1>9 DEF Ledger!Credit

(***************************************************************************)
(* A row that is marked FAILED or REFUNDED takes a credit back, if any.    *)
(***************************************************************************)
LEMMA MarkTakesBack ==
    ASSUME IInv, NEW t \in Txns, NEW st \in {"FAILED", "REFUNDED"},
           pay' = [pay EXCEPT ![t].status = st], UNCHANGED entries
    PROVE  Ledger!TakeBack(t) \/ UNCHANGED Ledger!ledger
<1>1. pay \in [Txns -> Row] /\ RowsOK
  BY DEF IInv, TypeOK
<1>2. pay'[t].status = st /\ \A u \in Txns \ {t} : pay'[u] = pay[u]
  BY <1>1 DEF Row
<1>3. CASE pay[t].status = "COMPLETED"
  <2>1. credited[t] > 0
    BY <1>1, <1>3 DEF credited, RowsOK, Exists
  <2>2. credited' = [credited EXCEPT ![t] = 0]
    <3>1. credited'[t] = 0
      BY <1>2 DEF credited
    <3>2. \A u \in Txns \ {t} : credited'[u] = credited[u]
      BY <1>2 DEF credited
    <3>3. credited' = [u \in Txns |-> credited'[u]] /\ credited = [u \in Txns |-> credited[u]]
      BY DEF credited
    <3> QED
      BY <3>1, <3>2, <3>3
  <2>3. captured' = captured
    BY DEF captured
  <2> QED
    BY <2>1, <2>2, <2>3 DEF Ledger!TakeBack
<1>4. CASE pay[t].status # "COMPLETED"
  BY <1>2, <1>4, Unseen
<1> QED
  BY <1>3, <1>4

(***************************************************************************)
(* The two steps of a checkout touch rows that are not COMPLETED.          *)
(***************************************************************************)
LEMMA CheckoutUnseen ==
    ASSUME IInv, NEW r \in Requests, SupersedePending(r) \/ OpenPayment(r)
    PROVE  UNCHANGED Ledger!ledger
<1>1. pay \in [Txns -> Row]
  BY DEF IInv, TypeOK
<1>2. CASE SupersedePending(r)
  <2>1. UNCHANGED entries
    BY <1>2 DEF SupersedePending
  <2>2. ASSUME NEW u \in Txns
        PROVE  /\ pay'[u].status = "COMPLETED" <=> pay[u].status = "COMPLETED"
               /\ pay[u].status = "COMPLETED" => pay'[u].amount = pay[u].amount
    <3>1. CASE pay'[u] = pay[u]
      BY <3>1
    <3>2. CASE u \in Pending /\ pay'[u] = [pay[u] EXCEPT !.status = "CANCELLED"]
      BY <1>1, <3>2 DEF Pending, Row
    <3> QED
      BY <1>2, <3>1, <3>2 DEF SupersedePending
  <2> QED
    BY <2>1, <2>2, Unseen
<1>3. CASE OpenPayment(r)
  <2>1. UNCHANGED entries
    BY <1>3 DEF OpenPayment
  <2>2. ASSUME NEW u \in Txns
        PROVE  /\ pay'[u].status = "COMPLETED" <=> pay[u].status = "COMPLETED"
               /\ pay[u].status = "COMPLETED" => pay'[u].amount = pay[u].amount
    <3>1. CASE pay'[u] = pay[u]
      BY <3>1
    <3>2. CASE pay[u].status = "NONE" /\ pay'[u].status = "PENDING"
      BY <3>2
    <3> QED
      BY <1>1, <1>3, <3>1, <3>2 DEF OpenPayment
  <2> QED
    BY <2>1, <2>2, Unseen
<1> QED
  BY <1>2, <1>3

(***************************************************************************)
(* Every step of Settlement is a step of the ledger, or none.              *)
(***************************************************************************)
LEMMA LedgerStep == IInv /\ [Next]_vars => [Ledger!Next]_(Ledger!ledger)
<1> SUFFICES ASSUME IInv, [Next]_vars
             PROVE  Ledger!Next \/ UNCHANGED Ledger!ledger
  OBVIOUS
<1>1. CASE UNCHANGED <<pay, entries>>
  BY <1>1, Unseen
<1>2. ASSUME NEW r \in Requests, CommitSettlement(r) PROVE Ledger!Next
  BY <1>2, CommitCredits DEF Ledger!Next
<1>3. ASSUME NEW r \in Requests, WriteFailed(r) \/ CommitRefund(r)
      PROVE  Ledger!Next \/ UNCHANGED Ledger!ledger
  <2>1. req[r].txn \in Txns /\ UNCHANGED entries
    BY <1>3 DEF IInv, RequestOK, Exists, WriteFailed, CommitRefund
  <2>2. \E st \in {"FAILED", "REFUNDED"} : pay' = [pay EXCEPT ![req[r].txn].status = st]
    BY <1>3 DEF WriteFailed, CommitRefund
  <2> QED
    BY <2>1, <2>2, MarkTakesBack DEF Ledger!Next
<1>4. ASSUME NEW r \in Requests, SupersedePending(r) \/ OpenPayment(r)
      PROVE  UNCHANGED Ledger!ledger
  BY <1>4, CheckoutUnseen
<1>5. ASSUME NEW r \in Requests,
             \/ RecordManualPayment(r) \/ BeginSettlement(r) \/ AbortSettlement(r)
             \/ CreateCheckout(r) \/ ConfirmCheckout(r) \/ ConfirmNext(r) \/ CaptureOrder(r)
             \/ ReceiveEvent(r) \/ HookSettles(r) \/ HookFails(r) \/ FindRefunded(r)
             \/ ReadForRefund(r) \/ AbortRefund(r) \/ MarkEvent(r)
             \/ StatusOnly(r) \/ Crash(r)
      PROVE  UNCHANGED <<pay, entries>>
  BY <1>5 DEF RecordManualPayment, BeginSettlement, AbortSettlement, CreateCheckout,
       ConfirmCheckout, ConfirmNext, CaptureOrder, ReceiveEvent, HookSettles, HookFails,
       FindRefunded, ReadForRefund, AbortRefund, MarkEvent, StatusOnly, ReadToCancel,
       CancelInvoice, ReadToView, ViewInvoice, Crash, records
<1>6. CASE \/ \E s \in Sessions : CustomerPays(s)
           \/ \E o \in Orders : PayPalMoves(o)
  BY <1>6, <1>1 DEF CustomerPays, PayPalMoves, records
<1>7. CASE UNCHANGED vars
  BY <1>7, <1>1 DEF vars
<1>8. ASSUME NEW r \in Requests,
             \/ RecordManualPayment(r) \/ Settle(r) \/ Stripe(r) \/ CaptureOrder(r)
             \/ WriteFailed(r) \/ Webhook(r) \/ StatusOnly(r) \/ Crash(r)
      PROVE  Ledger!Next \/ UNCHANGED Ledger!ledger
  BY <1>1, <1>2, <1>3, <1>4, <1>5, <1>8 DEF Settle, Stripe, Webhook
<1> QED
  BY <1>6, <1>7, <1>8 DEF Next

(***************************************************************************)
(* Before the first request nothing is credited.                           *)
(***************************************************************************)
LEMMA LedgerInit == Init => Ledger!Init
<1> SUFFICES ASSUME Init PROVE Ledger!Init
  OBVIOUS
<1>1. \A t \in Txns : pay[t].status # "COMPLETED"
  BY DEF Init, NoRow
<1>2. credited = [t \in Txns |-> 0]
  BY <1>1 DEF credited
<1>3. captured = {}
  BY DEF Init, captured
<1> QED
  BY <1>2, <1>3 DEF Ledger!Init

(***************************************************************************)
(* The handlers, with their transactions, locks and webhooks, do what the  *)
(* ledger promises: credits are atomic, fit the balance when they are      *)
(* made, and are only ever taken back whole.                               *)
(***************************************************************************)
THEOREM SettlementRefinesLedger == Spec => ImplementsLedger
BY LedgerInit, LedgerStep, Invariance, PTL DEF Spec, ImplementsLedger, Ledger!Spec

=============================================================================
