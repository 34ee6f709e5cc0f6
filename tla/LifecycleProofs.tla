-------------------------- MODULE LifecycleProofs --------------------------
(***************************************************************************)
(* InvoiceLifecycle keeps LifecycleInvariant, for any number of invoices,  *)
(* requests, lines and numbers.                                            *)
(***************************************************************************)
EXTENDS LifecycleInvariant, TLAPS

LEMMA BegunType ==
    ASSUME NEW s \in Steps, NEW i \in Invoices \cup {Nil}, NEW n \in Numbers,
           NEW l \in Lines \cup {Nil}, NEW d \in BOOLEAN
    PROVE  Begun(s, i, n, l, d) \in Req
BY DEF Begun, Req

LEMMA IdleType == Idle \in Req
BY LifecycleAssumption DEF Idle, Begun, Req, Steps, Numbers

(***************************************************************************)
(* What a step of one request does to the rest.                            *)
(***************************************************************************)
LEMMA GotoType ==
    ASSUME TypeOK, NEW r \in Requests, NEW s \in Steps, NEW o \in SUBSET Lines, Goto(r, s, o)
    PROVE  /\ req' \in [Requests -> Req]
           /\ req'[r].step = s /\ req'[r].old = o
           /\ req'[r].invoice = req[r].invoice /\ req'[r].lines = req[r].lines
           /\ \A q \in Requests \ {r} : req'[q] = req[q]
<1> DEFINE new == [step |-> s, invoice |-> req[r].invoice, number |-> req[r].number,
                   lines |-> req[r].lines, old |-> o, draft |-> req[r].draft]
<1>1. req[r] \in Req
  BY DEF TypeOK
<1>2. new \in Req
  BY <1>1 DEF Req
<1>3. req' = [req EXCEPT ![r] = new]
  BY DEF Goto
<1>4. req'[r] = new /\ \A q \in Requests \ {r} : req'[q] = req[q]
  BY <1>3 DEF TypeOK
<1>5. req' \in [Requests -> Req]
  BY <1>2, <1>3 DEF TypeOK
<1> QED BY <1>4, <1>5

LEMMA BeginType ==
    ASSUME TypeOK, NEW r \in Requests, NEW s \in Steps, NEW i \in Invoices \cup {Nil},
           NEW n \in Numbers, NEW l \in Lines \cup {Nil}, NEW d \in BOOLEAN,
           Begin(r, s, i, n, l, d)
    PROVE  /\ req' \in [Requests -> Req]
           /\ req'[r].step = s /\ req'[r].invoice = i /\ req'[r].lines = l
           /\ \A q \in Requests \ {r} : req'[q] = req[q]
<1>1. Begun(s, i, n, l, d) \in Req
  BY BegunType
<1>2. req' = [req EXCEPT ![r] = Begun(s, i, n, l, d)]
  BY DEF Begin
<1>3. req' \in [Requests -> Req] /\ req'[r] = Begun(s, i, n, l, d)
      /\ \A q \in Requests \ {r} : req'[q] = req[q]
  BY <1>1, <1>2 DEF TypeOK
<1> QED BY <1>3 DEF Begun

LEMMA DoneType ==
    ASSUME TypeOK, NEW r \in Requests, Done(r)
    PROVE  /\ req' \in [Requests -> Req]
           /\ req'[r] = Idle /\ req'[r].step = "idle"
           /\ \A q \in Requests \ {r} : req'[q] = req[q]
<1>1. req' = [req EXCEPT ![r] = Idle]
  BY DEF Done
<1>2. req' \in [Requests -> Req] /\ req'[r] = Idle
      /\ \A q \in Requests \ {r} : req'[q] = req[q]
  BY <1>1, IdleType DEF TypeOK
<1>3. Idle.step = "idle"
  BY DEF Idle, Begun
<1> QED BY <1>2, <1>3

(***************************************************************************)
(* A step that writes no row.                                              *)
(***************************************************************************)
LEMMA SameRows ==
    ASSUME IInv, UNCHANGED <<row, items, paid>>, rowLock' \in [Invoices -> Requests \cup {Nil}],
           req' \in [Requests -> Req], StepsOK', DeletesAlone'
    PROVE  IInv'
BY DEF IInv, TypeOK, TotalsHaveLines, NoOrphanLines, PaidInvoiceStays, NumbersDiffer,
       Exists, NumberFree

\* One request that is no deletion moves on; the deletions stay what they are.
LEMMA OneMoves ==
    ASSUME IInv, UNCHANGED <<row, items, paid, rowLock>>, NEW r \in Requests,
           req' \in [Requests -> Req],
           req'[r].step \notin {"cascade", "remove"},
           req'[r].step \notin {"idle", "insert"} => req'[r].invoice \in Invoices,
           req'[r].step = "insert" => req'[r].lines \in Lines,
           \A q \in Requests \ {r} : req'[q] = req[q]
    PROVE  IInv'
<1>1. StepsOK'
  BY DEF IInv, StepsOK, At, Inv
<1>2. DeletesAlone'
  BY DEF IInv, DeletesAlone, At, Inv, Exists
<1> QED BY <1>1, <1>2, SameRows DEF IInv, TypeOK

\* One request ends, and no deletion loses its lock by that.
LEMMA OthersStay ==
    ASSUME IInv, NEW r \in Requests, Done(r)
    PROVE  /\ req' \in [Requests -> Req] /\ StepsOK'
           /\ req'[r].step = "idle"
           /\ \A q \in Requests \ {r} : req'[q] = req[q]
<1>1. req' \in [Requests -> Req] /\ req'[r].step = "idle"
      /\ \A q \in Requests \ {r} : req'[q] = req[q]
  BY DoneType DEF IInv
<1>2. StepsOK'
  BY <1>1 DEF IInv, StepsOK, At, Inv
<1> QED BY <1>1, <1>2

(***************************************************************************)
(* A step that only changes the status of an invoice that is there.        *)
(***************************************************************************)
LEMMA StatusChanges ==
    ASSUME IInv, NEW i \in Invoices, Exists(i), NEW s \in Stored,
           row' = [row EXCEPT ![i].status = s], UNCHANGED <<items, paid, rowLock>>,
           req' \in [Requests -> Req], StepsOK',
           \A q \in Requests : req'[q] = req[q] \/ req'[q].step = "idle"
    PROVE  IInv'
<1>1. row' \in [Invoices -> Row]
  BY DEF IInv, TypeOK, Row
<1>2. \A j \in Invoices : /\ Exists(j)' = Exists(j)
                          /\ row'[j].number = row[j].number
                          /\ row'[j].totals = row[j].totals
  BY DEF IInv, TypeOK, Row, Exists
<1>3. DeletesAlone'
  <2>1. \A r \in Requests : req'[r].step \in {"cascade", "remove"} => req'[r] = req[r]
    OBVIOUS
  <2>2. \A r \in Requests : req[r].step \in {"cascade", "remove"} => Inv(r) \in Invoices
    BY DEF IInv, StepsOK
  <2> QED BY <1>2, <2>1, <2>2 DEF IInv, DeletesAlone, At, Inv
<1>4. TotalsHaveLines' /\ NoOrphanLines'
  BY <1>2 DEF IInv, TotalsHaveLines, NoOrphanLines
<1>5. PaidInvoiceStays'
  BY <1>2 DEF IInv, PaidInvoiceStays, TypeOK
<1>6. NumbersDiffer'
  BY <1>2 DEF IInv, NumbersDiffer
<1> QED BY <1>1, <1>3, <1>4, <1>5, <1>6 DEF IInv, TypeOK

(***************************************************************************)
(* The requests.                                                           *)
(***************************************************************************)
LEMMA BeginKeeps ==
    ASSUME IInv, NEW r \in Requests, NEW s \in Steps, NEW i \in Invoices \cup {Nil},
           NEW n \in Numbers, NEW l \in Lines \cup {Nil}, NEW d \in BOOLEAN,
           Begin(r, s, i, n, l, d), UNCHANGED <<row, items, paid, rowLock>>,
           s \notin {"cascade", "remove"}, s # "insert" => i \in Invoices,
           s = "insert" => l \in Lines
    PROVE  IInv'
<1>1. /\ req' \in [Requests -> Req]
      /\ req'[r].step = s /\ req'[r].invoice = i /\ req'[r].lines = l
      /\ \A q \in Requests \ {r} : req'[q] = req[q]
  BY BeginType DEF IInv
<1> QED BY <1>1, OneMoves

LEMMA ReadsKeep ==
    ASSUME IInv, NEW r \in Requests,
           \/ ChooseNumber(r) \/ ReadToEdit(r) \/ ReadToDelete(r) \/ ReadToSend(r)
           \/ ReadToCancel(r)
    PROVE  IInv'
<1>1. 0 \in Numbers /\ {"insert", "save", "delete", "issue", "cancel"} \subseteq Steps
  BY LifecycleAssumption DEF Numbers, Steps
<1>2. CASE ChooseNumber(r)
  <2>1. PICK n \in Numbers \ {0}, l \in Lines : Begin(r, "insert", Nil, n, l, FALSE)
    BY <1>2 DEF ChooseNumber
  <2>2. UNCHANGED <<row, items, paid, rowLock>>
    BY <1>2 DEF ChooseNumber
  <2> QED BY <1>1, <2>1, <2>2, BeginKeeps
<1>3. CASE ReadToEdit(r)
  <2>1. PICK i \in Invoices, n \in Numbers, l \in Lines \cup {Nil} : Begin(r, "save", i, n, l, FALSE)
    BY <1>3 DEF ReadToEdit
  <2>2. UNCHANGED <<row, items, paid, rowLock>>
    BY <1>3 DEF ReadToEdit
  <2> QED BY <1>1, <2>1, <2>2, BeginKeeps
<1>4. CASE ReadToDelete(r)
  <2>1. PICK i \in Invoices : Begin(r, "delete", i, 0, Nil, FALSE)
    BY <1>4 DEF ReadToDelete
  <2>2. UNCHANGED <<row, items, paid, rowLock>>
    BY <1>4 DEF ReadToDelete
  <2> QED BY <1>1, <2>1, <2>2, BeginKeeps
<1>5. CASE ReadToSend(r)
  <2>1. PICK i \in Invoices : Begin(r, "issue", i, 0, Nil, row[i].status = "DRAFT")
    BY <1>5 DEF ReadToSend
  <2>2. UNCHANGED <<row, items, paid, rowLock>>
    BY <1>5 DEF ReadToSend
  <2>3. (row[i].status = "DRAFT") \in BOOLEAN
    OBVIOUS
  <2> QED BY <1>1, <2>1, <2>2, <2>3, BeginKeeps
<1>6. CASE ReadToCancel(r)
  <2>1. PICK i \in Invoices : Begin(r, "cancel", i, 0, Nil, FALSE)
    BY <1>6 DEF ReadToCancel
  <2>2. UNCHANGED <<row, items, paid, rowLock>>
    BY <1>6 DEF ReadToCancel
  <2> QED BY <1>1, <2>1, <2>2, BeginKeeps
<1> QED BY <1>2, <1>3, <1>4, <1>5, <1>6

LEMMA InsertKeeps ==
    ASSUME IInv, NEW r \in Requests, InsertInvoice(r)
    PROVE  IInv'
<1>1. PICK i \in Invoices :
          /\ row[i].status = "NONE"
          /\ IndexAllows(i, req[r].number)
          /\ row' = [row EXCEPT ![i] = [status |-> "DRAFT", number |-> req[r].number,
                                        totals |-> req[r].lines]]
          /\ items' = [items EXCEPT ![i] = {req[r].lines}]
  BY DEF InsertInvoice
<1>2. Done(r) /\ UNCHANGED <<paid, rowLock>> /\ At(r, "insert")
  BY DEF InsertInvoice
<1>3. req[r].lines \in Lines /\ req[r].number \in Numbers
  BY <1>2 DEF IInv, StepsOK, TypeOK, Req
<1>4. ~Exists(i) /\ Exists(i)'
  BY <1>1 DEF Exists, Stored, IInv, TypeOK
<1>5. row'[i].number = req[r].number /\ row'[i].totals = req[r].lines
      /\ items'[i] = {req[r].lines}
  BY <1>1 DEF IInv, TypeOK
<1>6. \A j \in Invoices \ {i} : row'[j] = row[j] /\ items'[j] = items[j]
  BY <1>1 DEF IInv, TypeOK
<1>7. row' \in [Invoices -> Row] /\ items' \in [Invoices -> SUBSET Lines]
  BY <1>1, <1>3 DEF IInv, TypeOK, Row, Stored
<1>8. DeletesAlone'
  <2>1. \A q \in Requests : req'[q].step \in {"cascade", "remove"} => req'[q] = req[q]
    BY <1>2, OthersStay
  <2>2. \A q \in Requests : req[q].step \in {"cascade", "remove"} =>
           Inv(q) \in Invoices /\ Exists(Inv(q)) /\ Inv(q) # i
    BY <1>4 DEF IInv, StepsOK, DeletesAlone
  <2> QED BY <1>2, <1>6, <2>1, <2>2 DEF IInv, DeletesAlone, At, Inv, Exists
<1>9. TotalsHaveLines' /\ NoOrphanLines'
  BY <1>4, <1>5, <1>6 DEF IInv, TotalsHaveLines, NoOrphanLines, Exists
<1>10. PaidInvoiceStays'
  BY <1>2, <1>4, <1>6 DEF IInv, PaidInvoiceStays, Exists, TypeOK
<1>11. NumbersDiffer'
  BY <1>1, <1>5, <1>6 DEF IInv, NumbersDiffer, IndexAllows, NumberFree, Exists
<1>12. StepsOK' /\ req' \in [Requests -> Req]
  BY <1>2, OthersStay
<1> QED BY <1>2, <1>7, <1>8, <1>9, <1>10, <1>11, <1>12 DEF IInv, TypeOK

LEMMA EditKeeps ==
    ASSUME IInv, NEW r \in Requests, FindLines(r) \/ LockLines(r) \/ CommitEdit(r)
    PROVE  IInv'
<1>1. TypeOK /\ req[r] \in Req
  BY DEF IInv, TypeOK
<1>2. CASE FindLines(r)
  <2> DEFINE o == IF req[r].lines = Nil THEN {} ELSE items[Inv(r)]
  <2>1. At(r, "save") /\ Inv(r) \in Invoices
    BY <1>2 DEF FindLines, IInv, StepsOK, At
  <2>2. o \in SUBSET Lines /\ "replace" \in Steps
    BY <1>1, <2>1 DEF TypeOK, Steps
  <2>3. Goto(r, "replace", o) /\ UNCHANGED <<row, items, paid, rowLock>>
    BY <1>2 DEF FindLines
  <2> QED BY <1>1, <2>1, <2>2, <2>3, GotoType, OneMoves DEF Inv
<1>3. CASE LockLines(r)
  <2>1. At(r, "replace") /\ Inv(r) \in Invoices
    BY <1>3 DEF LockLines, IInv, StepsOK, At
  <2>2. (req[r].old \cap items[Inv(r)]) \in SUBSET Lines /\ "commit" \in Steps
    BY <1>1, <2>1 DEF TypeOK, Steps
  <2>3. Goto(r, "commit", req[r].old \cap items[Inv(r)]) /\ UNCHANGED <<row, items, paid, rowLock>>
    BY <1>3 DEF LockLines
  <2> QED BY <1>1, <2>1, <2>2, <2>3, GotoType, OneMoves DEF Inv
<1>4. CASE CommitEdit(r)
  <2> DEFINE i == Inv(r)
             num == IF req[r].number = 0 THEN row[i].number ELSE req[r].number
             tot == IF req[r].lines = Nil THEN row[i].totals ELSE req[r].lines
             new == [status |-> row[i].status, number |-> num, totals |-> tot]
  <2>1. At(r, "commit") /\ i \in Invoices
    BY <1>4 DEF CommitEdit, IInv, StepsOK, At
  <2>2. RowFree(i) /\ Exists(i) /\ IndexAllows(i, req[r].number)
    BY <1>4 DEF CommitEdit, Savable
  <2>3. row' = [row EXCEPT ![i] = new]
    BY <1>4 DEF CommitEdit
  <2>4. row[i] \in Row
    BY <1>1, <2>1 DEF TypeOK
  <2>5. new \in Row
    BY <1>1, <2>4 DEF Row, Req
  <2>6. row' \in [Invoices -> Row]
    BY <1>1, <2>3, <2>5 DEF TypeOK
  <2>7. row'[i] = new /\ \A j \in Invoices \ {i} : row'[j] = row[j]
    BY <1>1, <2>1, <2>3 DEF TypeOK
  <2>8. row'[i].status = row[i].status /\ row'[i].number = num /\ row'[i].totals = tot
    BY <2>7
  <2>9. \A j \in Invoices : Exists(j)' = Exists(j)
    BY <2>7, <2>8 DEF Exists
  <2>10. items' \in [Invoices -> SUBSET Lines] /\ \A j \in Invoices \ {i} : items'[j] = items[j]
    BY <1>1, <1>4, <2>1 DEF CommitEdit, TypeOK, LinesAfter, Left, Req
  <2>11. tot \in items'[i]
    <3>1. CASE req[r].lines = Nil
      BY <1>1, <1>4, <2>1, <2>2, <3>1 DEF CommitEdit, LinesAfter, IInv, TypeOK, TotalsHaveLines
    <3>2. CASE req[r].lines # Nil
      BY <1>1, <1>4, <2>1, <3>2 DEF CommitEdit, LinesAfter, Left, TypeOK
    <3> QED BY <3>1, <3>2
  <2>12. TotalsHaveLines'
    BY <2>7, <2>8, <2>9, <2>10, <2>11 DEF IInv, TotalsHaveLines
  <2>13. NoOrphanLines'
    BY <2>2, <2>9, <2>10 DEF IInv, NoOrphanLines
  <2>14. NumbersDiffer'
    <3>1. \A j \in Invoices \ {i} : Exists(j) => row[j].number # num
      BY <2>1, <2>2 DEF IndexAllows, NumberFree, IInv, NumbersDiffer
    <3> HIDE DEF num, new
    <3> QED BY <2>7, <2>8, <2>9, <3>1 DEF IInv, NumbersDiffer
  <2>15. Done(r) /\ UNCHANGED <<paid, rowLock>>
    BY <1>4 DEF CommitEdit
  <2>16. PaidInvoiceStays'
    BY <2>9, <2>15 DEF IInv, PaidInvoiceStays, TypeOK
  <2>17. DeletesAlone'
    <3>1. \A q \in Requests : req'[q].step \in {"cascade", "remove"} => req'[q] = req[q]
      BY <2>15, OthersStay
    <3>2. \A q \in Requests : req[q].step \in {"cascade", "remove"} =>
             Inv(q) \in Invoices /\ rowLock[Inv(q)] = q
      BY DEF IInv, StepsOK, DeletesAlone
    <3>3. \A q \in Requests : req[q].step \in {"cascade", "remove"} => Inv(q) # i
      BY <2>2, <3>2, LifecycleAssumption DEF RowFree
    <3> HIDE DEF i
    <3> QED BY <2>9, <2>10, <2>15, <3>1, <3>2, <3>3 DEF IInv, DeletesAlone, At, Inv
  <2>18. StepsOK' /\ req' \in [Requests -> Req]
    BY <2>15, OthersStay
  <2> QED BY <1>1, <2>6, <2>10, <2>12, <2>13, <2>14, <2>15, <2>16, <2>17, <2>18 DEF IInv, TypeOK
<1> QED BY <1>2, <1>3, <1>4

LEMMA StatusKeeps ==
    ASSUME IInv, NEW r \in Requests, Issue(r) \/ CancelInvoice(r)
    PROVE  IInv'
<1>1. CASE Issue(r)
  <2> DEFINE s == IF req[r].draft THEN "SENT" ELSE row[Inv(r)].status
  <2>1. Inv(r) \in Invoices /\ Exists(Inv(r))
    BY <1>1 DEF Issue, IInv, StepsOK, At
  <2>2. s \in Stored
    BY <2>1 DEF Exists, Stored
  <2>3. row' = [row EXCEPT ![Inv(r)].status = s] /\ Done(r) /\ UNCHANGED <<items, paid, rowLock>>
    BY <1>1 DEF Issue
  <2>4. req' \in [Requests -> Req] /\ StepsOK'
        /\ \A q \in Requests : req'[q] = req[q] \/ req'[q].step = "idle"
    BY <2>3, OthersStay
  <2> HIDE DEF s
  <2> QED BY <2>1, <2>2, <2>3, <2>4, StatusChanges
<1>2. CASE CancelInvoice(r)
  <2>1. Inv(r) \in Invoices /\ Exists(Inv(r))
    BY <1>2 DEF CancelInvoice, IInv, StepsOK, At
  <2>2. row' = [row EXCEPT ![Inv(r)].status = "CANCELLED"] /\ Done(r)
        /\ UNCHANGED <<items, paid, rowLock>>
    BY <1>2 DEF CancelInvoice
  <2>3. req' \in [Requests -> Req] /\ StepsOK'
        /\ \A q \in Requests : req'[q] = req[q] \/ req'[q].step = "idle"
    BY <2>2, OthersStay
  <2> QED BY <2>1, <2>2, <2>3, StatusChanges DEF Stored
<1> QED BY <1>1, <1>2

LEMMA PaymentsKeep ==
    ASSUME IInv, NEW i \in Invoices, InsertPayment(i) \/ Settle(i)
    PROVE  IInv'
<1>1. CASE InsertPayment(i)
  <2>1. Exists(i) /\ RowFree(i) /\ paid' = paid \cup {i} /\ UNCHANGED <<row, items, rowLock, req>>
    BY <1>1 DEF InsertPayment, Exists
  <2>2. \A r \in Requests : At(r, "remove") => Inv(r) # i
    BY <2>1, LifecycleAssumption DEF IInv, DeletesAlone, RowFree, At
  <2>3. DeletesAlone'
    BY <2>1, <2>2 DEF IInv, DeletesAlone, At, Inv, Exists
  <2>4. PaidInvoiceStays'
    BY <2>1 DEF IInv, PaidInvoiceStays, Exists
  <2> QED BY <2>1, <2>3, <2>4 DEF IInv, TypeOK, StepsOK, At, Inv, TotalsHaveLines,
             NoOrphanLines, NumbersDiffer, Exists
<1>2. CASE Settle(i)
  <2>1. Exists(i) /\ row' = [row EXCEPT ![i].status = "PAID"]
        /\ UNCHANGED <<items, paid, rowLock, req>>
    BY <1>2 DEF Settle, Exists, Stored
  <2>2. StepsOK' /\ req' \in [Requests -> Req]
    BY <2>1 DEF IInv, StepsOK, TypeOK, At, Inv
  <2> QED BY <2>1, <2>2, StatusChanges DEF Stored
<1> QED BY <1>1, <1>2

LEMMA DeleteKeeps ==
    ASSUME IInv, NEW r \in Requests, LockToDelete(r) \/ Cascade(r) \/ CommitDelete(r)
    PROVE  IInv'
<1>1. TypeOK /\ req[r] \in Req
  BY DEF IInv, TypeOK
<1>2. CASE LockToDelete(r)
  <2>1. Inv(r) \in Invoices /\ Exists(Inv(r)) /\ RowFree(Inv(r))
    BY <1>2 DEF LockToDelete, IInv, StepsOK, At
  <2>2. Goto(r, "cascade", {}) /\ rowLock' = [rowLock EXCEPT ![Inv(r)] = r]
        /\ UNCHANGED <<row, items, paid>>
    BY <1>2 DEF LockToDelete
  <2>3. "cascade" \in Steps /\ {} \in SUBSET Lines
    BY DEF Steps
  <2>4. /\ req' \in [Requests -> Req] /\ req'[r].step = "cascade"
        /\ req'[r].invoice = req[r].invoice /\ \A q \in Requests \ {r} : req'[q] = req[q]
    BY <1>1, <2>2, <2>3, GotoType
  <2>5. rowLock' \in [Invoices -> Requests \cup {Nil}] /\ rowLock'[Inv(r)] = r
        /\ \A j \in Invoices \ {Inv(r)} : rowLock'[j] = rowLock[j]
    BY <1>1, <2>1, <2>2 DEF TypeOK
  <2>6. StepsOK'
    BY <2>1, <2>4 DEF IInv, StepsOK, At, Inv
  <2>7. \A q \in Requests \ {r} : req[q].step \in {"cascade", "remove"} => Inv(q) # Inv(r)
    BY <2>1, LifecycleAssumption DEF IInv, DeletesAlone, RowFree
  <2>8. DeletesAlone'
    <3>1. \A q \in Requests \ {r} : req[q].step \in {"cascade", "remove"} =>
             rowLock'[Inv(q)] = q /\ Exists(Inv(q))
      BY <2>5, <2>7 DEF IInv, DeletesAlone, StepsOK
    <3> QED BY <2>1, <2>2, <2>4, <2>5, <3>1 DEF IInv, DeletesAlone, At, Inv, Exists
  <2> QED BY <2>2, <2>4, <2>5, <2>6, <2>8, SameRows
<1>3. CASE Cascade(r)
  <2>1. At(r, "cascade") /\ Inv(r) \in Invoices /\ Inv(r) \notin paid
    BY <1>3 DEF Cascade, Restricted, IInv, StepsOK, At
  <2>2. Goto(r, "remove", items[Inv(r)]) /\ UNCHANGED <<row, items, paid, rowLock>>
    BY <1>3 DEF Cascade, Cascaded
  <2>3. "remove" \in Steps /\ items[Inv(r)] \in SUBSET Lines
    BY <1>1, <2>1 DEF Steps, TypeOK
  <2>4. /\ req' \in [Requests -> Req] /\ req'[r].step = "remove" /\ req'[r].old = items[Inv(r)]
        /\ req'[r].invoice = req[r].invoice /\ \A q \in Requests \ {r} : req'[q] = req[q]
    BY <1>1, <2>2, <2>3, GotoType
  <2>5. StepsOK'
    BY <2>1, <2>4 DEF IInv, StepsOK, At, Inv
  <2>6. DeletesAlone'
    BY <2>1, <2>2, <2>4 DEF IInv, DeletesAlone, At, Inv, Exists
  <2> QED BY <1>1, <2>2, <2>4, <2>5, <2>6, SameRows DEF TypeOK
<1>4. CASE CommitDelete(r)
  <2>0. PICK i \in Invoices : i = Inv(r)
    BY <1>4 DEF CommitDelete, IInv, StepsOK, At
  <2>1. At(r, "remove") /\ rowLock[i] = r /\ i \notin paid /\ items[i] \subseteq req[r].old
    BY <1>4, <2>0 DEF CommitDelete, IInv, DeletesAlone, At
  <2>2. Done(r) /\ UNCHANGED paid
    BY <1>4 DEF CommitDelete
  <2>3. row' = [row EXCEPT ![i].status = "DELETED"] /\ rowLock' = [rowLock EXCEPT ![i] = Nil]
        /\ items' = [items EXCEPT ![i] = items[i] \ req[r].old]
    BY <1>4, <2>0 DEF CommitDelete
  <2>4. row' \in [Invoices -> Row] /\ ~Exists(i)'
        /\ \A j \in Invoices \ {i} : row'[j] = row[j]
    BY <1>1, <2>1, <2>3 DEF TypeOK, Row, Exists, Stored
  <2>5. items' \in [Invoices -> SUBSET Lines] /\ items'[i] = {}
        /\ \A j \in Invoices \ {i} : items'[j] = items[j]
    BY <1>1, <2>1, <2>3 DEF TypeOK
  <2>6. rowLock' \in [Invoices -> Requests \cup {Nil}]
        /\ \A j \in Invoices \ {i} : rowLock'[j] = rowLock[j]
    BY <1>1, <2>1, <2>3 DEF TypeOK
  <2>7. req' \in [Requests -> Req] /\ StepsOK' /\ req'[r].step = "idle"
        /\ \A q \in Requests \ {r} : req'[q] = req[q]
    BY <2>2, OthersStay
  <2>8. \A q \in Requests \ {r} : req[q].step \in {"cascade", "remove"} =>
           Inv(q) \in Invoices \ {i}
    BY <2>0, <2>1 DEF IInv, StepsOK, DeletesAlone
  <2>9. DeletesAlone'
    BY <2>2, <2>4, <2>5, <2>6, <2>7, <2>8 DEF IInv, DeletesAlone, At, Inv, Exists
  <2>10. TotalsHaveLines' /\ NoOrphanLines'
    BY <2>4, <2>5 DEF IInv, TotalsHaveLines, NoOrphanLines, Exists
  <2>11. PaidInvoiceStays'
    BY <1>1, <2>1, <2>2, <2>4 DEF IInv, PaidInvoiceStays, Exists, TypeOK
  <2>12. NumbersDiffer'
    BY <2>4 DEF IInv, NumbersDiffer, Exists
  <2> QED BY <1>1, <2>2, <2>4, <2>5, <2>6, <2>7, <2>9, <2>10, <2>11, <2>12 DEF IInv, TypeOK
<1> QED BY <1>2, <1>3, <1>4

LEMMA FailKeeps ==
    ASSUME IInv, NEW r \in Requests, Fail(r)
    PROVE  IInv'
<1>1. Done(r) /\ UNCHANGED <<row, items, paid>>
      /\ rowLock' = [i \in Invoices |-> IF rowLock[i] = r THEN Nil ELSE rowLock[i]]
  BY DEF Fail
<1>2. rowLock' \in [Invoices -> Requests \cup {Nil}]
      /\ \A i \in Invoices : rowLock[i] # r => rowLock'[i] = rowLock[i]
  BY <1>1 DEF IInv, TypeOK
<1>3. req' \in [Requests -> Req] /\ StepsOK' /\ req'[r].step = "idle"
      /\ \A q \in Requests \ {r} : req'[q] = req[q]
  BY <1>1, OthersStay
<1>4. DeletesAlone'
  <2>1. \A q \in Requests \ {r} : req[q].step \in {"cascade", "remove"} =>
           rowLock'[Inv(q)] = q
    BY <1>2 DEF IInv, DeletesAlone, StepsOK
  <2> QED BY <1>1, <1>3, <2>1 DEF IInv, DeletesAlone, At, Inv, Exists
<1> QED BY <1>1, <1>2, <1>3, <1>4, SameRows

-----------------------------------------------------------------------------
(***************************************************************************)
(* The lifecycle invariant holds: whatever requests overlap, in whatever   *)
(* order their statements reach the database.                              *)
(***************************************************************************)
THEOREM Invariance == Spec => []IInv
<1>1. Init => IInv
  <2> SUFFICES ASSUME Init PROVE IInv
    OBVIOUS
  <2>1. \A r \in Requests : req[r] = Idle /\ req[r].step = "idle"
    BY DEF Init, Idle, Begun
  <2>2. TypeOK
    BY IdleType, LifecycleAssumption DEF Init, TypeOK, Row, Numbers
  <2>3. StepsOK /\ DeletesAlone
    BY <2>1 DEF StepsOK, DeletesAlone, At
  <2>4. \A i \in Invoices : ~Exists(i) /\ items[i] = {}
    BY DEF Init, Exists, Stored
  <2>5. paid = {}
    BY DEF Init
  <2> QED BY <2>2, <2>3, <2>4, <2>5 DEF IInv, TotalsHaveLines, NoOrphanLines,
             PaidInvoiceStays, NumbersDiffer
<1>2. IInv /\ [Next]_vars => IInv'
  <2> SUFFICES ASSUME IInv, [Next]_vars PROVE IInv'
    OBVIOUS
  <2>1. ASSUME NEW r \in Requests,
               \/ ChooseNumber(r) \/ ReadToEdit(r) \/ ReadToDelete(r) \/ ReadToSend(r)
               \/ ReadToCancel(r)
        PROVE  IInv'
    BY <2>1, ReadsKeep
  <2>2. ASSUME NEW r \in Requests, InsertInvoice(r) PROVE IInv'
    BY <2>2, InsertKeeps
  <2>3. ASSUME NEW r \in Requests, FindLines(r) \/ LockLines(r) \/ CommitEdit(r) PROVE IInv'
    BY <2>3, EditKeeps
  <2>4. ASSUME NEW r \in Requests, LockToDelete(r) \/ Cascade(r) \/ CommitDelete(r) PROVE IInv'
    BY <2>4, DeleteKeeps
  <2>5. ASSUME NEW r \in Requests, Issue(r) \/ CancelInvoice(r) PROVE IInv'
    BY <2>5, StatusKeeps
  <2>6. ASSUME NEW r \in Requests, Fail(r) PROVE IInv'
    BY <2>6, FailKeeps
  <2>7. ASSUME NEW i \in Invoices, InsertPayment(i) \/ Settle(i) PROVE IInv'
    BY <2>7, PaymentsKeep
  <2>8. CASE UNCHANGED vars
    BY <2>8 DEF vars, IInv, TypeOK, StepsOK, DeletesAlone, TotalsHaveLines, NoOrphanLines,
             PaidInvoiceStays, NumbersDiffer, Exists, At, Inv
  <2> QED BY <2>1, <2>2, <2>3, <2>4, <2>5, <2>6, <2>7, <2>8 DEF Next, Edit, Delete
<1> QED BY <1>1, <1>2, PTL DEF Spec

\* Every variable keeps its type.
THEOREM TypeCorrect == Spec => []TypeOK
<1>1. IInv => TypeOK
  BY DEF IInv
<1> QED BY <1>1, Invariance, PTL

\* The lines of the edit that wrote the totals are stored with them.
THEOREM TotalsKeepTheirLines == Spec => []TotalsHaveLines
<1>1. IInv => TotalsHaveLines
  BY DEF IInv
<1> QED BY <1>1, Invariance, PTL

\* A deletion leaves no lines, and no edit that overlaps it writes any.
THEOREM NothingOrphaned == Spec => []NoOrphanLines
<1>1. IInv => NoOrphanLines
  BY DEF IInv
<1> QED BY <1>1, Invariance, PTL

\* No payment loses its invoice to a deletion that saw a draft.
THEOREM PaymentsKeepInvoice == Spec => []PaidInvoiceStays
<1>1. IInv => PaidInvoiceStays
  BY DEF IInv
<1> QED BY <1>1, Invariance, PTL

\* Of two creations that choose the same number one is refused.
THEOREM NumbersAlwaysDiffer == Spec => []NumbersDiffer
<1>1. IInv => NumbersDiffer
  BY DEF IInv
<1> QED BY <1>1, Invariance, PTL

=============================================================================
