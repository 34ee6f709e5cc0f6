---------------------------- MODULE OutboxProofs ----------------------------
(***************************************************************************)
(* InvoiceOutbox keeps IInv whatever fails, and LockKept while locks can be *)
(* relied on, for every number of events, requests, job slots and          *)
(* attempts.  An action changes the outbox row of one event or of none,    *)
(* the record of one handler, or what BullMQ and Redis keep: the first     *)
(* lemmas say what each kind of change leaves true, and one lemma per      *)
(* handler's step cites them.                                              *)
(***************************************************************************)
EXTENDS OutboxInvariant, TLAPS

(***************************************************************************)
(* Writing an active row that the index allows, or completing one, leaves  *)
(* at most one event active.                                               *)
(***************************************************************************)
LEMMA WriteRow ==
    ASSUME TypeOK, AtMostOneActive, NEW e \in Events, NEW row \in OutboxRow,
           outbox' = [outbox EXCEPT ![e] = row],
           IndexAllows(e) \/ row.status \notin ActiveStatuses
    PROVE  AtMostOneActive' /\ outbox' \in [Events -> OutboxRow]
<1>1. outbox' \in [Events -> OutboxRow]
  BY DEF TypeOK
<1>2. \A d \in Events \ {e} : outbox'[d] = outbox[d]
  BY DEF TypeOK
<1>3. outbox'[e] = row
  BY DEF TypeOK
<1>4. CASE IndexAllows(e)
  <2>1. Active' \subseteq {e}
    BY <1>2, <1>4 DEF IndexAllows, Active
  <2> QED
    BY <1>1, <2>1 DEF AtMostOneActive
<1>5. CASE row.status \notin ActiveStatuses
  <2>1. Active' \subseteq Active
    BY <1>2, <1>3, <1>5 DEF Active
  <2> QED
    BY <1>1, <2>1 DEF AtMostOneActive
<1> QED
  BY <1>4, <1>5

(***************************************************************************)
(* The same when only the row's status is set.                             *)
(***************************************************************************)
LEMMA SetStatus ==
    ASSUME TypeOK, AtMostOneActive, NEW e \in Events,
           NEW s \in ActiveStatuses \cup {"COMPLETED"}, Set(e, s),
           IndexAllows(e) \/ s = "COMPLETED"
    PROVE  AtMostOneActive' /\ outbox' \in [Events -> OutboxRow]
<1> DEFINE row == [status |-> s, available |-> outbox[e].available]
<1>1. row \in OutboxRow
  BY DEF TypeOK, OutboxRow
<1>2. outbox[e] \in OutboxRow
  BY DEF TypeOK
<1>3. [outbox[e] EXCEPT !.status = s] = row
  BY <1>2 DEF OutboxRow
<1>4. outbox' = [outbox EXCEPT ![e] = row]
  BY <1>3 DEF Set
<1>5. IndexAllows(e) \/ row.status \notin ActiveStatuses
  BY DEF ActiveStatuses
<1> QED
  BY <1>1, <1>4, <1>5, WriteRow

(***************************************************************************)
(* Rows that stay as they are stay allowed.                                *)
(***************************************************************************)
LEMMA SameRows ==
    ASSUME TypeOK, AtMostOneActive, UNCHANGED outbox
    PROVE  AtMostOneActive' /\ outbox' \in [Events -> OutboxRow]
BY DEF TypeOK, AtMostOneActive, Active

(***************************************************************************)
(* What remains to be shown of a step whose handler keeps its promises.    *)
(***************************************************************************)
TaskOK(x, h) ==
    /\ x \in Task
    /\ h \in Senders => x.step \in SenderSteps
    /\ h \in Senders /\ x.step \in {"enqueue", "mark"} => x.event \in Events
    /\ h \in Workers => x.step \in JobSteps
    /\ h \in Workers /\ x.step # "idle" => x.event \in Events

\* The rest of the state is of its type, and rows and mails are in order.
RestOK ==
    /\ status \in InvoiceStatuses
    /\ emailStatus \in {"NOT_SENT", "SENT", "FAILED"}
    /\ outbox \in [Events -> OutboxRow]
    /\ job \in [Events -> Job]
    /\ JobsOK
    /\ Lease!LockType
    /\ main \in Main
    /\ main.step = "mark" => main.event \in Events
    /\ mails \in [Events -> 0 .. 2]
    /\ done \subseteq Events
    /\ SentMeansMailed
    /\ AtMostOneActive

MailsKept == \A e \in Events : mails[e] > 0 => mails'[e] > 0

\* What a handler's record promises about the mails.
Promise(x, m) == x.step \in {"issue", "complete"} => m[x.event] > 0

LEMMA OneTask ==
    ASSUME IInv, NEW h \in Handlers, NEW x,
           task' = [task EXCEPT ![h] = x],
           TaskOK(x, h), h \in Workers => Promise(x, mails'),
           MailsKept, RestOK'
    PROVE  IInv'
<1>1. task'[h] = x /\ \A g \in Handlers \ {h} : task'[g] = task[g]
  BY DEF IInv, TypeOK
<1>2. task' \in [Handlers -> Task]
  BY DEF IInv, TypeOK, TaskOK
<1>3. TypeOK'
  BY <1>2 DEF RestOK, TypeOK
<1>4. \A g \in Handlers : TaskOK(task[g], g)
  BY OutboxAssumption DEF IInv, TypeOK, StepsOK, TaskOK, Handlers
<1>5. \A g \in Handlers : TaskOK(task'[g], g)
  BY <1>1, <1>4
<1>6. StepsOK'
  BY <1>5 DEF StepsOK, TaskOK, RestOK, Handlers
<1>7. ASSUME NEW w \in Workers, task'[w].step \in {"issue", "complete"}
      PROVE  mails'[task'[w].event] > 0
  <2>1. CASE w = h
    BY <1>1, <1>7, <2>1 DEF Promise
  <2>2. CASE w # h
    <3>1. task'[w] = task[w] /\ task[w].event \in Events
      BY <1>1, <1>4, <1>7, <2>2 DEF TaskOK, Handlers
    <3> QED
      BY <1>7, <3>1 DEF IInv, MailedFirst, MailsKept
  <2> QED
    BY <2>1, <2>2
<1> QED
  BY <1>3, <1>6, <1>7 DEF IInv, MailedFirst, RestOK

(***************************************************************************)
(* A step that moves no handler.                                           *)
(***************************************************************************)
LEMMA NoTask ==
    ASSUME IInv, UNCHANGED task, MailsKept, RestOK'
    PROVE  IInv'
<1>1. TypeOK' /\ StepsOK'
  BY DEF IInv, TypeOK, StepsOK, RestOK
<1>2. MailedFirst'
  BY DEF IInv, StepsOK, JobSteps, MailedFirst, MailsKept
<1> QED
  BY <1>1, <1>2 DEF IInv, RestOK

(***************************************************************************)
(* A worker process that ends leaves no job in progress.                   *)
(***************************************************************************)
LEMMA WorkersGone ==
    ASSUME IInv, task' = Orphans, MailsKept, RestOK'
    PROVE  IInv'
<1>1. Idle \in Task
  BY DEF Idle, Task, Steps, InvoiceStatuses
<1>2. /\ task' \in [Handlers -> Task]
      /\ \A w \in Workers : task'[w] = Idle
      /\ \A s \in Senders : task'[s] = task[s]
  BY <1>1, OutboxAssumption DEF Orphans, IInv, TypeOK, Handlers
<1>3. TypeOK' /\ StepsOK'
  BY <1>2 DEF IInv, TypeOK, StepsOK, RestOK, Idle, JobSteps
<1>4. MailedFirst'
  BY <1>2 DEF MailedFirst, Idle
<1> QED
  BY <1>3, <1>4 DEF IInv, RestOK

(***************************************************************************)
(* The mails and the rows a step leaves alone are as good as before.       *)
(***************************************************************************)
LEMMA SameHistory ==
    ASSUME IInv, UNCHANGED history
    PROVE  /\ mails' \in [Events -> 0 .. 2]
           /\ done' \subseteq Events
           /\ MailsKept
           /\ UNCHANGED invoice => /\ status' \in InvoiceStatuses
                                   /\ emailStatus' \in {"NOT_SENT", "SENT", "FAILED"}
                                   /\ SentMeansMailed'
BY DEF IInv, TypeOK, SentMeansMailed, history, invoice, MailsKept

LEMMA SameQueue ==
    ASSUME IInv, UNCHANGED queue
    PROVE  /\ job' \in [Events -> Job]
           /\ JobsOK'
           /\ main' \in Main
           /\ main'.step = "mark" => main'.event \in Events
BY DEF IInv, TypeOK, StepsOK, JobsOK, queue

(***************************************************************************)
(* A handler's record after a move, written out.                           *)
(***************************************************************************)
Moved(h, step, event, locked) ==
    [step |-> step, event |-> event, seen |-> task[h].seen, locked |-> locked]

LEMMA Moves ==
    ASSUME TypeOK, NEW h \in Handlers, NEW step \in Steps
    PROVE  /\ [task EXCEPT ![h].step = step]
                = [task EXCEPT ![h] = Moved(h, step, task[h].event, task[h].locked)]
           /\ [task EXCEPT ![h].step = step, ![h].locked = TRUE]
                = [task EXCEPT ![h] = Moved(h, step, task[h].event, TRUE)]
           /\ \A e \in Events :
                [task EXCEPT ![h].step = step, ![h].event = e]
                  = [task EXCEPT ![h] = Moved(h, step, e, task[h].locked)]
<1>1. task[h] \in Task
  BY DEF TypeOK
<1>2. ASSUME NEW x \in Task
      PROVE  /\ [x EXCEPT !.step = step]
                  = [step |-> step, event |-> x.event, seen |-> x.seen, locked |-> x.locked]
             /\ [x EXCEPT !.step = step] \in Task
  BY DEF Task
<1>3. ASSUME NEW x \in Task, NEW b \in BOOLEAN
      PROVE  [x EXCEPT !.locked = b]
               = [step |-> x.step, event |-> x.event, seen |-> x.seen, locked |-> b]
  BY DEF Task
<1>4. ASSUME NEW x \in Task, NEW e \in Events
      PROVE  [x EXCEPT !.event = e]
               = [step |-> x.step, event |-> e, seen |-> x.seen, locked |-> x.locked]
  BY DEF Task
<1> DEFINE y == [task[h] EXCEPT !.step = step]
<1>5. y = Moved(h, step, task[h].event, task[h].locked) /\ y \in Task
  BY <1>1, <1>2 DEF Moved
<1>6. y.step = step /\ y.event = task[h].event /\ y.seen = task[h].seen
      /\ y.locked = task[h].locked
  BY <1>5 DEF Moved
<1> HIDE DEF y
<1>7. /\ [y EXCEPT !.locked = TRUE] = Moved(h, step, task[h].event, TRUE)
      /\ \A e \in Events : [y EXCEPT !.event = e] = Moved(h, step, e, task[h].locked)
  BY <1>3, <1>4, <1>5, <1>6 DEF Moved
<1>8. task \in [Handlers -> Task]
  BY DEF TypeOK
<1>9. ASSUME NEW x
      PROVE  /\ [task EXCEPT ![h].step = step] = [task EXCEPT ![h] = y]
             /\ [task EXCEPT ![h].step = step, ![h].locked = x]
                  = [task EXCEPT ![h] = [y EXCEPT !.locked = x]]
             /\ [task EXCEPT ![h].step = step, ![h].event = x]
                  = [task EXCEPT ![h] = [y EXCEPT !.event = x]]
  BY <1>8 DEF y
<1> QED
  BY <1>5, <1>7, <1>9

(***************************************************************************)
(* A request that goes on to another of its steps.                         *)
(***************************************************************************)
LEMMA SenderMoves ==
    ASSUME IInv, NEW s \in Senders, NEW step \in SenderSteps,
           NEW event \in Events \cup {Nil}, NEW locked \in BOOLEAN,
           step \in {"enqueue", "mark"} => event \in Events,
           task' = [task EXCEPT ![s] = Moved(s, step, event, locked)],
           MailsKept, RestOK'
    PROVE  IInv'
<1>1. s \in Handlers /\ s \notin Workers
  BY OutboxAssumption DEF Handlers
<1>2. Moved(s, step, event, locked) \in Task
  BY <1>1 DEF Moved, Task, IInv, TypeOK, SenderSteps, Steps
<1>3. TaskOK(Moved(s, step, event, locked), s)
  BY <1>1, <1>2 DEF TaskOK, Moved
<1> QED
  BY <1>1, <1>3, OneTask

(***************************************************************************)
(* A job that goes on to another of its steps.                             *)
(***************************************************************************)
LEMMA JobMoves ==
    ASSUME IInv, NEW w \in Workers, NEW step \in JobSteps \ {"idle"},
           NEW locked \in BOOLEAN, task[w].step # "idle",
           task' = [task EXCEPT ![w] = Moved(w, step, task[w].event, locked)],
           step \in {"issue", "complete"} => mails'[task[w].event] > 0,
           MailsKept, RestOK'
    PROVE  IInv'
<1> DEFINE x == Moved(w, step, task[w].event, locked)
<1>1. w \in Handlers /\ w \notin Senders
  BY OutboxAssumption DEF Handlers
<1>2. task[w].event \in Events
  BY DEF IInv, StepsOK
<1>3. x \in Task
  BY <1>1 DEF Moved, Task, IInv, TypeOK, JobSteps, Steps
<1>4. TaskOK(x, w) /\ Promise(x, mails')
  BY <1>1, <1>2, <1>3 DEF TaskOK, Promise, Moved
<1> QED
  BY <1>1, <1>4, OneTask

(***************************************************************************)
(* A job or a request that is over.                                        *)
(***************************************************************************)
LEMMA TaskEnds ==
    ASSUME IInv, NEW h \in Handlers, task' = [task EXCEPT ![h] = Idle], MailsKept, RestOK'
    PROVE  IInv'
<1>1. Idle \in Task
  BY DEF Idle, Task, Steps, InvoiceStatuses
<1>2. TaskOK(Idle, h) /\ Promise(Idle, mails')
  BY <1>1 DEF TaskOK, Promise, Idle, SenderSteps, JobSteps
<1> QED
  BY <1>2, OneTask

(***************************************************************************)
(* What the helpers of the actions leave of their types.                   *)
(***************************************************************************)
LEMMA AddJobType ==
    ASSUME IInv, NEW e \in Events, AddJob(e)
    PROVE  job' \in [Events -> Job] /\ JobsOK'
<1>1. job[e] \in Job
  BY DEF IInv, TypeOK
<1>2. ASSUME NEW j \in Job
      PROVE  [j EXCEPT !.state = "waiting"] \in Job
  BY DEF Job, JobStates
<1>3. [job[e] EXCEPT !.state = "waiting"] \in Job
  BY <1>1, <1>2
<1>4. JobsOK'
  BY DEF AddJob, IInv, TypeOK, JobsOK, Job
<1> QED
  BY <1>3, <1>4 DEF IInv, TypeOK, AddJob

LEMMA GiveBackType ==
    ASSUME TypeOK, NEW h, GiveBack(h)
    PROVE  Lease!LockType'
BY DEF TypeOK, GiveBack, Lease!LockType, Lease!Release

LEMMA EndedType ==
    ASSUME NEW j \in Job, NEW step, j.made < MaxAttempts
    PROVE  Ended(j, step) \in Job
<1>1. CASE step = "succeed"
  <2>1. Ended(j, step) = [state |-> "completed", made |-> j.made,
                          stalls |-> j.stalls, runner |-> Nil]
    BY <1>1 DEF Ended, Job
  <2> QED
    BY <2>1 DEF Job, JobStates
<1>2. CASE step # "succeed"
  <2>1. Ended(j, step) = [state |-> IF j.made + 1 < MaxAttempts THEN "delayed" ELSE "failed",
                          made |-> j.made + 1, stalls |-> j.stalls, runner |-> Nil]
    BY <1>2 DEF Ended, Job
  <2>2. j.made + 1 \in 0 .. MaxAttempts
    BY OutboxAssumption DEF Job
  <2> QED
    BY <2>1, <2>2 DEF Job, JobStates
<1> QED
  BY <1>1, <1>2

(***************************************************************************)
(* Taking the lock, or going on without it, is a move with a lock of its   *)
(* type.                                                                   *)
(***************************************************************************)
LEMMA ProceedMoves ==
    ASSUME TypeOK, NEW h \in Handlers, NEW step \in Steps, Proceed(h, step)
    PROVE  /\ \E b \in BOOLEAN : task' = [task EXCEPT ![h] = Moved(h, step, task[h].event, b)]
           /\ Lease!LockType'
<1>1. task[h].event \in Events \cup {Nil} /\ task[h].locked \in BOOLEAN
  BY DEF TypeOK, Task
<1>2. CASE /\ Lease!Granted(h)
           /\ task' = [task EXCEPT ![h].step = step, ![h].locked = TRUE]
  <2>1. task' = [task EXCEPT ![h] = Moved(h, step, task[h].event, TRUE)]
    BY <1>1, <1>2, Moves
  <2>2. Lease!LockType'
    BY <1>2 DEF Lease!Granted, Lease!LockType
  <2> QED
    BY <2>1, <2>2
<1>3. CASE Lease!OutOfReach /\ Goto(h, step)
  <2>1. task' = [task EXCEPT ![h] = Moved(h, step, task[h].event, task[h].locked)]
    BY <1>1, <1>3, Moves DEF Goto
  <2>2. Lease!LockType'
    BY <1>3 DEF Lease!OutOfReach, Lease!LockType, TypeOK
  <2> QED
    BY <1>1, <2>1, <2>2
<1> QED
  BY <1>2, <1>3 DEF Proceed

LEMMA GotoMoves ==
    ASSUME TypeOK, NEW h \in Handlers, NEW step \in Steps, Goto(h, step)
    PROVE  /\ task' = [task EXCEPT ![h] = Moved(h, step, task[h].event, task[h].locked)]
           /\ task[h].event \in Events \cup {Nil}
           /\ task[h].locked \in BOOLEAN
<1>1. task[h].event \in Events \cup {Nil} /\ task[h].locked \in BOOLEAN
  BY DEF TypeOK, Task
<1> QED
  BY <1>1, Moves DEF Goto

(***************************************************************************)
(* A request's steps preserve IInv.                                        *)
(***************************************************************************)
LEMMA RequestKeeps ==
    ASSUME IInv, NEW s \in Senders, Send(s) \/ SenderStep(s)
    PROVE  IInv'
<1>1. TypeOK /\ AtMostOneActive /\ StepsOK
  BY DEF IInv
<1>2. s \in Handlers
  BY DEF Handlers
<1>3. SenderSteps \subseteq Steps
  BY DEF SenderSteps, Steps
<1>4. task[s] \in Task
  BY <1>1, <1>2 DEF TypeOK
<1>5. task[s].event \in Events \cup {Nil} /\ task[s].locked \in BOOLEAN
  BY <1>4 DEF Task
<1>6. UNCHANGED <<invoice, history>> => /\ MailsKept
                                       /\ status' \in InvoiceStatuses
                                       /\ emailStatus' \in {"NOT_SENT", "SENT", "FAILED"}
                                       /\ mails' \in [Events -> 0 .. 2]
                                       /\ done' \subseteq Events
                                       /\ SentMeansMailed'
  BY SameHistory
<1>7. UNCHANGED lock => Lease!LockType'
  BY <1>1 DEF TypeOK, Lease!LockType
<1>8. UNCHANGED outbox => AtMostOneActive' /\ outbox' \in [Events -> OutboxRow]
  BY <1>1, SameRows
<1>9. CASE Send(s)
  <2>1. RestOK'
    BY <1>6, <1>7, <1>8, <1>9, SameQueue DEF Send, RestOK
  <2>2. "lock" \in SenderSteps
    BY DEF SenderSteps
  <2>3. task' = [task EXCEPT ![s] = Moved(s, "lock", task[s].event, task[s].locked)]
    BY <1>1, <1>2, <1>3, <1>9, <2>2, GotoMoves DEF Send
  <2> QED
    BY <1>5, <1>6, <1>9, <2>1, <2>2, <2>3, SenderMoves DEF Send
<1>10. CASE LockToSend(s)
  <2>1. "find" \in SenderSteps /\ "idle" \in SenderSteps
    BY DEF SenderSteps
  <2>2. CASE Proceed(s, "find")
    <3>1. PICK b \in BOOLEAN : task' = [task EXCEPT ![s] = Moved(s, "find", task[s].event, b)]
      BY <1>1, <1>2, <1>3, <2>1, <2>2, ProceedMoves
    <3>2. Lease!LockType'
      BY <1>1, <1>2, <1>3, <2>1, <2>2, ProceedMoves
    <3>3. RestOK'
      BY <1>6, <1>8, <1>10, <3>2, SameQueue DEF LockToSend, RestOK
    <3> QED
      BY <1>5, <1>6, <1>10, <2>1, <3>1, <3>3, SenderMoves DEF LockToSend
  <2>3. CASE Lease!Busy /\ Goto(s, "idle")
    <3>1. RestOK'
      BY <1>6, <1>7, <1>8, <1>10, <2>3, SameQueue DEF LockToSend, RestOK, Lease!Busy
    <3>2. task' = [task EXCEPT ![s] = Moved(s, "idle", task[s].event, task[s].locked)]
      BY <1>1, <1>2, <1>3, <2>1, <2>3, GotoMoves
    <3> QED
      BY <1>5, <1>6, <1>10, <2>1, <3>1, <3>2, SenderMoves DEF LockToSend
  <2> QED
    BY <1>10, <2>2, <2>3 DEF LockToSend
<1>11. CASE FindActive(s)
  <2>1. RestOK'
    BY <1>6, <1>7, <1>8, <1>11, SameQueue DEF FindActive, RestOK
  <2>2. PICK step \in {"release", "create"} : Goto(s, step)
    BY <1>11 DEF FindActive
  <2>3. step \in SenderSteps
    BY DEF SenderSteps
  <2>4. task' = [task EXCEPT ![s] = Moved(s, step, task[s].event, task[s].locked)]
    BY <1>1, <1>2, <1>3, <2>2, <2>3, GotoMoves
  <2> QED
    BY <1>5, <1>6, <1>11, <2>1, <2>3, <2>4, SenderMoves DEF FindActive
<1>12. CASE CreateEvent(s)
  <2>1. "enqueue" \in SenderSteps /\ "release" \in SenderSteps
    BY DEF SenderSteps
  <2>2. CASE Goto(s, "release") /\ UNCHANGED outbox
    <3>1. RestOK'
      BY <1>6, <1>7, <1>8, <1>12, <2>2, SameQueue DEF CreateEvent, RestOK
    <3>2. task' = [task EXCEPT ![s] = Moved(s, "release", task[s].event, task[s].locked)]
      BY <1>1, <1>2, <1>3, <2>1, <2>2, GotoMoves
    <3> QED
      BY <1>5, <1>6, <1>12, <2>1, <3>1, <3>2, SenderMoves DEF CreateEvent
  <2>3. ASSUME NEW e \in Events, IndexAllows(e),
               outbox' = [outbox EXCEPT ![e] = [status |-> "PENDING", available |-> TRUE]],
               task' = [task EXCEPT ![s].step = "enqueue", ![s].event = e]
        PROVE  IInv'
    <3>1. [status |-> "PENDING", available |-> TRUE] \in OutboxRow
      BY DEF OutboxRow, ActiveStatuses
    <3>2. AtMostOneActive' /\ outbox' \in [Events -> OutboxRow]
      BY <1>1, <2>3, <3>1, WriteRow
    <3>3. RestOK'
      BY <1>6, <1>7, <1>12, <3>2, SameQueue DEF CreateEvent, RestOK
    <3>4. task' = [task EXCEPT ![s] = Moved(s, "enqueue", e, task[s].locked)]
      <4>1. "enqueue" \in Steps
        BY <1>3, <2>1
      <4>2. \A x \in Events :
              [task EXCEPT ![s].step = "enqueue", ![s].event = x]
                = [task EXCEPT ![s] = Moved(s, "enqueue", x, task[s].locked)]
        BY <1>1, <1>2, <4>1, Moves
      <4> QED
        BY <2>3, <4>2
    <3> QED
      BY <1>5, <1>6, <1>12, <2>1, <3>3, <3>4, SenderMoves DEF CreateEvent
  <2> QED
    BY <1>12, <2>2, <2>3 DEF CreateEvent
<1>13. CASE Enqueue(s)
  <2>1. task[s].event \in Events
    BY <1>1, <1>13 DEF Enqueue, At, StepsOK
  <2>2. job' \in [Events -> Job] /\ JobsOK'
    BY <1>1, <1>13, <2>1, AddJobType DEF Enqueue, IInv, TypeOK, JobsOK
  <2>3. main' \in Main /\ (main'.step = "mark" => main'.event \in Events)
    BY <1>1, <1>13 DEF Enqueue, TypeOK, StepsOK
  <2>4. RestOK'
    BY <1>6, <1>7, <1>8, <1>13, <2>2, <2>3 DEF Enqueue, RestOK
  <2>5. PICK step \in {"mark", "release"} : Goto(s, step)
    BY <1>13 DEF Enqueue
  <2>6. step \in SenderSteps
    BY DEF SenderSteps
  <2>7. task' = [task EXCEPT ![s] = Moved(s, step, task[s].event, task[s].locked)]
    BY <1>1, <1>2, <1>3, <2>5, <2>6, GotoMoves
  <2> QED
    BY <1>5, <1>6, <1>13, <2>1, <2>4, <2>6, <2>7, SenderMoves DEF Enqueue
<1>14. CASE MarkEnqueued(s)
  <2>1. task[s].event \in Events
    BY <1>1, <1>14 DEF MarkEnqueued, At, StepsOK
  <2>2. AtMostOneActive' /\ outbox' \in [Events -> OutboxRow]
    BY <1>1, <1>8, <1>14, <2>1, SetStatus DEF MarkEnqueued, ActiveStatuses
  <2>3. RestOK'
    BY <1>6, <1>7, <1>14, <2>2, SameQueue DEF MarkEnqueued, RestOK
  <2>4. "release" \in SenderSteps
    BY DEF SenderSteps
  <2>5. task' = [task EXCEPT ![s] = Moved(s, "release", task[s].event, task[s].locked)]
    BY <1>1, <1>2, <1>3, <1>14, <2>4, GotoMoves DEF MarkEnqueued
  <2> QED
    BY <1>5, <1>6, <1>14, <2>3, <2>4, <2>5, SenderMoves DEF MarkEnqueued
<1>15. CASE ReleaseSender(s)
  <2>1. Lease!LockType'
    BY <1>1, <1>15, GiveBackType DEF ReleaseSender
  <2>2. RestOK'
    BY <1>6, <1>8, <1>15, <2>1, SameQueue DEF ReleaseSender, RestOK
  <2> QED
    BY <1>2, <1>6, <1>15, <2>2, TaskEnds DEF ReleaseSender
<1> QED
  BY <1>9, <1>10, <1>11, <1>12, <1>13, <1>14, <1>15 DEF SenderStep

(***************************************************************************)
(* How BullMQ's changes leave a job.                                       *)
(***************************************************************************)
LEMMA JobChanges ==
    ASSUME IInv, NEW e \in Events, NEW j \in Job,
           job' = [job EXCEPT ![e] = j],
           j.state \in {"none", "waiting", "active", "delayed"} => j.made < MaxAttempts,
           j.runner # Nil => j.state = "active"
    PROVE  job' \in [Events -> Job] /\ JobsOK'
<1>1. job \in [Events -> Job]
  BY DEF IInv, TypeOK
<1>2. job' \in [Events -> Job] /\ job'[e] = j /\ \A d \in Events \ {e} : job'[d] = job[d]
  BY <1>1
<1> QED
  BY <1>2 DEF IInv, JobsOK

LEMMA JobRecord ==
    ASSUME IInv, NEW e \in Events, NEW s \in JobStates, NEW r \in Workers \cup {Nil}
    PROVE  /\ [job EXCEPT ![e].state = s]
                = [job EXCEPT ![e] = [state |-> s, made |-> job[e].made,
                                      stalls |-> job[e].stalls, runner |-> job[e].runner]]
           /\ [job EXCEPT ![e].state = s, ![e].runner = r]
                = [job EXCEPT ![e] = [state |-> s, made |-> job[e].made,
                                      stalls |-> job[e].stalls, runner |-> r]]
           /\ [job EXCEPT ![e].runner = Nil, ![e].stalls = 1, ![e].state = s]
                = [job EXCEPT ![e] = [state |-> s, made |-> job[e].made,
                                      stalls |-> 1, runner |-> Nil]]
<1>1. job \in [Events -> Job] /\ job[e] \in Job
  BY DEF IInv, TypeOK
<1>2. ASSUME NEW x \in Job
      PROVE  /\ [x EXCEPT !.state = s] \in Job
             /\ [x EXCEPT !.state = s]
                  = [state |-> s, made |-> x.made, stalls |-> x.stalls, runner |-> x.runner]
  BY DEF Job
<1>3. ASSUME NEW x \in Job, NEW q \in Workers \cup {Nil}
      PROVE  /\ [x EXCEPT !.runner = q] \in Job
             /\ [x EXCEPT !.runner = q]
                  = [state |-> x.state, made |-> x.made, stalls |-> x.stalls, runner |-> q]
  BY DEF Job
<1>4. ASSUME NEW x \in Job
      PROVE  /\ [x EXCEPT !.stalls = 1] \in Job
             /\ [x EXCEPT !.stalls = 1]
                  = [state |-> x.state, made |-> x.made, stalls |-> 1, runner |-> x.runner]
  BY DEF Job
<1> DEFINE a == [job[e] EXCEPT !.state = s]
           b == [job[e] EXCEPT !.runner = Nil]
           c == [b EXCEPT !.stalls = 1]
<1>5. /\ a \in Job
      /\ a = [state |-> s, made |-> job[e].made, stalls |-> job[e].stalls, runner |-> job[e].runner]
      /\ b \in Job
      /\ b = [state |-> job[e].state, made |-> job[e].made, stalls |-> job[e].stalls, runner |-> Nil]
  BY <1>1, <1>2, <1>3
<1>6. c \in Job /\ c = [state |-> job[e].state, made |-> job[e].made, stalls |-> 1, runner |-> Nil]
  <2> HIDE DEF b
  <2>1. c = [state |-> b.state, made |-> b.made, stalls |-> 1, runner |-> b.runner] /\ c \in Job
    BY <1>4, <1>5
  <2>2. b.state = job[e].state /\ b.made = job[e].made /\ b.runner = Nil
    BY <1>5
  <2> QED
    BY <2>1, <2>2
<1>7. /\ [a EXCEPT !.runner = r]
           = [state |-> s, made |-> job[e].made, stalls |-> job[e].stalls, runner |-> r]
      /\ [c EXCEPT !.state = s]
           = [state |-> s, made |-> job[e].made, stalls |-> 1, runner |-> Nil]
  <2> HIDE DEF a, c
  <2>1. a.state = s /\ a.made = job[e].made /\ a.stalls = job[e].stalls
    BY <1>5
  <2>2. c.made = job[e].made /\ c.stalls = 1 /\ c.runner = Nil
    BY <1>6
  <2> QED
    BY <1>2, <1>3, <1>5, <1>6, <2>1, <2>2
<1>8. /\ [job EXCEPT ![e].state = s] = [job EXCEPT ![e] = a]
      /\ [job EXCEPT ![e].state = s, ![e].runner = r] = [job EXCEPT ![e] = [a EXCEPT !.runner = r]]
      /\ [job EXCEPT ![e].runner = Nil, ![e].stalls = 1, ![e].state = s]
           = [job EXCEPT ![e] = [c EXCEPT !.state = s]]
  BY <1>1
<1> QED
  BY <1>5, <1>7, <1>8

(***************************************************************************)
(* A job's steps preserve IInv.                                            *)
(***************************************************************************)
LEMMA JobKeeps ==
    ASSUME IInv, NEW w \in Workers, JobStep(w)
    PROVE  IInv'
<1> DEFINE e == task[w].event
<1>1. TypeOK /\ AtMostOneActive /\ StepsOK /\ JobsOK
  BY DEF IInv
<1>2. w \in Handlers /\ task[w] \in Task
  BY <1>1 DEF Handlers, TypeOK
<1>3. JobSteps \subseteq Steps
  BY DEF JobSteps, Steps
<1>4. task[w].event \in Events \cup {Nil} /\ task[w].locked \in BOOLEAN
  BY <1>2 DEF Task
<1>5. task[w].step # "idle"
  BY DEF JobStep, Load, LockToProcess, MarkProcessing, ReadInvoice, SendMail, Issue,
         RecordFailure, MarkCompleted, MarkFailed, EndJob, At
<1>6. e \in Events
  BY <1>1, <1>5 DEF StepsOK
<1>7. UNCHANGED history => /\ mails' \in [Events -> 0 .. 2]
                          /\ done' \subseteq Events
                          /\ MailsKept
  BY SameHistory
<1>8. UNCHANGED <<invoice, history>> => /\ status' \in InvoiceStatuses
                                       /\ emailStatus' \in {"NOT_SENT", "SENT", "FAILED"}
                                       /\ SentMeansMailed'
  BY SameHistory
<1>9. UNCHANGED lock => Lease!LockType'
  BY <1>1 DEF TypeOK, Lease!LockType
<1>10. UNCHANGED outbox => AtMostOneActive' /\ outbox' \in [Events -> OutboxRow]
  BY <1>1, SameRows
<1>11. ASSUME NEW step \in JobSteps \ {"idle"}, Goto(w, step), MailsKept, RestOK',
              step \in {"issue", "complete"} => mails'[task[w].event] > 0
       PROVE  IInv'
  <2>1. task' = [task EXCEPT ![w] = Moved(w, step, task[w].event, task[w].locked)]
    BY <1>1, <1>2, <1>3, <1>11, GotoMoves
  <2> QED
    BY <1>4, <1>5, <1>11, <2>1, JobMoves
<1>12. {"load", "lock", "succeed", "throw", "process", "read", "mail", "issue", "failure",
        "complete", "failing"} \subseteq JobSteps \ {"idle"}
  BY DEF JobSteps
<1>13. CASE Load(w)
  <2>1. RestOK'
    BY <1>7, <1>8, <1>9, <1>10, <1>13, SameQueue DEF Load, RestOK
  <2>2. PICK step \in {"succeed", "lock"} : Goto(w, step)
    BY <1>13 DEF Load
  <2> QED
    BY <1>7, <1>11, <1>12, <1>13, <2>1, <2>2 DEF Load
<1>14. CASE LockToProcess(w)
  <2>1. CASE Proceed(w, "process")
    <3>1. "process" \in Steps
      BY <1>3, <1>12
    <3>2. PICK b \in BOOLEAN : task' = [task EXCEPT ![w] = Moved(w, "process", task[w].event, b)]
      BY <1>1, <1>2, <2>1, <3>1, ProceedMoves
    <3>3. Lease!LockType'
      BY <1>1, <1>2, <2>1, <3>1, ProceedMoves
    <3>4. RestOK'
      BY <1>7, <1>8, <1>10, <1>14, <3>3, SameQueue DEF LockToProcess, RestOK
    <3> QED
      BY <1>5, <1>7, <1>12, <1>14, <3>2, <3>4, JobMoves DEF LockToProcess
  <2>2. CASE Lease!Busy /\ Goto(w, "throw")
    <3>1. RestOK'
      BY <1>7, <1>8, <1>9, <1>10, <1>14, <2>2, SameQueue DEF LockToProcess, RestOK, Lease!Busy
    <3> QED
      BY <1>7, <1>11, <1>12, <1>14, <2>2, <3>1 DEF LockToProcess
  <2> QED
    BY <1>14, <2>1, <2>2 DEF LockToProcess
<1>15. CASE MarkProcessing(w)
  <2>1. AtMostOneActive' /\ outbox' \in [Events -> OutboxRow]
    BY <1>1, <1>6, <1>10, <1>15, SetStatus DEF MarkProcessing, ActiveStatuses
  <2>2. RestOK'
    BY <1>7, <1>8, <1>9, <1>15, <2>1, SameQueue DEF MarkProcessing, RestOK
  <2>3. PICK step \in {"read", "failing"} : Goto(w, step)
    BY <1>15 DEF MarkProcessing
  <2> QED
    BY <1>7, <1>11, <1>12, <1>15, <2>2, <2>3 DEF MarkProcessing
<1>16. CASE ReadInvoice(w)
  <2>1. RestOK'
    BY <1>7, <1>8, <1>9, <1>10, <1>16, SameQueue DEF ReadInvoice, RestOK
  <2> DEFINE x == [task[w] EXCEPT !.step = "mail", !.seen = status]
  <2>2. x = [step |-> "mail", event |-> task[w].event, seen |-> status, locked |-> task[w].locked]
    <3>1. ASSUME NEW z \in Task, NEW s \in InvoiceStatuses
          PROVE  [z EXCEPT !.seen = s]
                   = [step |-> z.step, event |-> z.event, seen |-> s, locked |-> z.locked]
      BY DEF Task
    <3>2. ASSUME NEW z \in Task, NEW s \in Steps
          PROVE  /\ [z EXCEPT !.step = s]
                      = [step |-> s, event |-> z.event, seen |-> z.seen, locked |-> z.locked]
                 /\ [z EXCEPT !.step = s] \in Task
      BY DEF Task
    <3> DEFINE y == [task[w] EXCEPT !.step = "mail"]
    <3>3. "mail" \in Steps /\ status \in InvoiceStatuses
      BY <1>1 DEF Steps, TypeOK
    <3>4. /\ y = [step |-> "mail", event |-> task[w].event,
                  seen |-> task[w].seen, locked |-> task[w].locked]
          /\ y \in Task
      BY <1>2, <3>2, <3>3
    <3>5. y.step = "mail" /\ y.event = task[w].event /\ y.locked = task[w].locked
      BY <3>4
    <3> HIDE DEF y
    <3>6. [y EXCEPT !.seen = status]
            = [step |-> "mail", event |-> task[w].event, seen |-> status, locked |-> task[w].locked]
      BY <3>1, <3>3, <3>4, <3>5
    <3> QED
      BY <3>6 DEF y
  <2>3. task' = [task EXCEPT ![w] = x]
    BY <1>1, <1>16 DEF ReadInvoice, TypeOK
  <2> HIDE DEF x
  <2>4. x \in Task
    BY <1>1, <1>4, <2>2 DEF Task, Steps, TypeOK
  <2>5. TaskOK(x, w) /\ Promise(x, mails')
    BY <1>6, <2>2, <2>4, OutboxAssumption DEF TaskOK, Promise, JobSteps
  <2> QED
    BY <1>2, <1>7, <1>16, <2>1, <2>3, <2>5, OneTask DEF ReadInvoice
<1>17. CASE SendMail(w)
  <2>1. mails' \in [Events -> 0 .. 2] /\ MailsKept
    BY <1>1, <1>6, <1>17 DEF SendMail, OneMore, TypeOK, MailsKept
  <2>2. RestOK'
    BY <1>1, <1>9, <1>10, <1>17, <2>1, SameQueue
       DEF SendMail, RestOK, invoice, TypeOK, IInv, SentMeansMailed, MailsKept
  <2>3. CASE OneMore(task[w].event) /\ Goto(w, "issue")
    <3>1. mails'[task[w].event] > 0
      BY <1>1, <1>6, <2>3 DEF OneMore, TypeOK
    <3> QED
      BY <1>11, <1>12, <2>1, <2>2, <2>3, <3>1
  <2>4. CASE Goto(w, "failure")
    BY <1>11, <1>12, <2>1, <2>2, <2>4
  <2> QED
    BY <1>17, <2>3, <2>4 DEF SendMail
<1>18. CASE Issue(w)
  <2>1. mails[task[w].event] > 0
    BY <1>18 DEF Issue, At, IInv, MailedFirst
  <2>2. /\ status' \in InvoiceStatuses
        /\ emailStatus' \in {"NOT_SENT", "SENT", "FAILED"}
    BY <1>1, <1>18 DEF Issue, TypeOK, InvoiceStatuses
  <2>3. SentMeansMailed'
    BY <1>6, <1>18, <2>1 DEF Issue, history, IInv, SentMeansMailed
  <2>4. RestOK'
    BY <1>7, <1>9, <1>10, <1>18, <2>2, <2>3, SameQueue DEF Issue, RestOK
  <2> QED
    BY <1>7, <1>11, <1>12, <1>18, <2>1, <2>4 DEF Issue, history
<1>19. CASE RecordFailure(w)
  <2>1. /\ status' \in InvoiceStatuses
        /\ emailStatus' \in {"NOT_SENT", "SENT", "FAILED"}
        /\ SentMeansMailed'
    BY <1>1, <1>19 DEF RecordFailure, TypeOK, history, IInv, SentMeansMailed
  <2>2. RestOK'
    BY <1>7, <1>9, <1>10, <1>19, <2>1, SameQueue DEF RecordFailure, RestOK
  <2> QED
    BY <1>7, <1>11, <1>12, <1>19, <2>2 DEF RecordFailure
<1>20. CASE MarkCompleted(w)
  <2>1. mails[task[w].event] > 0
    BY <1>20 DEF MarkCompleted, At, IInv, MailedFirst
  <2>2. /\ mails' \in [Events -> 0 .. 2] /\ MailsKept
        /\ done' \subseteq Events
        /\ status' \in InvoiceStatuses
        /\ emailStatus' \in {"NOT_SENT", "SENT", "FAILED"}
        /\ SentMeansMailed'
    BY <1>1, <1>6, <1>20, <2>1
       DEF MarkCompleted, TypeOK, invoice, IInv, SentMeansMailed, MailsKept
  <2>3. AtMostOneActive' /\ outbox' \in [Events -> OutboxRow]
    BY <1>1, <1>6, <1>20, SetStatus DEF MarkCompleted
  <2>4. RestOK'
    BY <1>9, <1>20, <2>2, <2>3, SameQueue DEF MarkCompleted, RestOK
  <2> QED
    BY <1>11, <1>12, <1>20, <2>2, <2>4 DEF MarkCompleted
<1>21. CASE MarkFailed(w)
  <2>1. [status |-> "PENDING", available |-> FALSE] \in OutboxRow
    BY DEF OutboxRow, ActiveStatuses
  <2>2. AtMostOneActive' /\ outbox' \in [Events -> OutboxRow]
    BY <1>1, <1>6, <1>10, <1>21, <2>1, WriteRow DEF MarkFailed
  <2>3. RestOK'
    BY <1>7, <1>8, <1>9, <1>21, <2>2, SameQueue DEF MarkFailed, RestOK
  <2> QED
    BY <1>7, <1>11, <1>12, <1>21, <2>3 DEF MarkFailed
<1>22. CASE EndJob(w)
  <2>1. job[e] \in Job
    BY <1>1, <1>6 DEF TypeOK
  <2>2. job' \in [Events -> Job] /\ JobsOK'
    <3>1. CASE job[e].runner # w
      BY <1>1, <1>22, <3>1 DEF EndJob, TypeOK, JobsOK
    <3>2. CASE job[e].runner = w
      <4>1. job[e].made < MaxAttempts
        BY <1>1, <1>6, <3>2, OutboxAssumption DEF JobsOK, Handlers
      <4> DEFINE j == Ended(job[e], task[w].step)
      <4>2. j \in Job
        BY <2>1, <4>1, EndedType
      <4>3. job' = [job EXCEPT ![e] = j]
        BY <1>22, <3>2 DEF EndJob
      <4>4. /\ j.state \in {"none", "waiting", "active", "delayed"} => j.made < MaxAttempts
            /\ j.runner # Nil => j.state = "active"
        BY <2>1, <4>1 DEF Ended, Job
      <4> QED
        BY <1>6, <4>2, <4>3, <4>4, JobChanges
    <3> QED
      BY <3>1, <3>2
  <2>3. Lease!LockType'
    BY <1>1, <1>22, GiveBackType DEF EndJob
  <2>4. main' \in Main /\ (main'.step = "mark" => main'.event \in Events)
    BY <1>1, <1>22 DEF EndJob, TypeOK, StepsOK
  <2>5. RestOK'
    BY <1>7, <1>8, <1>10, <1>22, <2>2, <2>3, <2>4 DEF EndJob, RestOK
  <2> QED
    BY <1>2, <1>7, <1>22, <2>5, TaskEnds DEF EndJob
<1> QED
  BY <1>13, <1>14, <1>15, <1>16, <1>17, <1>18, <1>19, <1>20, <1>21, <1>22 DEF JobStep

(***************************************************************************)
(* What BullMQ, Redis, the clock, other handlers and faults do preserves   *)
(* IInv.                                                                   *)
(***************************************************************************)
LEMMA NoJobOK == NoJob \in Job /\ NoJob.made < MaxAttempts
  BY OutboxAssumption DEF NoJob, Job, JobStates

LEMMA EnvironmentKeeps ==
    ASSUME IInv, Environment
    PROVE  IInv'
<1>1. TypeOK /\ AtMostOneActive /\ StepsOK /\ JobsOK
  BY DEF IInv
<1>2. UNCHANGED history => /\ mails' \in [Events -> 0 .. 2]
                          /\ done' \subseteq Events
                          /\ MailsKept
  BY SameHistory
<1>3. UNCHANGED <<invoice, history>> => /\ status' \in InvoiceStatuses
                                       /\ emailStatus' \in {"NOT_SENT", "SENT", "FAILED"}
                                       /\ SentMeansMailed'
  BY SameHistory
<1>4. UNCHANGED lock => Lease!LockType'
  BY <1>1 DEF TypeOK, Lease!LockType
<1>5. UNCHANGED outbox => AtMostOneActive' /\ outbox' \in [Events -> OutboxRow]
  BY <1>1, SameRows
<1>6. UNCHANGED main => main' \in Main /\ (main'.step = "mark" => main'.event \in Events)
  BY <1>1 DEF TypeOK, StepsOK
<1>7. UNCHANGED job => job' \in [Events -> Job] /\ JobsOK'
  BY <1>1 DEF TypeOK, JobsOK
<1>8. ASSUME NEW e \in Events
      PROVE  job[e] \in Job /\ job[e].made \in 0 .. MaxAttempts /\ job[e].stalls \in 0 .. 1
             /\ job[e].runner \in Workers \cup {Nil}
  BY <1>1 DEF TypeOK, Job
<1>9. CASE Wipe
  <2>1. job' \in [Events -> Job] /\ JobsOK'
    BY <1>9, NoJobOK DEF Wipe, JobsOK, NoJob
  <2>2. RestOK'
    BY <1>2, <1>3, <1>5, <1>6, <1>9, <2>1 DEF Wipe, RestOK, Lease!LockType
  <2> QED
    BY <1>2, <1>9, <2>2, NoTask DEF Wipe
<1>10. CASE ExpireLock
  <2>1. RestOK'
    BY <1>2, <1>3, <1>5, <1>10, SameQueue DEF ExpireLock, RestOK, Lease!Expire, Lease!LockType
  <2> QED
    BY <1>2, <1>10, <2>1, NoTask DEF ExpireLock
<1>11. CASE CrashWorker
  <2>1. main' \in Main /\ main'.step # "mark"
    BY <1>11 DEF CrashWorker, Down, Main
  <2>2. RestOK'
    BY <1>2, <1>3, <1>4, <1>5, <1>7, <1>11, <2>1 DEF CrashWorker, RestOK
  <2> QED
    BY <1>2, <1>11, <2>2, WorkersGone DEF CrashWorker
<1>12. CASE CancelInvoice
  <2>1. /\ status' \in InvoiceStatuses
        /\ emailStatus' \in {"NOT_SENT", "SENT", "FAILED"}
        /\ SentMeansMailed'
    BY <1>1, <1>12 DEF CancelInvoice, TypeOK, InvoiceStatuses, history, IInv, SentMeansMailed
  <2>2. RestOK'
    BY <1>2, <1>4, <1>5, <1>12, <2>1, SameQueue DEF CancelInvoice, RestOK
  <2> QED
    BY <1>2, <1>12, <2>2, NoTask DEF CancelInvoice
<1>13. CASE ViewInvoice
  <2>1. /\ status' \in InvoiceStatuses
        /\ emailStatus' \in {"NOT_SENT", "SENT", "FAILED"}
        /\ SentMeansMailed'
    BY <1>1, <1>13 DEF ViewInvoice, TypeOK, InvoiceStatuses, history, IInv, SentMeansMailed
  <2>2. RestOK'
    BY <1>2, <1>4, <1>5, <1>13, <2>1, SameQueue DEF ViewInvoice, RestOK
  <2> QED
    BY <1>2, <1>13, <2>2, NoTask DEF ViewInvoice
<1>14. ASSUME NEW e \in Events, Backoff(e)
       PROVE  IInv'
  <2> DEFINE j == [state |-> "waiting", made |-> job[e].made,
                   stalls |-> job[e].stalls, runner |-> job[e].runner]
  <2>1. "waiting" \in JobStates
    BY DEF JobStates
  <2>2. job' = [job EXCEPT ![e] = j]
    BY <1>14, <2>1, JobRecord DEF Backoff
  <2>3. j \in Job
    BY <1>8, <2>1 DEF Job
  <2>4. job[e].made < MaxAttempts /\ job[e].runner = Nil
    BY <1>1, <1>14 DEF Backoff, JobsOK
  <2>5. job' \in [Events -> Job] /\ JobsOK'
    BY <2>2, <2>3, <2>4, JobChanges
  <2>6. RestOK'
    BY <1>2, <1>3, <1>4, <1>5, <1>6, <1>14, <2>5 DEF Backoff, RestOK
  <2> QED
    BY <1>2, <1>14, <2>6, NoTask DEF Backoff
<1>15. ASSUME NEW e \in Events, Stall(e)
       PROVE  IInv'
  <2> DEFINE s == IF job[e].stalls = 0 THEN "waiting" ELSE "failed"
             j == [state |-> s, made |-> job[e].made, stalls |-> 1, runner |-> Nil]
  <2>1. s \in JobStates
    BY DEF JobStates
  <2>2. job' = [job EXCEPT ![e].runner = Nil, ![e].stalls = 1, ![e].state = s]
    BY <1>15 DEF Stall
  <2> HIDE DEF s
  <2>3. job' = [job EXCEPT ![e] = j]
    <3>1. \A x \in JobStates :
            [job EXCEPT ![e].runner = Nil, ![e].stalls = 1, ![e].state = x]
              = [job EXCEPT ![e] = [state |-> x, made |-> job[e].made, stalls |-> 1, runner |-> Nil]]
      BY JobRecord
    <3> QED
      BY <2>1, <2>2, <3>1
  <2>4. j \in Job
    BY <1>8, <2>1 DEF Job
  <2>5. job[e].made < MaxAttempts
    BY <1>1, <1>15 DEF Stall, JobsOK
  <2>6. job' \in [Events -> Job] /\ JobsOK'
    BY <2>3, <2>4, <2>5, JobChanges
  <2>7. RestOK'
    BY <1>2, <1>3, <1>4, <1>5, <1>6, <1>15, <2>6 DEF Stall, RestOK
  <2> QED
    BY <1>2, <1>15, <2>7, NoTask DEF Stall
<1>16. ASSUME NEW e \in Events, Clean(e)
       PROVE  IInv'
  <2>1. NoJob.runner = Nil /\ job' = [job EXCEPT ![e] = NoJob]
    BY <1>16 DEF Clean, NoJob
  <2>2. job' \in [Events -> Job] /\ JobsOK'
    BY <2>1, NoJobOK, JobChanges
  <2>3. RestOK'
    BY <1>2, <1>3, <1>4, <1>5, <1>6, <1>16, <2>2 DEF Clean, RestOK
  <2> QED
    BY <1>2, <1>16, <2>3, NoTask DEF Clean
<1>17. ASSUME NEW e \in Events, RetryTime(e)
       PROVE  IInv'
  <2>1. outbox[e] \in OutboxRow
    BY <1>1 DEF TypeOK
  <2>2. /\ outbox' \in [Events -> OutboxRow]
        /\ \A d \in Events : outbox'[d].status = outbox[d].status
    BY <1>1, <1>17, <2>1 DEF RetryTime, TypeOK, OutboxRow
  <2>3. AtMostOneActive'
    BY <1>1, <2>2 DEF AtMostOneActive, Active
  <2>4. RestOK'
    BY <1>2, <1>3, <1>4, <1>17, <2>2, <2>3, SameQueue DEF RetryTime, RestOK
  <2> QED
    BY <1>2, <1>17, <2>4, NoTask DEF RetryTime
<1>18. ASSUME NEW s \in Senders, CrashSender(s)
       PROVE  IInv'
  <2>1. RestOK'
    BY <1>2, <1>3, <1>4, <1>5, <1>18, SameQueue DEF CrashSender, RestOK
  <2> QED
    BY <1>2, <1>18, <2>1, TaskEnds DEF CrashSender, Handlers
<1>19. ASSUME NEW h \in Handlers, StatementFails(h)
       PROVE  IInv'
  <2>1. RestOK'
    BY <1>2, <1>3, <1>4, <1>5, <1>19, SameQueue DEF StatementFails, RestOK
  <2>2. PICK step \in OnError[task[h].step] : Goto(h, step)
    BY <1>19 DEF StatementFails
  <2>3. task[h].step \in {"find", "create", "mark", "load", "process", "read", "issue",
                          "complete", "failure", "failing"}
    BY <1>19 DEF StatementFails, OnError
  <2>4. task[h].event \in Events \cup {Nil} /\ task[h].locked \in BOOLEAN
    BY <1>1 DEF TypeOK, Task
  <2>5. CASE h \in Senders
    <3>1. task[h].step \in {"find", "create", "mark"}
      BY <1>1, <2>3, <2>5 DEF StepsOK, SenderSteps
    <3>2. step = "release"
      BY <2>2, <3>1 DEF OnError
    <3>3. "release" \in SenderSteps /\ "release" \in Steps
      BY DEF SenderSteps, Steps
    <3>4. task' = [task EXCEPT ![h] = Moved(h, "release", task[h].event, task[h].locked)]
      BY <1>1, <2>2, <3>2, <3>3, GotoMoves
    <3> QED
      BY <1>2, <1>19, <2>1, <2>4, <2>5, <3>3, <3>4, SenderMoves DEF StatementFails
  <2>6. CASE h \in Workers
    <3>1. task[h].step \in {"load", "process", "read", "issue", "complete", "failure", "failing"}
      BY <1>1, <2>3, <2>6 DEF StepsOK, JobSteps
    <3>2. step \in {"throw", "failing", "failure"}
      BY <2>2, <3>1 DEF OnError
    <3>3. step \in JobSteps \ {"idle"} /\ step \in Steps
      BY <3>2 DEF JobSteps, Steps
    <3>4. task' = [task EXCEPT ![h] = Moved(h, step, task[h].event, task[h].locked)]
      BY <1>1, <2>2, <3>3, GotoMoves
    <3> QED
      BY <1>2, <1>19, <2>1, <2>4, <2>6, <3>1, <3>2, <3>3, <3>4, JobMoves DEF StatementFails
  <2> QED
    BY <2>5, <2>6 DEF Handlers
<1> QED
  BY <1>9, <1>10, <1>11, <1>12, <1>13, <1>14, <1>15, <1>16, <1>17, <1>18, <1>19 DEF Environment

(***************************************************************************)
(* Taking a job, starting the worker and its recovery preserve IInv.       *)
(***************************************************************************)
LEMMA WorkerKeeps ==
    ASSUME IInv, (\E w \in Workers : TakeJob(w)) \/ StartWorker \/ Recover \/ MarkRecovered
    PROVE  IInv'
<1>1. TypeOK /\ AtMostOneActive /\ StepsOK /\ JobsOK
  BY DEF IInv
<1>2. UNCHANGED <<invoice, history>> => /\ mails' \in [Events -> 0 .. 2]
                                       /\ done' \subseteq Events
                                       /\ MailsKept
                                       /\ status' \in InvoiceStatuses
                                       /\ emailStatus' \in {"NOT_SENT", "SENT", "FAILED"}
                                       /\ SentMeansMailed'
  BY SameHistory
<1>3. UNCHANGED lock => Lease!LockType'
  BY <1>1 DEF TypeOK, Lease!LockType
<1>4. UNCHANGED outbox => AtMostOneActive' /\ outbox' \in [Events -> OutboxRow]
  BY <1>1, SameRows
<1>5. UNCHANGED main => main' \in Main /\ (main'.step = "mark" => main'.event \in Events)
  BY <1>1 DEF TypeOK, StepsOK
<1>6. UNCHANGED job => job' \in [Events -> Job] /\ JobsOK'
  BY <1>1 DEF TypeOK, JobsOK
<1>7. ASSUME NEW w \in Workers, TakeJob(w)
      PROVE  IInv'
  <2>1. PICK e \in Events :
          /\ job[e].state = "waiting"
          /\ job' = [job EXCEPT ![e].state = "active", ![e].runner = w]
          /\ task' = [task EXCEPT ![w] = Taken(e)]
    BY <1>7 DEF TakeJob
  <2>2. job[e] \in Job
    BY <1>1 DEF TypeOK
  <2> DEFINE j == [state |-> "active", made |-> job[e].made,
                   stalls |-> job[e].stalls, runner |-> w]
  <2>3. job' = [job EXCEPT ![e] = j]
    <3>1. \A r \in Workers \cup {Nil} :
            [job EXCEPT ![e].state = "active", ![e].runner = r]
              = [job EXCEPT ![e] = [state |-> "active", made |-> job[e].made,
                                    stalls |-> job[e].stalls, runner |-> r]]
      BY JobRecord DEF JobStates
    <3> QED
      BY <2>1, <3>1
  <2>4. j \in Job /\ j.made < MaxAttempts
    BY <1>1, <2>1, <2>2 DEF Job, JobStates, JobsOK
  <2>5. job' \in [Events -> Job] /\ JobsOK'
    BY <2>3, <2>4, JobChanges
  <2>6. RestOK'
    BY <1>2, <1>3, <1>4, <1>5, <1>7, <2>5 DEF TakeJob, RestOK
  <2> DEFINE x == [step |-> "load", event |-> e, seen |-> "DRAFT", locked |-> FALSE]
  <2>7. task' = [task EXCEPT ![w] = x]
    BY <2>1 DEF Taken
  <2>8. TaskOK(x, w) /\ Promise(x, mails')
    BY OutboxAssumption DEF TaskOK, Task, Steps, InvoiceStatuses, JobSteps, Promise
  <2> HIDE DEF x
  <2> QED
    BY <1>2, <1>7, <2>6, <2>7, <2>8, OneTask DEF TakeJob, Handlers
<1>8. CASE StartWorker
  <2>1. main' \in Main /\ main'.step # "mark"
    BY <1>8 DEF StartWorker, Main, Recoverable
  <2>2. RestOK'
    BY <1>2, <1>3, <1>4, <1>6, <1>8, <2>1 DEF StartWorker, RestOK
  <2> QED
    BY <1>2, <1>8, <2>2, NoTask DEF StartWorker
<1>9. CASE Recover
  <2>1. main \in Main
    BY <1>1 DEF TypeOK
  <2>2. /\ main' \in Main
        /\ main'.step = "mark" => main'.event \in Events
        /\ job' \in [Events -> Job] /\ JobsOK'
    <3>1. CASE main' = [main EXCEPT !.step = "ready"] /\ UNCHANGED job
      BY <1>6, <2>1, <3>1 DEF Main
    <3>2. ASSUME NEW e \in main.todo, AddJob(e), main' = [main EXCEPT !.step = "mark", !.event = e]
          PROVE  /\ main' \in Main /\ main'.event \in Events
                 /\ job' \in [Events -> Job] /\ JobsOK'
      <4>1. e \in Events
        BY <2>1 DEF Main
      <4>2. main' = [step |-> "mark", todo |-> main.todo, event |-> e]
        BY <2>1, <3>2 DEF Main
      <4> QED
        BY <2>1, <3>2, <4>1, <4>2, AddJobType DEF Main
    <3>3. ASSUME NEW e \in main.todo, main' = [main EXCEPT !.todo = @ \ {e}], UNCHANGED job
          PROVE  /\ main' \in Main /\ main'.step = main.step
                 /\ job' \in [Events -> Job] /\ JobsOK'
      BY <1>6, <2>1, <3>3 DEF Main
    <3> QED
      BY <1>9, <3>1, <3>2, <3>3 DEF Recover
  <2>3. RestOK'
    BY <1>2, <1>3, <1>4, <1>9, <2>2 DEF Recover, RestOK
  <2> QED
    BY <1>2, <1>9, <2>3, NoTask DEF Recover
<1>10. CASE MarkRecovered
  <2>1. main.event \in Events /\ main \in Main
    BY <1>1, <1>10 DEF MarkRecovered, StepsOK, TypeOK
  <2>2. CASE /\ IndexAllows(main.event)
             /\ Set(main.event, "ENQUEUED")
             /\ main' = [step |-> "recover", todo |-> main.todo \ {main.event}, event |-> Nil]
             /\ UNCHANGED task
    <3>1. AtMostOneActive' /\ outbox' \in [Events -> OutboxRow]
      BY <1>1, <2>1, <2>2, SetStatus DEF ActiveStatuses
    <3>2. main' \in Main /\ main'.step # "mark"
      BY <2>1, <2>2 DEF Main
    <3>3. RestOK'
      BY <1>2, <1>3, <1>6, <1>10, <3>1, <3>2 DEF MarkRecovered, RestOK
    <3> QED
      BY <1>2, <1>10, <2>2, <3>3, NoTask DEF MarkRecovered
  <2>3. CASE main' = Down /\ task' = Orphans /\ UNCHANGED outbox
    <3>1. main' \in Main /\ main'.step # "mark"
      BY <2>3 DEF Down, Main
    <3>2. RestOK'
      BY <1>2, <1>3, <1>4, <1>6, <1>10, <2>3, <3>1 DEF MarkRecovered, RestOK
    <3> QED
      BY <1>2, <1>10, <2>3, <3>2, WorkersGone DEF MarkRecovered
  <2> QED
    BY <1>10, <2>2, <2>3 DEF MarkRecovered
<1> QED
  BY <1>7, <1>8, <1>9, <1>10

(***************************************************************************)
(* IInv holds at the start and every step keeps it.                        *)
(***************************************************************************)
THEOREM Invariance == Spec => []IInv
<1>1. Init => IInv
  <2> SUFFICES ASSUME Init PROVE IInv
    OBVIOUS
  <2>1. TypeOK
    BY NoJobOK DEF Init, TypeOK, InvoiceStatuses, OutboxRow, Lease!LockType, Idle, Task, Steps,
                   Down, Main
  <2>2. StepsOK
    BY DEF Init, StepsOK, Idle, SenderSteps, JobSteps, Down, Handlers
  <2>3. JobsOK
    BY NoJobOK DEF Init, JobsOK, NoJob
  <2>4. MailedFirst
    BY DEF Init, MailedFirst, Idle, Handlers
  <2>5. SentMeansMailed
    BY DEF Init, SentMeansMailed
  <2>6. AtMostOneActive
    BY DEF Init, AtMostOneActive, Active, ActiveStatuses
  <2> QED
    BY <2>1, <2>2, <2>3, <2>4, <2>5, <2>6 DEF IInv
<1>2. IInv /\ [Next]_vars => IInv'
  <2> SUFFICES ASSUME IInv, [Next]_vars PROVE IInv'
    OBVIOUS
  <2>1. CASE UNCHANGED vars
    BY <2>1 DEF vars, IInv, TypeOK, Lease!LockType, StepsOK, JobsOK, MailedFirst,
                SentMeansMailed, AtMostOneActive, Active
  <2>2. CASE Next
    BY <2>2, RequestKeeps, JobKeeps, WorkerKeeps, EnvironmentKeeps DEF Next
  <2> QED
    BY <2>1, <2>2
<1> QED
  BY <1>1, <1>2, PTL DEF Spec

(***************************************************************************)
(* Every variable keeps its type, whatever fails: in particular no job     *)
(* makes more attempts than it has (EndJob, Stall).                        *)
(***************************************************************************)
THEOREM TypeCorrect == Spec => []TypeOK
<1>1. IInv => TypeOK
  BY DEF IInv
<1> QED
  BY <1>1, Invariance, PTL

(***************************************************************************)
(* No invoice is issued or shown as emailed, and no event completed,       *)
(* before the provider accepted a mail, whatever fails                     *)
(* (deliverInvoiceEmail, processInvoiceEmailOutbox).                       *)
(***************************************************************************)
THEOREM SentWasMailed == Spec => []SentMeansMailed
<1>1. IInv => SentMeansMailed
  BY DEF IInv
<1> QED
  BY <1>1, Invariance, PTL

-----------------------------------------------------------------------------
(***************************************************************************)
(* While locks can be relied on, a step of one handler that changes the    *)
(* lock only by taking it when it is free or by giving it up when it has   *)
(* it leaves LockKept.                                                     *)
(***************************************************************************)
DeliverySteps == {"process", "read", "mail", "issue", "failure", "complete", "failing"}

LEMMA OneLocked ==
    ASSUME TypeOK, LockKept, NEW h \in Handlers, NEW x, task' = [task EXCEPT ![h] = x],
           lock \notin {Nil, h} => lock' = lock,
           x.locked => lock' = h,
           h \in Workers /\ x.step \in DeliverySteps => x.locked
    PROVE  LockKept'
<1>1. task'[h] = x /\ \A g \in Handlers \ {h} : task'[g] = task[g]
  BY DEF TypeOK
<1>2. ASSUME NEW g \in Handlers, task'[g].locked
      PROVE  lock' = g
  <2>1. CASE g = h
    BY <1>1, <1>2, <2>1
  <2>2. CASE g # h
    <3>1. lock = g
      BY <1>1, <1>2, <2>2 DEF LockKept
    <3>2. g # Nil
      BY OutboxAssumption
    <3> QED
      BY <2>2, <3>1, <3>2
  <2> QED
    BY <2>1, <2>2
<1>3. ASSUME NEW w \in Workers, task'[w].step \in DeliverySteps
      PROVE  task'[w].locked
  <2>1. w \in Handlers
    BY DEF Handlers
  <2>2. CASE w = h
    BY <1>1, <1>3, <2>2
  <2>3. CASE w # h
    BY <1>1, <1>3, <2>1, <2>3 DEF LockKept, Delivering, DeliverySteps
  <2> QED
    BY <2>2, <2>3
<1> QED
  BY <1>2, <1>3 DEF LockKept, Delivering, DeliverySteps

(***************************************************************************)
(* A handler that goes on while the lock stays as it is.                   *)
(***************************************************************************)
LEMMA GotoLocked ==
    ASSUME TypeOK, LockKept, NEW h \in Handlers, NEW step \in Steps, Goto(h, step), UNCHANGED lock,
           h \in Workers /\ step \in DeliverySteps => task[h].step \in DeliverySteps
    PROVE  LockKept'
<1> DEFINE x == Moved(h, step, task[h].event, task[h].locked)
<1>1. task' = [task EXCEPT ![h] = x]
  BY GotoMoves
<1>2. x.step = step /\ x.locked = task[h].locked
  BY DEF Moved
<1>3. x.locked => lock' = h
  BY <1>2 DEF LockKept
<1>4. h \in Workers /\ step \in DeliverySteps => x.locked
  BY <1>2 DEF LockKept, Delivering, DeliverySteps
<1> HIDE DEF x
<1> QED
  BY <1>1, <1>2, <1>3, <1>4, OneLocked

(***************************************************************************)
(* A handler that is given the lock, or finds it taken.                    *)
(***************************************************************************)
LEMMA ProceedLocked ==
    ASSUME TypeOK, LockKept, Reliable, NEW h \in Handlers, NEW step \in Steps, Proceed(h, step)
    PROVE  LockKept'
<1>1. "redis" \notin Faults
  BY DEF Reliable
<1>2. Lease!Granted(h) /\ task' = [task EXCEPT ![h].step = step, ![h].locked = TRUE]
  BY <1>1 DEF Proceed
<1> DEFINE x == Moved(h, step, task[h].event, TRUE)
<1>3. task' = [task EXCEPT ![h] = x]
  BY <1>2, Moves
<1>4. x.locked = TRUE /\ lock = Nil /\ lock' = h
  BY <1>2 DEF Moved, Lease!Granted
<1> HIDE DEF x
<1> QED
  BY <1>3, <1>4, OneLocked

(***************************************************************************)
(* A handler that is over has given its lock back or never had it.         *)
(***************************************************************************)
LEMMA IdleLocked ==
    ASSUME TypeOK, LockKept, NEW h \in Handlers, task' = [task EXCEPT ![h] = Idle],
           lock' = lock \/ Lease!Release(h)
    PROVE  LockKept'
<1>1. Idle.locked = FALSE /\ Idle.step \notin DeliverySteps
  BY DEF Idle, DeliverySteps
<1>2. lock \notin {Nil, h} => lock' = lock
  BY DEF Lease!Release
<1> QED
  BY <1>1, <1>2, OneLocked

(***************************************************************************)
(* A step that changes neither handlers nor the lock.                      *)
(***************************************************************************)
LEMMA SameLocked ==
    ASSUME LockKept, UNCHANGED <<task, lock>>
    PROVE  LockKept'
BY DEF LockKept, Delivering

LEMMA OrphansLocked ==
    ASSUME TypeOK, LockKept, task' = Orphans, UNCHANGED lock
    PROVE  LockKept'
<1>1. /\ \A w \in Workers : task'[w] = Idle
      /\ \A s \in Senders : task'[s] = task[s]
  BY OutboxAssumption DEF Orphans, Handlers
<1>2. Idle.locked = FALSE /\ Idle.step = "idle"
  BY DEF Idle
<1> QED
  BY <1>1, <1>2 DEF LockKept, Delivering, Handlers

(***************************************************************************)
(* Every step leaves LockKept while locks can be relied on.                *)
(***************************************************************************)
LEMMA LockStep ==
    ASSUME IInv, LockKept, Reliable, Next
    PROVE  LockKept'
<1>1. TypeOK /\ StepsOK
  BY DEF IInv
<1>2. "redis" \notin Faults /\ "wipe" \notin Faults /\ "lease" \notin Faults
  BY DEF Reliable
<1>3. SenderSteps \subseteq Steps /\ JobSteps \subseteq Steps
  BY DEF SenderSteps, JobSteps, Steps
<1>4. ASSUME NEW s \in Senders, Send(s) \/ SenderStep(s)
      PROVE  LockKept'
  <2>1. s \in Handlers /\ s \notin Workers
    BY OutboxAssumption DEF Handlers
  <2>2. ASSUME NEW step \in SenderSteps, Goto(s, step), UNCHANGED lock
        PROVE  LockKept'
    BY <1>1, <1>3, <2>1, <2>2, GotoLocked
  <2>3. CASE Send(s) \/ FindActive(s) \/ Enqueue(s) \/ MarkEnqueued(s)
    <3>1. PICK step \in {"lock", "release", "create", "mark"} : Goto(s, step) /\ UNCHANGED lock
      BY <2>3 DEF Send, FindActive, Enqueue, MarkEnqueued
    <3> QED
      BY <2>2, <3>1 DEF SenderSteps
  <2>4. CASE LockToSend(s)
    <3>1. CASE Proceed(s, "find")
      BY <1>1, <1>3, <2>1, <3>1, ProceedLocked DEF SenderSteps
    <3>2. CASE Lease!Busy /\ Goto(s, "idle")
      BY <2>2, <3>2 DEF Lease!Busy, SenderSteps
    <3> QED
      BY <2>4, <3>1, <3>2 DEF LockToSend
  <2>5. CASE CreateEvent(s)
    <3>1. UNCHANGED lock
      BY <2>5 DEF CreateEvent
    <3>2. CASE Goto(s, "release")
      BY <2>2, <3>1, <3>2 DEF SenderSteps
    <3>3. ASSUME NEW e \in Events, task' = [task EXCEPT ![s].step = "enqueue", ![s].event = e]
          PROVE  LockKept'
      <4>1. "enqueue" \in Steps
        BY DEF Steps
      <4>2. \A d \in Events :
              [task EXCEPT ![s].step = "enqueue", ![s].event = d]
                = [task EXCEPT ![s] = Moved(s, "enqueue", d, task[s].locked)]
        BY <1>1, <2>1, <4>1, Moves
      <4> DEFINE x == Moved(s, "enqueue", e, task[s].locked)
      <4>3. task' = [task EXCEPT ![s] = x]
        BY <3>3, <4>2
      <4>4. x.locked = task[s].locked
        BY DEF Moved
      <4>5. x.locked => lock' = s
        BY <2>1, <3>1, <4>4 DEF LockKept
      <4> HIDE DEF x
      <4> QED
        BY <1>1, <2>1, <3>1, <4>3, <4>5, OneLocked
    <3> QED
      BY <2>5, <3>2, <3>3 DEF CreateEvent
  <2>6. CASE ReleaseSender(s)
    BY <1>1, <1>2, <2>1, <2>6, IdleLocked DEF ReleaseSender, GiveBack
  <2> QED
    BY <1>4, <2>3, <2>4, <2>5, <2>6 DEF SenderStep
<1>5. ASSUME NEW w \in Workers, JobStep(w)
      PROVE  LockKept'
  <2>1. w \in Handlers
    BY DEF Handlers
  <2>2. ASSUME NEW step \in JobSteps, Goto(w, step), UNCHANGED lock,
               step \in DeliverySteps => task[w].step \in DeliverySteps
        PROVE  LockKept'
    BY <1>1, <1>3, <2>1, <2>2, GotoLocked
  <2>3. CASE Load(w)
    <3>1. PICK step \in {"succeed", "lock"} : Goto(w, step) /\ UNCHANGED lock
      BY <2>3 DEF Load
    <3> QED
      BY <2>2, <3>1 DEF JobSteps, DeliverySteps
  <2>4. CASE LockToProcess(w)
    <3>1. CASE Proceed(w, "process")
      BY <1>1, <1>3, <2>1, <3>1, ProceedLocked DEF JobSteps
    <3>2. CASE Lease!Busy /\ Goto(w, "throw")
      BY <2>2, <3>2 DEF Lease!Busy, JobSteps, DeliverySteps
    <3> QED
      BY <2>4, <3>1, <3>2 DEF LockToProcess
  <2>5. CASE ReadInvoice(w)
    <3> DEFINE x == [task[w] EXCEPT !.step = "mail", !.seen = status]
    <3>1. task' = [task EXCEPT ![w] = x] /\ UNCHANGED lock
      BY <1>1, <2>5 DEF ReadInvoice, TypeOK
    <3>2. task[w] \in Task /\ task[w].step = "read"
      BY <1>1, <2>1, <2>5 DEF TypeOK, ReadInvoice, At
    <3>3. x.locked = task[w].locked
      BY <3>2 DEF Task
    <3>4. task[w].locked /\ lock = w
      BY <2>1, <3>2 DEF LockKept, Delivering
    <3> HIDE DEF x
    <3> QED
      BY <1>1, <2>1, <3>1, <3>3, <3>4, OneLocked
  <2>6. CASE \/ MarkProcessing(w) \/ SendMail(w) \/ Issue(w)
             \/ RecordFailure(w) \/ MarkCompleted(w) \/ MarkFailed(w)
    <3>1. PICK step \in JobSteps : Goto(w, step) /\ UNCHANGED lock
      BY <2>6 DEF MarkProcessing, SendMail, Issue, RecordFailure, MarkCompleted, MarkFailed, JobSteps
    <3>2. task[w].step \in DeliverySteps
      BY <2>6 DEF MarkProcessing, SendMail, Issue, RecordFailure, MarkCompleted, MarkFailed, At,
                  DeliverySteps
    <3> QED
      BY <2>2, <3>1, <3>2
  <2>7. CASE EndJob(w)
    BY <1>1, <1>2, <2>1, <2>7, IdleLocked DEF EndJob, GiveBack
  <2> QED
    BY <1>5, <2>3, <2>4, <2>5, <2>6, <2>7 DEF JobStep
<1>6. ASSUME NEW w \in Workers, TakeJob(w)
      PROVE  LockKept'
  <2>1. PICK e \in Events : task' = [task EXCEPT ![w] = Taken(e)] /\ UNCHANGED lock
    BY <1>6 DEF TakeJob
  <2>2. Taken(e).locked = FALSE /\ Taken(e).step \notin DeliverySteps
    BY DEF Taken, DeliverySteps
  <2> QED
    BY <1>1, <2>1, <2>2, OneLocked DEF Handlers
<1>7. CASE StartWorker \/ Recover
  BY <1>7, SameLocked DEF StartWorker, Recover
<1>8. CASE MarkRecovered
  BY <1>1, <1>8, SameLocked, OrphansLocked DEF MarkRecovered
<1>9. CASE Environment
  <2>1. CASE Wipe
    BY <1>2, <2>1 DEF Wipe
  <2>2. CASE ExpireLock
    <3>1. UNCHANGED task /\ ~task[lock].locked
      BY <1>2, <2>2 DEF ExpireLock
    <3>2. \A h \in Handlers : ~task[h].locked
      BY <3>1 DEF LockKept
    <3> QED
      BY <3>1, <3>2 DEF LockKept, Delivering, Handlers
  <2>3. CASE CrashWorker
    BY <1>1, <2>3, OrphansLocked DEF CrashWorker
  <2>4. CASE CancelInvoice \/ ViewInvoice
    BY <2>4, SameLocked DEF CancelInvoice, ViewInvoice
  <2>5. ASSUME NEW e \in Events, Backoff(e) \/ Stall(e) \/ Clean(e) \/ RetryTime(e)
        PROVE  LockKept'
    BY <2>5, SameLocked DEF Backoff, Stall, Clean, RetryTime
  <2>6. ASSUME NEW s \in Senders, CrashSender(s)
        PROVE  LockKept'
    BY <1>1, <2>6, IdleLocked DEF CrashSender, Handlers
  <2>7. ASSUME NEW h \in Handlers, StatementFails(h)
        PROVE  LockKept'
    <3>1. PICK step \in OnError[task[h].step] : Goto(h, step) /\ UNCHANGED lock
      BY <2>7 DEF StatementFails
    <3>2. task[h].step \in DOMAIN OnError
      BY <2>7 DEF StatementFails
    <3>3. step \in {"release", "throw", "failing", "failure"}
      BY <3>1, <3>2 DEF OnError
    <3>4. step \in DeliverySteps => task[h].step \in DeliverySteps
      BY <3>1, <3>2 DEF OnError, DeliverySteps
    <3> QED
      BY <1>1, <3>1, <3>3, <3>4, GotoLocked DEF Steps
  <2> QED
    BY <1>9, <2>1, <2>2, <2>3, <2>4, <2>5, <2>6, <2>7 DEF Environment
<1> QED
  BY <1>4, <1>5, <1>6, <1>7, <1>8, <1>9 DEF Next

(***************************************************************************)
(* While Redis answers and leases outlast their holders, no two jobs are   *)
(* between looking at the invoice and recording what became of it,         *)
(* although BullMQ may give a running job out again and processes die      *)
(* (processInvoiceEmailOutbox under redis-lock.ts).                        *)
(***************************************************************************)
THEOREM DeliversAlone ==
    ASSUME Reliable
    PROVE  Spec => []OneDelivery
<1>1. Init => LockKept
  BY DEF Init, LockKept, Delivering, Idle, Handlers
<1>2. IInv /\ LockKept /\ [Next]_vars => LockKept'
  <2> SUFFICES ASSUME IInv, LockKept, [Next]_vars PROVE LockKept'
    OBVIOUS
  <2>1. CASE UNCHANGED vars
    BY <2>1, SameLocked DEF vars
  <2>2. CASE Next
    BY <2>2, LockStep
  <2> QED
    BY <2>1, <2>2
<1>3. LockKept => OneDelivery
  <2> SUFFICES ASSUME LockKept, NEW v \in Delivering, NEW w \in Delivering PROVE v = w
    BY DEF OneDelivery
  <2>1. v \in Handlers /\ w \in Handlers
    BY DEF Delivering, Handlers
  <2> QED
    BY <2>1 DEF LockKept
<1> QED
  BY <1>1, <1>2, <1>3, Invariance, PTL DEF Spec

-----------------------------------------------------------------------------
(***************************************************************************)
(* A step of one handler leaves CompletionRecorded when it gets to succeed *)
(* only with a completed event, and rows and jobs do.                      *)
(***************************************************************************)
RowsRecorded == \A e \in Events : outbox[e].status = "COMPLETED" => e \in done

JobsRecorded == \A e \in Events : job[e].state = "completed" => e \in done

LEMMA OneRecorded ==
    ASSUME TypeOK, CompletionRecorded, NEW h \in Handlers, NEW x,
           task' = [task EXCEPT ![h] = x],
           h \in Workers /\ x.step = "succeed" => x.event \in done',
           done \subseteq done', RowsRecorded', JobsRecorded'
    PROVE  CompletionRecorded'
<1>1. task'[h] = x /\ \A g \in Handlers \ {h} : task'[g] = task[g]
  BY DEF TypeOK
<1>2. \A w \in Workers : task'[w].step = "succeed" => task'[w].event \in done'
  BY <1>1 DEF CompletionRecorded, Handlers
<1> QED
  BY <1>2 DEF CompletionRecorded, RowsRecorded, JobsRecorded, CompletedJobIsDone

(***************************************************************************)
(* Rows and jobs that are left alone, or become anything but completed.    *)
(***************************************************************************)
LEMMA SameRecorded ==
    ASSUME CompletionRecorded, UNCHANGED done
    PROVE  /\ UNCHANGED outbox => RowsRecorded'
           /\ UNCHANGED job => JobsRecorded'
BY DEF CompletionRecorded, CompletedJobIsDone, RowsRecorded, JobsRecorded

LEMMA RowRecorded ==
    ASSUME TypeOK, CompletionRecorded, UNCHANGED done, NEW e \in Events, NEW row,
           outbox' = [outbox EXCEPT ![e] = row],
           row.status # "COMPLETED" \/ row.status = outbox[e].status
    PROVE  RowsRecorded'
BY DEF TypeOK, CompletionRecorded, RowsRecorded

LEMMA SetRecorded ==
    ASSUME TypeOK, CompletionRecorded, UNCHANGED done, NEW e \in Events,
           NEW s \in ActiveStatuses, Set(e, s)
    PROVE  RowsRecorded'
<1>1. outbox[e] \in OutboxRow
  BY DEF TypeOK
<1>2. [outbox[e] EXCEPT !.status = s].status = s
  BY <1>1 DEF OutboxRow
<1>3. s # "COMPLETED"
  BY DEF ActiveStatuses
<1> QED
  BY <1>2, <1>3, RowRecorded DEF Set

LEMMA JobRecorded ==
    ASSUME TypeOK, CompletionRecorded, UNCHANGED done, NEW e \in Events, NEW j,
           job' = [job EXCEPT ![e] = j], j.state # "completed" \/ e \in done
    PROVE  JobsRecorded'
BY DEF TypeOK, CompletionRecorded, CompletedJobIsDone, JobsRecorded

LEMMA AddRecorded ==
    ASSUME TypeOK, CompletionRecorded, UNCHANGED done, NEW e \in Events, AddJob(e)
    PROVE  JobsRecorded'
<1>1. CASE UNCHANGED job
  BY <1>1, SameRecorded
<1>2. CASE job' = [job EXCEPT ![e].state = "waiting"]
  <2>1. job[e] \in Job
    BY DEF TypeOK
  <2>2. [job[e] EXCEPT !.state = "waiting"].state = "waiting"
    BY <2>1 DEF Job
  <2> QED
    BY <1>2, <2>2, JobRecorded
<1> QED
  BY <1>1, <1>2 DEF AddJob

(***************************************************************************)
(* A handler that goes on to a step other than succeed, or idles.          *)
(***************************************************************************)
LEMMA GotoRecorded ==
    ASSUME TypeOK, CompletionRecorded, NEW h \in Handlers, NEW step \in Steps, Goto(h, step),
           h \in Workers /\ step = "succeed" => task[h].event \in done',
           done \subseteq done', RowsRecorded', JobsRecorded'
    PROVE  CompletionRecorded'
<1> DEFINE x == Moved(h, step, task[h].event, task[h].locked)
<1>1. task' = [task EXCEPT ![h] = x]
  BY GotoMoves
<1>2. x.step = step /\ x.event = task[h].event
  BY DEF Moved
<1> HIDE DEF x
<1> QED
  BY <1>1, <1>2, OneRecorded

LEMMA ProceedRecorded ==
    ASSUME TypeOK, CompletionRecorded, NEW h \in Handlers, NEW step \in Steps \ {"succeed"},
           Proceed(h, step), UNCHANGED <<outbox, job, done>>
    PROVE  CompletionRecorded'
<1>1. RowsRecorded' /\ JobsRecorded'
  BY SameRecorded
<1>2. CASE Goto(h, step)
  BY <1>1, <1>2, GotoRecorded
<1>3. CASE task' = [task EXCEPT ![h].step = step, ![h].locked = TRUE]
  <2> DEFINE x == Moved(h, step, task[h].event, TRUE)
  <2>1. task' = [task EXCEPT ![h] = x]
    BY <1>3, Moves
  <2>2. x.step # "succeed"
    BY DEF Moved
  <2> HIDE DEF x
  <2> QED
    BY <1>1, <2>1, <2>2, OneRecorded
<1> QED
  BY <1>2, <1>3 DEF Proceed

LEMMA IdleRecorded ==
    ASSUME TypeOK, CompletionRecorded, NEW h \in Handlers, task' = [task EXCEPT ![h] = Idle],
           UNCHANGED <<outbox, done>>, JobsRecorded'
    PROVE  CompletionRecorded'
<1>1. Idle.step # "succeed"
  BY DEF Idle
<1> QED
  BY <1>1, OneRecorded, SameRecorded

LEMMA OrphansRecorded ==
    ASSUME CompletionRecorded, task' = Orphans, UNCHANGED <<outbox, job, done>>
    PROVE  CompletionRecorded'
<1>1. \A w \in Workers : task'[w] = Idle
  BY DEF Orphans, Handlers
<1>2. Idle.step # "succeed"
  BY DEF Idle
<1> QED
  BY <1>1, <1>2 DEF CompletionRecorded, CompletedJobIsDone

LEMMA StillRecorded ==
    ASSUME CompletionRecorded, UNCHANGED <<task, done>>, RowsRecorded', JobsRecorded'
    PROVE  CompletionRecorded'
BY DEF CompletionRecorded, CompletedJobIsDone, RowsRecorded, JobsRecorded

(***************************************************************************)
(* Every step leaves CompletionRecorded, whatever fails.                   *)
(***************************************************************************)
LEMMA RequestRecorded ==
    ASSUME IInv, CompletionRecorded, NEW s \in Senders, Send(s) \/ SenderStep(s)
    PROVE  CompletionRecorded'
<1>1. TypeOK /\ s \in Handlers /\ s \notin Workers
  BY OutboxAssumption DEF IInv, Handlers
<1>2. UNCHANGED done
  BY DEF Send, SenderStep, LockToSend, FindActive, CreateEvent, Enqueue, MarkEnqueued,
         ReleaseSender, history
<1>3. {"lock", "idle", "find", "create", "enqueue", "mark", "release"} \subseteq Steps
  BY DEF Steps
<1>4. CASE Send(s) \/ FindActive(s)
  <2>1. PICK step \in {"lock", "release", "create"} : Goto(s, step) /\ UNCHANGED <<outbox, job>>
    BY <1>4 DEF Send, FindActive, queue
  <2> QED
    BY <1>1, <1>2, <1>3, <2>1, GotoRecorded, SameRecorded
<1>5. CASE LockToSend(s)
  <2>1. UNCHANGED <<outbox, job>>
    BY <1>5 DEF LockToSend, queue
  <2>2. CASE Proceed(s, "find")
    BY <1>1, <1>2, <2>1, <2>2, ProceedRecorded DEF Steps
  <2>3. CASE Goto(s, "idle")
    BY <1>1, <1>2, <1>3, <2>1, <2>3, GotoRecorded, SameRecorded
  <2> QED
    BY <1>5, <2>2, <2>3 DEF LockToSend
<1>6. CASE CreateEvent(s)
  <2>1. UNCHANGED job
    BY <1>6 DEF CreateEvent, queue
  <2>2. CASE Goto(s, "release") /\ UNCHANGED outbox
    BY <1>1, <1>2, <1>3, <2>1, <2>2, GotoRecorded, SameRecorded
  <2>3. ASSUME NEW e \in Events,
               outbox' = [outbox EXCEPT ![e] = [status |-> "PENDING", available |-> TRUE]],
               task' = [task EXCEPT ![s].step = "enqueue", ![s].event = e]
        PROVE  CompletionRecorded'
    <3>1. \A d \in Events :
            [task EXCEPT ![s].step = "enqueue", ![s].event = d]
              = [task EXCEPT ![s] = Moved(s, "enqueue", d, task[s].locked)]
      BY <1>1, <1>3, Moves
    <3>2. task' = [task EXCEPT ![s] = Moved(s, "enqueue", e, task[s].locked)]
      BY <2>3, <3>1
    <3>3. RowsRecorded'
      BY <1>1, <1>2, <2>3, RowRecorded
    <3> QED
      BY <1>1, <1>2, <2>1, <3>2, <3>3, OneRecorded, SameRecorded
  <2> QED
    BY <1>6, <2>2, <2>3 DEF CreateEvent
<1>7. CASE Enqueue(s)
  <2>1. task[s].event \in Events /\ UNCHANGED outbox
    BY <1>7 DEF IInv, StepsOK, Enqueue, At
  <2>2. AddJob(task[s].event) \/ UNCHANGED job
    BY <1>7 DEF Enqueue
  <2>3. JobsRecorded'
    BY <1>1, <1>2, <2>1, <2>2, AddRecorded, SameRecorded
  <2>4. PICK step \in {"mark", "release"} : Goto(s, step)
    BY <1>7 DEF Enqueue
  <2> QED
    BY <1>1, <1>2, <1>3, <2>1, <2>3, <2>4, GotoRecorded, SameRecorded
<1>8. CASE MarkEnqueued(s)
  <2>1. task[s].event \in Events /\ UNCHANGED job
    BY <1>8 DEF IInv, StepsOK, MarkEnqueued, At, queue
  <2>2. Set(task[s].event, "ENQUEUED") \/ UNCHANGED outbox
    BY <1>8 DEF MarkEnqueued
  <2>3. RowsRecorded'
    BY <1>1, <1>2, <2>1, <2>2, SetRecorded, SameRecorded DEF ActiveStatuses
  <2>4. Goto(s, "release")
    BY <1>8 DEF MarkEnqueued
  <2> QED
    BY <1>1, <1>2, <1>3, <2>1, <2>3, <2>4, GotoRecorded, SameRecorded
<1>9. CASE ReleaseSender(s)
  <2>1. task' = [task EXCEPT ![s] = Idle] /\ UNCHANGED <<outbox, job>>
    BY <1>9 DEF ReleaseSender, queue
  <2> QED
    BY <1>1, <1>2, <2>1, IdleRecorded, SameRecorded
<1> QED
  BY <1>4, <1>5, <1>6, <1>7, <1>8, <1>9 DEF SenderStep

LEMMA TakenRecorded ==
    ASSUME IInv, CompletionRecorded, NEW w \in Workers, TakeJob(w)
    PROVE  CompletionRecorded'
<1>1. TypeOK /\ w \in Handlers
  BY DEF IInv, Handlers
<1>2. PICK e \in Events : /\ job' = [job EXCEPT ![e].state = "active", ![e].runner = w]
                          /\ task' = [task EXCEPT ![w] = Taken(e)]
                          /\ UNCHANGED <<outbox, done>>
  BY DEF TakeJob, history
<1>3. job[e] \in Job /\ job \in [Events -> Job]
  BY <1>1 DEF TypeOK
<1> DEFINE j == [[job[e] EXCEPT !.state = "active"] EXCEPT !.runner = w]
<1>4. job' = [job EXCEPT ![e] = j]
  BY <1>2, <1>3
<1>5. j.state = "active"
  BY <1>3 DEF Job
<1> HIDE DEF j
<1>6. JobsRecorded'
  BY <1>1, <1>2, <1>4, <1>5, JobRecorded
<1>7. Taken(e).step # "succeed"
  BY DEF Taken
<1> QED
  BY <1>1, <1>2, <1>6, <1>7, OneRecorded, SameRecorded

LEMMA JobStepRecorded ==
    ASSUME IInv, CompletionRecorded, NEW w \in Workers, JobStep(w)
    PROVE  CompletionRecorded'
<1>1. TypeOK /\ w \in Handlers
  BY DEF IInv, Handlers
<1>2. JobSteps \subseteq Steps
  BY DEF JobSteps, Steps
<1>3. task[w].step # "idle" => task[w].event \in Events
  BY DEF IInv, StepsOK
<1>4. CASE Load(w)
  <2>1. UNCHANGED <<outbox, job, done>> /\ task[w].event \in Events
    BY <1>3, <1>4 DEF Load, queue, history, At
  <2>2. CASE outbox[task[w].event].status = "COMPLETED"
    <3>1. Goto(w, "succeed") /\ task[w].event \in done
      BY <1>4, <2>1, <2>2 DEF Load, CompletionRecorded
    <3> QED
      BY <1>1, <1>2, <2>1, <3>1, GotoRecorded, SameRecorded DEF JobSteps
  <2>3. CASE outbox[task[w].event].status # "COMPLETED"
    <3>1. Goto(w, "lock")
      BY <1>4, <2>3 DEF Load
    <3> QED
      BY <1>1, <1>2, <2>1, <3>1, GotoRecorded, SameRecorded DEF JobSteps
  <2> QED
    BY <2>2, <2>3
<1>5. CASE LockToProcess(w)
  <2>1. UNCHANGED <<outbox, job, done>>
    BY <1>5 DEF LockToProcess, queue, history
  <2>2. CASE Proceed(w, "process")
    BY <1>1, <2>1, <2>2, ProceedRecorded DEF Steps
  <2>3. CASE Goto(w, "throw")
    BY <1>1, <1>2, <2>1, <2>3, GotoRecorded, SameRecorded DEF JobSteps
  <2> QED
    BY <1>5, <2>2, <2>3 DEF LockToProcess
<1>6. CASE MarkProcessing(w)
  <2>1. task[w].event \in Events /\ UNCHANGED <<job, done>>
    BY <1>3, <1>6 DEF MarkProcessing, At, queue, history
  <2>2. Set(task[w].event, "PROCESSING") \/ UNCHANGED outbox
    BY <1>6 DEF MarkProcessing
  <2>3. RowsRecorded'
    BY <1>1, <2>1, <2>2, SetRecorded, SameRecorded DEF ActiveStatuses
  <2>4. PICK step \in {"read", "failing"} : Goto(w, step)
    BY <1>6 DEF MarkProcessing
  <2> QED
    BY <1>1, <1>2, <2>1, <2>3, <2>4, GotoRecorded, SameRecorded DEF JobSteps
<1>7. CASE ReadInvoice(w)
  <2> DEFINE x == [[task[w] EXCEPT !.step = "mail"] EXCEPT !.seen = status]
  <2>1. task[w] \in Task /\ task \in [Handlers -> Task]
    BY <1>1 DEF TypeOK
  <2>2. task' = [task EXCEPT ![w] = x] /\ UNCHANGED <<outbox, job, done>>
    BY <1>7, <2>1 DEF ReadInvoice, queue, history
  <2>3. x.step = "mail"
    BY <2>1 DEF Task
  <2> HIDE DEF x
  <2> QED
    BY <1>1, <2>2, <2>3, OneRecorded, SameRecorded
<1>8. CASE SendMail(w) \/ Issue(w) \/ RecordFailure(w)
  <2>1. PICK step \in {"issue", "failure", "complete", "failing"} : Goto(w, step)
    BY <1>8 DEF SendMail, Issue, RecordFailure
  <2>2. UNCHANGED <<outbox, job, done>>
    BY <1>8 DEF SendMail, Issue, RecordFailure, queue, history
  <2> QED
    BY <1>1, <1>2, <2>1, <2>2, GotoRecorded, SameRecorded DEF JobSteps
<1>9. CASE MarkCompleted(w)
  <2>1. /\ task[w].event \in Events
        /\ Set(task[w].event, "COMPLETED")
        /\ done' = done \cup {task[w].event}
        /\ Goto(w, "succeed")
        /\ UNCHANGED job
    BY <1>3, <1>9 DEF MarkCompleted, At, queue
  <2>2. \A e \in Events \ {task[w].event} : outbox'[e] = outbox[e]
    BY <1>1, <2>1 DEF TypeOK, Set
  <2>3. RowsRecorded'
    BY <2>1, <2>2 DEF RowsRecorded, CompletionRecorded
  <2>4. JobsRecorded'
    BY <2>1 DEF JobsRecorded, CompletionRecorded, CompletedJobIsDone
  <2> QED
    BY <1>1, <1>2, <2>1, <2>3, <2>4, GotoRecorded DEF JobSteps
<1>10. CASE MarkFailed(w)
  <2>1. task[w].event \in Events /\ UNCHANGED <<job, done>> /\ Goto(w, "throw")
    BY <1>3, <1>10 DEF MarkFailed, At, queue, history
  <2>2. \/ UNCHANGED outbox
        \/ outbox' = [outbox EXCEPT ![task[w].event] = [status |-> "PENDING", available |-> FALSE]]
    BY <1>10 DEF MarkFailed
  <2>3. RowsRecorded'
    BY <1>1, <2>1, <2>2, RowRecorded, SameRecorded
  <2> QED
    BY <1>1, <1>2, <2>1, <2>3, GotoRecorded, SameRecorded DEF JobSteps
<1>11. CASE EndJob(w)
  <2> DEFINE e == task[w].event
  <2>1. /\ e \in Events
        /\ task[w].step \in {"succeed", "throw"}
        /\ task' = [task EXCEPT ![w] = Idle]
        /\ UNCHANGED <<outbox, done>>
    BY <1>3, <1>11 DEF EndJob, At, history
  <2>2. UNCHANGED job \/ job' = [job EXCEPT ![e] = Ended(job[e], task[w].step)]
    BY <1>11 DEF EndJob
  <2>3. job[e] \in Job
    BY <1>1, <2>1 DEF TypeOK
  <2>4. task[w].step = "throw" => Ended(job[e], task[w].step).state # "completed"
    BY <2>1, <2>3 DEF Ended, Job
  <2>5. task[w].step = "succeed" => e \in done
    BY DEF CompletionRecorded
  <2> HIDE DEF e
  <2>6. JobsRecorded'
    BY <1>1, <2>1, <2>2, <2>4, <2>5, JobRecorded, SameRecorded
  <2> QED
    BY <1>1, <2>1, <2>6, IdleRecorded
<1> QED
  BY <1>4, <1>5, <1>6, <1>7, <1>8, <1>9, <1>10, <1>11 DEF JobStep

LEMMA EnvironmentRecorded ==
    ASSUME IInv, CompletionRecorded, Environment
    PROVE  CompletionRecorded'
<1>1. TypeOK
  BY DEF IInv
<1>2. CASE Wipe
  <2>1. UNCHANGED <<outbox, task, done>> /\ \A e \in Events : job'[e].state = "none"
    BY <1>2 DEF Wipe, NoJob, history
  <2> QED
    BY <2>1 DEF CompletionRecorded, CompletedJobIsDone
<1>3. CASE ExpireLock \/ CancelInvoice \/ ViewInvoice
  BY <1>3, SameRecorded, StillRecorded
     DEF ExpireLock, CancelInvoice, ViewInvoice, queue, history
<1>4. CASE CrashWorker
  BY <1>4, OrphansRecorded DEF CrashWorker, history
<1>5. ASSUME NEW e \in Events, Backoff(e) \/ Stall(e) \/ Clean(e)
      PROVE  CompletionRecorded'
  <2>1. UNCHANGED <<outbox, task, done>> /\ job[e] \in Job /\ job \in [Events -> Job]
    BY <1>1, <1>5 DEF Backoff, Stall, Clean, TypeOK, history
  <2>2. CASE Backoff(e)
    <3>1. [job[e] EXCEPT !.state = "waiting"].state # "completed"
      BY <2>1 DEF Job
    <3> QED
      BY <1>1, <2>1, <2>2, <3>1, JobRecorded, SameRecorded, StillRecorded DEF Backoff
  <2>3. CASE Stall(e)
    <3> DEFINE s == IF job[e].stalls = 0 THEN "waiting" ELSE "failed"
               j == [[[job[e] EXCEPT !.runner = Nil] EXCEPT !.stalls = 1] EXCEPT !.state = s]
    <3>1. job' = [job EXCEPT ![e] = j]
      BY <2>1, <2>3 DEF Stall
    <3>2. j.state # "completed"
      BY <2>1 DEF Job
    <3> HIDE DEF j
    <3> QED
      BY <1>1, <2>1, <3>1, <3>2, JobRecorded, SameRecorded, StillRecorded
  <2>4. CASE Clean(e)
    <3>1. NoJob.state # "completed"
      BY DEF NoJob
    <3> QED
      BY <1>1, <2>1, <2>4, <3>1, JobRecorded, SameRecorded, StillRecorded DEF Clean
  <2> QED
    BY <1>5, <2>2, <2>3, <2>4
<1>6. ASSUME NEW e \in Events, RetryTime(e)
      PROVE  CompletionRecorded'
  <2>1. /\ UNCHANGED <<job, task, done>>
        /\ outbox' = [outbox EXCEPT ![e].available = TRUE]
    BY <1>6 DEF RetryTime, queue, history
  <2>2. outbox[e] \in OutboxRow
    BY <1>1 DEF TypeOK
  <2>3. [outbox[e] EXCEPT !.available = TRUE].status = outbox[e].status
    BY <2>2 DEF OutboxRow
  <2> QED
    BY <1>1, <2>1, <2>3, RowRecorded, SameRecorded, StillRecorded
<1>7. ASSUME NEW s \in Senders, CrashSender(s)
      PROVE  CompletionRecorded'
  BY <1>1, <1>7, IdleRecorded, SameRecorded DEF CrashSender, Handlers, queue, history
<1>8. ASSUME NEW h \in Handlers, StatementFails(h)
      PROVE  CompletionRecorded'
  <2>1. PICK step \in OnError[task[h].step] : Goto(h, step) /\ UNCHANGED <<outbox, job, done>>
    BY <1>8 DEF StatementFails, queue, history
  <2>2. task[h].step \in DOMAIN OnError
    BY <1>8 DEF StatementFails
  <2>3. step \in {"release", "throw", "failing", "failure"}
    BY <2>1, <2>2 DEF OnError
  <2> QED
    BY <1>1, <2>1, <2>3, GotoRecorded, SameRecorded DEF Steps
<1> QED
  BY <1>2, <1>3, <1>4, <1>5, <1>6, <1>7, <1>8 DEF Environment

LEMMA WorkerRecorded ==
    ASSUME IInv, CompletionRecorded, StartWorker \/ Recover \/ MarkRecovered
    PROVE  CompletionRecorded'
<1>1. TypeOK /\ UNCHANGED done
  BY DEF IInv, StartWorker, Recover, MarkRecovered, history
<1>2. CASE StartWorker
  BY <1>1, <1>2, SameRecorded, StillRecorded DEF StartWorker
<1>3. CASE Recover
  <2>1. main.todo \subseteq Events /\ UNCHANGED <<outbox, task>>
    BY <1>1, <1>3 DEF Recover, TypeOK, Main
  <2>2. UNCHANGED job \/ \E e \in Events : AddJob(e)
    BY <1>3, <2>1 DEF Recover
  <2>3. JobsRecorded'
    BY <1>1, <2>2, AddRecorded, SameRecorded
  <2> QED
    BY <1>1, <2>1, <2>3, SameRecorded, StillRecorded
<1>4. CASE MarkRecovered
  <2>1. main.event \in Events /\ UNCHANGED job
    BY <1>4 DEF MarkRecovered, IInv, StepsOK
  <2>2. CASE Set(main.event, "ENQUEUED") /\ UNCHANGED task
    <3>1. RowsRecorded'
      BY <1>1, <2>1, <2>2, SetRecorded DEF ActiveStatuses
    <3> QED
      BY <1>1, <2>1, <2>2, <3>1, SameRecorded, StillRecorded
  <2>3. CASE task' = Orphans /\ UNCHANGED outbox
    BY <1>1, <2>1, <2>3, OrphansRecorded
  <2> QED
    BY <1>4, <2>2, <2>3 DEF MarkRecovered
<1> QED
  BY <1>2, <1>3, <1>4

(***************************************************************************)
(* A job BullMQ counts as completed has had its mail go out and its event  *)
(* completed, whatever fails: no attempt succeeds by finding the event in  *)
(* the hands of somebody else (processInvoiceEmailOutbox returns early for *)
(* COMPLETED only, and throws when the lock is taken).                     *)
(***************************************************************************)
THEOREM JobsCompleteDone == Spec => []CompletedJobIsDone
<1>1. Init => CompletionRecorded
  <2> SUFFICES ASSUME Init PROVE CompletionRecorded
    OBVIOUS
  <2>1. \A w \in Workers : task[w].step = "idle"
    BY DEF Init, Idle, Handlers
  <2>2. \A e \in Events : job[e].state = "none"
    BY DEF Init, NoJob
  <2> QED
    BY <2>1, <2>2 DEF Init, CompletionRecorded, CompletedJobIsDone
<1>2. IInv /\ CompletionRecorded /\ [Next]_vars => CompletionRecorded'
  <2> SUFFICES ASSUME IInv, CompletionRecorded, [Next]_vars PROVE CompletionRecorded'
    OBVIOUS
  <2>1. CASE UNCHANGED vars
    BY <2>1 DEF vars, CompletionRecorded, CompletedJobIsDone
  <2>2. CASE Next
    BY <2>2, RequestRecorded, TakenRecorded, JobStepRecorded, WorkerRecorded,
       EnvironmentRecorded DEF Next
  <2> QED
    BY <2>1, <2>2
<1>3. CompletionRecorded => CompletedJobIsDone
  BY DEF CompletionRecorded
<1> QED
  BY <1>1, <1>2, <1>3, Invariance, PTL DEF Spec

=============================================================================
