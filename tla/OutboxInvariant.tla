-------------------------- MODULE OutboxInvariant --------------------------
(***************************************************************************)
(* Why the outbox is correct: what a handler in progress may rely on.      *)
(***************************************************************************)
EXTENDS InvoiceOutbox

SenderSteps == {"idle", "lock", "find", "create", "enqueue", "mark", "release"}

JobSteps == {"idle", "lock", "load", "process", "read", "mail", "issue", "failure",
             "complete", "failing", "succeed", "throw"}

\* Requests run requests' steps, jobs run jobs' steps, and both know their event.
StepsOK ==
    /\ \A s \in Senders : task[s].step \in SenderSteps
    /\ \A s \in Senders : task[s].step \in {"enqueue", "mark"} => task[s].event \in Events
    /\ \A w \in Workers : task[w].step \in JobSteps
    /\ \A w \in Workers : task[w].step # "idle" => task[w].event \in Events
    /\ main.step = "mark" => main.event \in Events

\* A job that is about to issue the invoice or to complete its event has mailed.
MailedFirst ==
    \A w \in Workers : task[w].step \in {"issue", "complete"} => mails[task[w].event] > 0

\* Only a job with attempts left can run, and only a running job has a runner.
JobsOK ==
    \A e \in Events :
        /\ job[e].state \in {"none", "waiting", "active", "delayed"} => job[e].made < MaxAttempts
        /\ job[e].runner # Nil => job[e].state = "active"

IInv ==
    /\ TypeOK
    /\ StepsOK
    /\ JobsOK
    /\ MailedFirst
    /\ SentMeansMailed
    /\ AtMostOneActive

\* A handler that was granted the lock has it still, and jobs deliver with it only.
LockKept ==
    /\ \A h \in Handlers : task[h].locked => lock = h
    /\ \A w \in Delivering : task[w].locked

\* A completion is recorded before anything may say that it is: the event's row,
\* the job on its way to success, and the job BullMQ counts as completed.
CompletionRecorded ==
    /\ \A e \in Events : outbox[e].status = "COMPLETED" => e \in done
    /\ \A w \in Workers : task[w].step = "succeed" => task[w].event \in done
    /\ CompletedJobIsDone

=============================================================================
