--------------------------- MODULE EventPipeline ---------------------------
(***************************************************************************)
(* The event path of a client: Track, Enqueue, the bounded queue, the      *)
(* batch the worker goroutine holds, Flush, and the consent decisions that *)
(* race with all of them (client.go, queue.go, consent.go).                *)
(*                                                                         *)
(* The configuration is the default one: no consent floor and no disk      *)
(* spool, so every receipt and spool call of these functions is a no-op.   *)
(* "denied" stands for both denied states.  Retry pacing is abstracted to  *)
(* a choice: a tick may find the deadline not yet passed, and then nothing *)
(* happens.                                                                *)
(*                                                                         *)
(* What is atomic here is atomic in the code: a critical section of        *)
(* lifecycleMu that the worker cannot see into, one load of an atomic, one *)
(* channel operation.  The fast half of a denial is several steps because  *)
(* the worker and in-flight publishes run while it holds the lock.         *)
(***************************************************************************)
EXTENDS Integers, Sequences, FiniteSets

CONSTANTS
    Deciders,      \* goroutines that call SetConsent
    Trackers,      \* goroutines that call Track
    Worker,        \* the worker goroutine
    NoOne,         \* lifecycleMu is free
    NoEvent,       \* the worker holds no received event
    BufferSize,    \* Config.BufferSize, the capacity of the queue
    BatchSize,     \* Config.BatchSize
    MaxCalls,      \* bound on Track and Enqueue calls
    MaxDecisions   \* bound on consent decisions

ASSUME SizesAssumption ==
    /\ BufferSize \in Nat \ {0}
    /\ BatchSize \in Nat \ {0}
    /\ MaxCalls \in Nat
    /\ MaxDecisions \in Nat

ASSUME NamesAssumption ==
    /\ NoOne \notin Deciders
    /\ Worker \notin Trackers
    /\ NoEvent \notin [id : Nat, epoch : Nat]
    /\ IsFiniteSet(Trackers)

VARIABLES
    consent,       \* Client.consent
    epoch,         \* Client.consentEpoch: denials so far
    gate,          \* generation of Client.consentGate; an older one is cancelled
    lock,          \* holder of lifecycleMu across steps
    dpc,           \* where each decider is in applyConsentDecision
    ticket,        \* its ticket
    snap,          \* denialEpoch, the epoch it read with its ticket
    ticketNext, ticketServing,
    drained,       \* events the running denial has drained, not yet counted
    queue,         \* boundedQueue.ch
    pc,            \* where the worker and each Track call are
    held,          \* the event of each Track call
    pgate,         \* the gate generation publishRequestResult loaded
    recv,          \* the event the worker received and has not admitted
    batch,         \* the batch the worker holds
    seen,          \* seenConsentEpoch
    flushing,      \* the worker is inside flushAvailable
    discarded,     \* events a flush has drained, not yet counted
    calls,         \* Track and Enqueue calls so far
    tracking,      \* trackWG
    published, dropped,   \* Stats.Published, Stats.Dropped
    failed         \* Track calls that returned an error and count nowhere

consentVars == <<consent, epoch, gate, lock, dpc, ticket, snap, ticketNext,
                 ticketServing, drained>>
workerVars  == <<recv, batch, seen, flushing, discarded>>
callVars    == <<calls, tracking, held>>
statVars    == <<published, dropped, failed>>
vars == <<consentVars, queue, pc, pgate, workerVars, callVars, statVars>>

Publishers == Trackers \cup {Worker}

Event == [id : Nat, epoch : Nat]

consentDenied == consent = "denied"

-----------------------------------------------------------------------------
(* SetConsent.  The fast half runs under lifecycleMu.                      *)

\* A denial takes a ticket, stores the denied state and keeps the lock.
Deny(d) ==
    /\ dpc[d] = "idle" /\ lock = NoOne /\ ticketNext < MaxDecisions
    /\ lock' = d
    /\ consent' = "denied"
    /\ ticket' = [ticket EXCEPT ![d] = ticketNext]
    /\ ticketNext' = ticketNext + 1
    /\ dpc' = [dpc EXCEPT ![d] = "epoch"]
    /\ UNCHANGED <<epoch, gate, snap, ticketServing, drained, queue, pc,
                   pgate, workerVars, callVars, statVars>>

\* The epoch moves before the queue is drained: the worker drops its own
\* batch when it next looks.
DenyEpoch(d) ==
    /\ dpc[d] = "epoch"
    /\ epoch' = epoch + 1
    /\ dpc' = [dpc EXCEPT ![d] = "gate"]
    /\ UNCHANGED <<consent, gate, lock, ticket, snap, ticketNext,
                   ticketServing, drained, queue, pc, pgate, workerVars,
                   callVars, statVars>>

\* Swap in a fresh gate and cancel the old one.
DenyGate(d) ==
    /\ dpc[d] = "gate"
    /\ gate' = gate + 1
    /\ dpc' = [dpc EXCEPT ![d] = "drain"]
    /\ UNCHANGED <<consent, epoch, lock, ticket, snap, ticketNext,
                   ticketServing, drained, queue, pc, pgate, workerVars,
                   callVars, statVars>>

\* Faulty variant: the drained events are not counted.
DenyDrainUncounted(d) ==
    /\ dpc[d] = "drain" /\ queue # <<>>
    /\ queue' = Tail(queue)
    /\ UNCHANGED <<consentVars, pc, pgate, workerVars, callVars, statVars>>

\* One receive of drainAll; the worker receives from the same channel.
DenyDrain(d) ==
    /\ dpc[d] = "drain" /\ queue # <<>>
    /\ queue' = Tail(queue)
    /\ drained' = drained + 1
    /\ UNCHANGED <<consent, epoch, gate, lock, dpc, ticket, snap, ticketNext,
                   ticketServing, pc, pgate, workerVars, callVars, statVars>>

\* The queue is empty: count what was drained and release the lock.
DenyUnlock(d) ==
    /\ dpc[d] = "drain" /\ queue = <<>>
    /\ dropped' = dropped + drained
    /\ drained' = 0
    /\ lock' = NoOne
    /\ dpc' = [dpc EXCEPT ![d] = "slow"]
    /\ UNCHANGED <<consent, epoch, gate, ticket, snap, ticketNext,
                   ticketServing, queue, pc, pgate, workerVars, callVars,
                   published, failed>>

\* The slow half of a denial: nothing of it is visible to the event path,
\* but later decisions wait for it.
DenySlow(d) ==
    /\ dpc[d] = "slow" /\ ticketServing = ticket[d]
    /\ ticketServing' = ticketServing + 1
    /\ dpc' = [dpc EXCEPT ![d] = "idle"]
    /\ UNCHANGED <<consent, epoch, gate, lock, ticket, snap, ticketNext,
                   drained, queue, pc, pgate, workerVars, callVars, statVars>>

\* A grant's fast half only takes a ticket and reads the epoch.
Grant(d) ==
    /\ dpc[d] = "idle" /\ lock = NoOne /\ ticketNext < MaxDecisions
    /\ ticket' = [ticket EXCEPT ![d] = ticketNext]
    /\ snap' = [snap EXCEPT ![d] = epoch]
    /\ ticketNext' = ticketNext + 1
    /\ dpc' = [dpc EXCEPT ![d] = "grant"]
    /\ UNCHANGED <<consent, epoch, gate, lock, ticketServing, drained, queue,
                   pc, pgate, workerVars, callVars, statVars>>

\* Faulty variant: the grant does not compare the epoch.
GrantStoreBlind(d) ==
    /\ dpc[d] = "grant" /\ ticketServing = ticket[d] /\ lock = NoOne
    /\ consent' = "granted"
    /\ ticketServing' = ticketServing + 1
    /\ dpc' = [dpc EXCEPT ![d] = "idle"]
    /\ UNCHANGED <<epoch, gate, lock, ticket, snap, ticketNext, drained,
                   queue, pc, pgate, workerVars, callVars, statVars>>

\* Its slow half opens the event path unless a denial came in between.
GrantStore(d) ==
    /\ dpc[d] = "grant" /\ ticketServing = ticket[d] /\ lock = NoOne
    /\ consent' = IF epoch = snap[d] THEN "granted" ELSE consent
    /\ ticketServing' = ticketServing + 1
    /\ dpc' = [dpc EXCEPT ![d] = "idle"]
    /\ UNCHANGED <<epoch, gate, lock, ticket, snap, ticketNext, drained,
                   queue, pc, pgate, workerVars, callVars, statVars>>

-----------------------------------------------------------------------------
(* Enqueue, whole under lifecycleMu.                                       *)

Enqueue ==
    /\ lock = NoOne /\ calls < MaxCalls
    /\ calls' = calls + 1
    /\ \/ /\ consentDenied \/ Len(queue) = BufferSize
          /\ dropped' = dropped + 1
          /\ UNCHANGED queue
       \/ /\ ~consentDenied /\ Len(queue) < BufferSize
          /\ queue' = Append(queue, [id |-> calls, epoch |-> epoch])
          /\ UNCHANGED dropped
    /\ UNCHANGED <<consentVars, pc, pgate, workerVars, tracking, held,
                   published, failed>>

-----------------------------------------------------------------------------
(* Track: the consent check under lifecycleMu, then the caller publishes.  *)

Track(t) ==
    /\ pc[t] = "idle" /\ lock = NoOne /\ calls < MaxCalls
    /\ calls' = calls + 1
    /\ \/ /\ consentDenied
          /\ dropped' = dropped + 1
          /\ UNCHANGED <<pc, held, tracking>>
       \/ /\ ~consentDenied
          /\ tracking' = tracking + 1
          /\ held' = [held EXCEPT ![t] = [id |-> calls, epoch |-> epoch]]
          /\ pc' = [pc EXCEPT ![t] = "handoff"]
          /\ UNCHANGED dropped
    /\ UNCHANGED <<consentVars, queue, pgate, workerVars, published, failed>>

-----------------------------------------------------------------------------
(* publishRequestResult, for the worker and for each Track.                *)

\* Load the gate before looking at consent again.
LoadGate(p) ==
    /\ pc[p] = "handoff"
    /\ pgate' = [pgate EXCEPT ![p] = gate]
    /\ pc' = [pc EXCEPT ![p] = "check"]
    /\ UNCHANGED <<consentVars, queue, workerVars, callVars, statVars>>

\* Faulty variant: consent is not checked again after the gate was loaded.
SendRequestUnchecked(p) ==
    /\ pc[p] = "check"
    /\ pc' = [pc EXCEPT ![p] = "sent"]
    /\ UNCHANGED <<consentVars, queue, pgate, workerVars, callVars, statVars>>

\* Consent is open: the request goes out.
SendRequest(p) ==
    /\ pc[p] = "check" /\ ~consentDenied
    /\ pc' = [pc EXCEPT ![p] = "sent"]
    /\ UNCHANGED <<consentVars, queue, pgate, workerVars, callVars, statVars>>

\* The request is refused by the re-check, or aborted by its gate:
\* publishRequestResult returns ErrConsentDenied.
DeniedOutcome(p) ==
    \/ pc[p] = "check" /\ consentDenied
    \/ pc[p] = "sent" /\ pgate[p] < gate

\* The call that sent is over.
TrackReturns(t) ==
    /\ pc' = [pc EXCEPT ![t] = "idle"]
    /\ tracking' = tracking - 1
    /\ UNCHANGED <<consentVars, queue, pgate, workerVars, calls, held>>

TrackPublished(t) ==
    /\ pc[t] = "sent"
    /\ TrackReturns(t)
    /\ published' = published + 1
    /\ UNCHANGED <<dropped, failed>>

\* Any other error goes to the caller, and the event with it.
TrackFails(t) ==
    /\ pc[t] = "sent"
    /\ TrackReturns(t)
    /\ failed' = failed + 1
    /\ UNCHANGED <<published, dropped>>

TrackDenied(t) ==
    /\ DeniedOutcome(t)
    /\ TrackReturns(t)
    /\ dropped' = dropped + 1
    /\ UNCHANGED <<published, failed>>

-----------------------------------------------------------------------------
(* The worker.                                                             *)

GoTo(state) == pc' = [pc EXCEPT ![Worker] = state]

\* dropBatchOnConsentEpoch: the held batch goes when the epoch has moved.
dropBatchOnConsentEpoch ==
    /\ seen' = epoch
    /\ batch' = IF epoch = seen THEN batch ELSE <<>>
    /\ dropped' = IF epoch = seen THEN dropped ELSE dropped + Len(batch)

\* The top of run's loop.
LoopTop ==
    /\ pc[Worker] = "top"
    /\ dropBatchOnConsentEpoch
    /\ GoTo("select")
    /\ UNCHANGED <<consentVars, queue, pgate, recv, flushing, discarded,
                   callVars, published, failed>>

\* Receive one event: in run's select, or in drainQueueAdmitted.  A full
\* batch stops the receives.
Receive ==
    /\ pc[Worker] \in {"select", "draining"}
    /\ Len(batch) < BatchSize /\ queue # <<>>
    /\ recv' = Head(queue)
    /\ queue' = Tail(queue)
    /\ GoTo(IF flushing THEN "admitFlush" ELSE "admit")
    /\ UNCHANGED <<consentVars, pgate, batch, seen, flushing, discarded,
                   callVars, statVars>>

\* Faulty variant: the received event joins without settling the epoch.
admitBlindly ==
    /\ batch' = Append(batch, recv)
    /\ recv' = NoEvent
    /\ UNCHANGED <<seen, dropped>>

\* Faulty variant: off by one in the comparison of the intake stamp.
admitOnlyNewer ==
    LET kept == IF epoch = seen THEN batch ELSE <<>>
        lost == IF epoch = seen THEN 0 ELSE Len(batch)
    IN  /\ seen' = epoch
        /\ batch' = IF recv.epoch <= epoch THEN kept ELSE Append(kept, recv)
        /\ dropped' = dropped + lost + (IF recv.epoch <= epoch THEN 1 ELSE 0)
        /\ recv' = NoEvent

\* admitReceivedEvent: settle the epoch first, then join or drop the event.
admitReceivedEvent ==
    LET kept  == IF epoch = seen THEN batch ELSE <<>>
        lost  == IF epoch = seen THEN 0 ELSE Len(batch)
        stale == recv.epoch < epoch
    IN  /\ seen' = epoch
        /\ batch' = IF stale THEN kept ELSE Append(kept, recv)
        /\ dropped' = dropped + lost + (IF stale THEN 1 ELSE 0)
        /\ recv' = NoEvent

\* From run's select: a full batch publishes at once unless publishing is
\* deferred.
Admit ==
    /\ pc[Worker] = "admit"
    /\ admitReceivedEvent
    /\ \/ GoTo("top")
       \/ Len(batch') >= BatchSize /\ GoTo("publish")
    /\ UNCHANGED <<consentVars, queue, pgate, flushing, discarded, callVars,
                   published, failed>>

AdmitInFlush ==
    /\ pc[Worker] = "admitFlush"
    /\ admitReceivedEvent
    /\ GoTo("draining")
    /\ UNCHANGED <<consentVars, queue, pgate, flushing, discarded, callVars,
                   published, failed>>

\* The ticker, a pacing wake or a consent wake, with no deadline pending.
Tick ==
    /\ pc[Worker] = "select"
    /\ GoTo("publish")
    /\ UNCHANGED <<consentVars, queue, pgate, workerVars, callVars, statVars>>

\* A Flush request.
FlushRequest ==
    /\ pc[Worker] = "select"
    /\ flushing' = TRUE
    /\ GoTo("publish")
    /\ UNCHANGED <<consentVars, queue, pgate, recv, batch, seen, discarded,
                   callVars, statVars>>

\* The first statement of publishWorkerBatch and of flushAvailable's loop.
SettleEpoch ==
    /\ pc[Worker] = "publish"
    /\ dropBatchOnConsentEpoch
    /\ GoTo("denied?")
    /\ UNCHANGED <<consentVars, queue, pgate, recv, flushing, discarded,
                   callVars, published, failed>>

\* Faulty variant: only a full batch is published.
WorkerBatchFullOnly ==
    /\ pc[Worker] = "denied?" /\ ~flushing
    /\ \/ Len(batch) < BatchSize /\ GoTo("top")
       \/ Len(batch) >= BatchSize /\ GoTo("handoff")
    /\ UNCHANGED <<consentVars, queue, pgate, workerVars, callVars, statVars>>

\* publishWorkerBatch between its epoch check and the publish.
WorkerBatch ==
    /\ pc[Worker] = "denied?" /\ ~flushing
    /\ \/ /\ batch = <<>>
          /\ GoTo("top")
          /\ UNCHANGED <<batch, dropped>>
       \/ /\ batch # <<>> /\ consentDenied
          /\ dropped' = dropped + Len(batch)
          /\ batch' = <<>>
          /\ GoTo("top")
       \/ /\ batch # <<>> /\ ~consentDenied
          /\ GoTo("handoff")
          /\ UNCHANGED <<batch, dropped>>
    /\ UNCHANGED <<consentVars, queue, pgate, recv, seen, flushing, discarded,
                   callVars, published, failed>>

\* The same stretch of flushAvailable: a denial also drains the queue.
FlushBatch ==
    /\ pc[Worker] = "denied?" /\ flushing
    /\ \/ consentDenied /\ GoTo("discard")
       \/ ~consentDenied /\ batch = <<>> /\ GoTo("drain")
       \/ ~consentDenied /\ batch # <<>> /\ GoTo("handoff")
    /\ UNCHANGED <<consentVars, queue, pgate, workerVars, callVars, statVars>>

\* One receive of discardConsentEvents(batch, true).
FlushDiscard ==
    /\ pc[Worker] = "discard" /\ queue # <<>>
    /\ queue' = Tail(queue)
    /\ discarded' = discarded + 1
    /\ UNCHANGED <<consentVars, pc, pgate, recv, batch, seen, flushing,
                   callVars, statVars>>

\* Its end: count, and the flush returns.
FlushDiscardEnd ==
    /\ pc[Worker] = "discard" /\ queue = <<>>
    /\ dropped' = dropped + Len(batch) + discarded
    /\ discarded' = 0
    /\ batch' = <<>>
    /\ flushing' = FALSE
    /\ GoTo("top")
    /\ UNCHANGED <<consentVars, queue, pgate, recv, seen, callVars, published,
                   failed>>

\* drainQueueAdmitted settles the epoch, receives while it can ...
DrainQueue ==
    /\ pc[Worker] = "drain"
    /\ dropBatchOnConsentEpoch
    /\ GoTo("draining")
    /\ UNCHANGED <<consentVars, queue, pgate, recv, flushing, discarded,
                   callVars, published, failed>>

\* ... and the flush ends when queue and batch are both empty.
DrainEnd ==
    /\ pc[Worker] = "draining"
    /\ Len(batch) >= BatchSize \/ queue = <<>>
    /\ \/ /\ batch = <<>> /\ queue = <<>>
          /\ flushing' = FALSE
          /\ GoTo("top")
       \/ /\ batch # <<>> \/ queue # <<>>
          /\ GoTo("publish")
          /\ UNCHANGED flushing
    /\ UNCHANGED <<consentVars, queue, pgate, recv, batch, seen, discarded,
                   callVars, statVars>>

\* After a publish the worker's loop starts over; a flush drains on.
AfterPublish == GoTo(IF flushing THEN "drain" ELSE "top")

BatchPublished ==
    /\ pc[Worker] = "sent"
    /\ published' = published + Len(batch)
    /\ batch' = <<>>
    /\ AfterPublish
    /\ UNCHANGED <<consentVars, queue, pgate, recv, seen, flushing, discarded,
                   callVars, dropped, failed>>

\* A permanent refusal drops the batch.
BatchRefused ==
    /\ pc[Worker] = "sent"
    /\ dropped' = dropped + Len(batch)
    /\ batch' = <<>>
    /\ AfterPublish
    /\ UNCHANGED <<consentVars, queue, pgate, recv, seen, flushing, discarded,
                   callVars, published, failed>>

\* A retryable failure keeps the batch and ends a flush.
BatchRetained ==
    /\ pc[Worker] = "sent"
    /\ flushing' = FALSE
    /\ GoTo("top")
    /\ UNCHANGED <<consentVars, queue, pgate, recv, batch, seen, discarded,
                   callVars, statVars>>

\* ErrConsentDenied is permanent for the worker.
BatchDenied ==
    /\ ~flushing /\ DeniedOutcome(Worker)
    /\ dropped' = dropped + Len(batch)
    /\ batch' = <<>>
    /\ GoTo("top")
    /\ UNCHANGED <<consentVars, queue, pgate, recv, seen, flushing, discarded,
                   callVars, published, failed>>

\* For a flush it drops the batch and drains the queue.
FlushDenied ==
    /\ flushing /\ DeniedOutcome(Worker)
    /\ GoTo("discard")
    /\ UNCHANGED <<consentVars, queue, pgate, workerVars, callVars, statVars>>

-----------------------------------------------------------------------------
Init ==
    /\ consent = "unknown" /\ epoch = 0 /\ gate = 0 /\ lock = NoOne
    /\ dpc = [d \in Deciders |-> "idle"]
    /\ ticket = [d \in Deciders |-> 0]
    /\ snap = [d \in Deciders |-> 0]
    /\ ticketNext = 0 /\ ticketServing = 0 /\ drained = 0
    /\ queue = <<>>
    /\ pc = [p \in Publishers |-> IF p = Worker THEN "top" ELSE "idle"]
    /\ held = [t \in Trackers |-> NoEvent]
    /\ pgate = [p \in Publishers |-> 0]
    /\ recv = NoEvent /\ batch = <<>> /\ seen = 0
    /\ flushing = FALSE /\ discarded = 0
    /\ calls = 0 /\ tracking = 0
    /\ published = 0 /\ dropped = 0 /\ failed = 0

WorkerStep ==
    \/ LoopTop \/ Receive \/ Admit \/ AdmitInFlush \/ Tick \/ FlushRequest
    \/ SettleEpoch \/ WorkerBatch \/ FlushBatch \/ FlushDiscard
    \/ FlushDiscardEnd \/ DrainQueue \/ DrainEnd
    \/ BatchPublished \/ BatchRefused \/ BatchRetained
    \/ BatchDenied \/ FlushDenied

TrackStep(t) ==
    \/ Track(t) \/ TrackPublished(t) \/ TrackFails(t) \/ TrackDenied(t)

DecisionStep(d) ==
    \/ Deny(d) \/ DenyEpoch(d) \/ DenyGate(d) \/ DenyDrain(d)
    \/ DenyUnlock(d) \/ DenySlow(d) \/ Grant(d) \/ GrantStore(d)

Next ==
    \/ \E d \in Deciders : DecisionStep(d)
    \/ Enqueue
    \/ \E t \in Trackers : TrackStep(t)
    \/ \E p \in Publishers : LoadGate(p) \/ SendRequest(p)
    \/ WorkerStep

Spec == Init /\ [][Next]_vars

\* The scheduling a Go runtime gives: the worker never stops, a select does
\* not ignore the ticker or a ready channel for ever, a decision that was
\* started finishes, and the ingest service accepts a batch in the end.
Fairness ==
    /\ WF_vars(WorkerStep) /\ SF_vars(Tick) /\ SF_vars(Receive)
    /\ WF_vars(LoadGate(Worker)) /\ WF_vars(SendRequest(Worker))
    /\ SF_vars(BatchPublished)
    /\ \A d \in Deciders :
          WF_vars(DenyEpoch(d) \/ DenyGate(d) \/ DenyDrain(d)
                  \/ DenyUnlock(d) \/ DenySlow(d) \/ GrantStore(d))

LiveSpec == Spec /\ Fairness

-----------------------------------------------------------------------------
(* Properties.                                                             *)

WorkerStates ==
    {"top", "select", "admit", "admitFlush", "publish", "denied?", "discard",
     "drain", "draining", "handoff", "check", "sent"}

TrackStates == {"idle", "handoff", "check", "sent"}

\* Type invariant of the pipeline's state.
TypeOK ==
    /\ consent \in {"unknown", "granted", "denied"}
    /\ epoch \in Nat /\ gate \in Nat
    /\ lock \in Deciders \cup {NoOne}
    /\ dpc \in [Deciders -> {"idle", "epoch", "gate", "drain", "slow", "grant"}]
    /\ ticket \in [Deciders -> Nat] /\ snap \in [Deciders -> Nat]
    /\ ticketNext \in Nat /\ ticketServing \in Nat /\ drained \in Nat
    /\ queue \in Seq(Event)
    /\ pc \in [Publishers -> WorkerStates \cup TrackStates]
    /\ pc[Worker] \in WorkerStates
    /\ \A t \in Trackers : pc[t] \in TrackStates
    /\ held \in [Trackers -> Event \cup {NoEvent}]
    /\ pgate \in [Publishers -> Nat]
    /\ recv \in Event \cup {NoEvent}
    /\ batch \in Seq(Event)
    /\ seen \in Nat /\ flushing \in BOOLEAN /\ discarded \in Nat
    /\ calls \in Nat /\ tracking \in Nat
    /\ published \in Nat /\ dropped \in Nat /\ failed \in Nat

\* Every event is accounted for exactly once: it is held in one place, or it
\* was published, dropped, or handed back to its Track caller.  The queue
\* drain of a denial, the worker's receive and the flush's own drain take
\* events from the same channel, and the counts are added later than the
\* events are taken (SetConsent, admitReceivedEvent, discardConsentEvents).
Accounting ==
    calls = (published + discarded + (IF recv = NoEvent THEN 0 ELSE 1)
                + (dropped + Len(batch)))
            + (failed + drained + tracking + Len(queue))

\* The batch never spans consent epochs: whatever the worker holds was taken
\* in under the epoch the worker last settled (admitReceivedEvent).
BatchIsOneEpoch ==
    /\ \A i \in 1..Len(batch) : batch[i].epoch = seen
    /\ seen <= epoch

\* When a denial's fast half has returned, every event request still on the
\* network was aborted: its gate is cancelled (publishRequestResult loads the
\* gate before it re-checks consent; SetConsent stores before it cancels).
DenialAbortsInFlight ==
    \A p \in Publishers :
        pc[p] = "sent" /\ consentDenied /\ lock = NoOne => pgate[p] < gate

\* What the worker takes from its batch or drops on receive while settling the
\* epoch was taken in before a denial: events accepted after a re-grant are
\* never lost with the stale batch (dropBatchOnConsentEpoch,
\* admitReceivedEvent, drainQueueAdmitted).
EpochDropsArePreDenial ==
    [][ /\ pc[Worker] \in {"top", "publish", "drain", "admit", "admitFlush"}
        /\ pc[Worker] # pc'[Worker]
        => /\ \A i \in 1..Len(batch) :
                 batch[i].epoch = epoch => Len(batch') >= i /\ batch'[i] = batch[i]
           /\ recv # NoEvent /\ recv.epoch = epoch =>
                 batch' # <<>> /\ batch'[Len(batch')] = recv ]_vars

\* Consent is never open over an unfinished denial: a grant that was decided
\* before it does not open the path again, one that was decided after it waits
\* for it (the denialEpoch snapshot and the tickets of applyConsentDecision).
NoDenialUnderGrant ==
    consent = "granted" =>
        \A d \in Deciders : dpc[d] \in {"idle", "grant"}

InPipeline(n) ==
    \/ \E i \in 1..Len(queue) : queue[i].id = n
    \/ \E i \in 1..Len(batch) : batch[i].id = n
    \/ recv # NoEvent /\ recv.id = n

\* No accepted event stays in the client for ever: it is published or dropped
\* (run's ticker and publishWorkerBatch; Flush is not needed for it).
EventsSettle == \A n \in 0..(MaxCalls - 1) : InPipeline(n) ~> ~InPipeline(n)

=============================================================================
