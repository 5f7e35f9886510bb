----------------------------- MODULE RetryPacing -----------------------------
(***************************************************************************)
(* When the worker retries (client.go): the loop of run with its deferral  *)
(* deadline, the one timer it arms, the successes of Track calls that end  *)
(* a deferral, the signal that wakes a parked worker, and what happens to  *)
(* a deadline when the work it protects is sent, denied or withdrawn.      *)
(*                                                                         *)
(* Time is abstract: a deadline is armed and, at some moment, in the past. *)
(* Events are abstract too: the batch is empty, fresh, or held, that is in *)
(* hand when the deadline was armed or joined while spooled work still     *)
(* waited behind it; what the spool queued for a resend is there or is     *)
(* not.  The pacing of consent receipts is ConsentFloor's.                 *)
(***************************************************************************)
EXTENDS Integers

CONSTANT Tracks      \* Track calls that may run at the same time

VARIABLES
    pace,        \* [until, streak, restored]: deferUntil, backoffAttempt > 0,
                 \* workerPacingFromRestore
    worker,      \* top, arm, select, timed (a select with the timer running),
                 \* resend, send, flush
    batch,       \* empty, fresh, held
    spool,       \* spooled chunks wait for a resend
    stale,       \* consentEpoch moved since the batch was filled
    withdrawn,   \* spool.withdrawalEpoch moved since the worker looked
    denied,      \* consentDenied
    unseen,      \* publishSuccesses differs from workerSeenSuccesses
    wake,        \* a token is in pacingWake
    track,       \* per Track call: idle, sent, answered (counted, not signalled)
    everDenied   \* history: a denial happened

vars == <<pace, worker, batch, spool, stale, withdrawn, denied, unseen, wake, track, everDenied>>

Deadlines == {"none", "armed", "due"}

\* A restored deadline comes with the spooled work it defers (initSpool).
Init ==
    /\ spool \in BOOLEAN
    /\ \E u \in IF spool THEN {"none", "armed"} ELSE {"none"} :
          pace = [until |-> u, streak |-> FALSE, restored |-> u # "none"]
    /\ worker = "top" /\ batch = "empty"
    /\ stale = FALSE /\ withdrawn = FALSE /\ denied = FALSE /\ everDenied = FALSE
    /\ unseen = FALSE /\ wake = FALSE /\ track = [t \in Tracks |-> "idle"]
-----------------------------------------------------------------------------
(* The world around the worker                                             *)

TrackBegins(t) ==
    /\ track[t] = "idle" /\ ~denied
    /\ track' = [track EXCEPT ![t] = "sent"]
    /\ UNCHANGED <<pace, worker, batch, spool, stale, withdrawn, denied, unseen, wake, everDenied>>

TrackFails(t) ==
    /\ track[t] = "sent"
    /\ track' = [track EXCEPT ![t] = "idle"]
    /\ UNCHANGED <<pace, worker, batch, spool, stale, withdrawn, denied, unseen, wake, everDenied>>

\* The success is counted first and signalled afterwards, without blocking.
TrackSucceeds(t) ==
    /\ track[t] = "sent"
    /\ track' = [track EXCEPT ![t] = "answered"]
    /\ unseen' = TRUE
    /\ UNCHANGED <<pace, worker, batch, spool, stale, withdrawn, denied, wake, everDenied>>

TrackSignals(t) ==
    /\ track[t] = "answered"
    /\ track' = [track EXCEPT ![t] = "idle"]
    /\ wake' = TRUE
    /\ UNCHANGED <<pace, worker, batch, spool, stale, withdrawn, denied, unseen, everDenied>>

DeadlinePasses ==
    /\ pace.until = "armed"
    /\ pace' = [pace EXCEPT !.until = "due"]
    /\ UNCHANGED <<worker, batch, spool, stale, withdrawn, denied, unseen, wake, track, everDenied>>

\* A denial moves the epoch and purges the spool; the worker is not woken.
Deny ==
    /\ ~denied
    /\ denied' = TRUE /\ everDenied' = TRUE
    /\ stale' = (stale \/ batch # "empty") /\ spool' = FALSE
    /\ UNCHANGED <<pace, worker, batch, withdrawn, unseen, wake, track>>

Grant ==
    /\ denied
    /\ denied' = FALSE
    /\ UNCHANGED <<pace, worker, batch, spool, stale, withdrawn, unseen, wake, track, everDenied>>

\* A sentinel withdraws the spooled facts for good.
Withdraw ==
    /\ spool
    /\ spool' = FALSE /\ withdrawn' = TRUE
    /\ UNCHANGED <<pace, worker, batch, stale, denied, unseen, wake, track, everDenied>>
-----------------------------------------------------------------------------
(* The pacing rules                                                        *)

\* Mutant: only a restored deadline goes with the withdrawn work.
ReconciledRestored ==
    IF withdrawn /\ ~spool /\ pace.restored
    THEN [until |-> "none", streak |-> FALSE, restored |-> FALSE]
    ELSE pace

\* reconcileSpoolWithdrawal: a withdrawal that left nothing to retry takes
\* the deadline with it.
Reconciled ==
    IF withdrawn /\ ~spool /\ (batch = "empty" \/ pace.restored)
    THEN [until |-> "none", streak |-> FALSE, restored |-> FALSE]
    ELSE pace

\* A batch condemned by a denial goes, and its streak with it; at the top of
\* the loop its deadline too.
Settled         == IF stale THEN "empty" ELSE batch
Condemned       == stale /\ batch # "empty"
WithoutStreak(p) == IF Condemned THEN [p EXCEPT !.streak = FALSE] ELSE p
WithoutDeadline(p) == IF Condemned THEN [p EXCEPT !.streak = FALSE, !.until = "none"] ELSE p

\* publishWorkerBatch consumes the deadline, then resends, then sends.
Consumed(p)  == [p EXCEPT !.until = "none", !.restored = FALSE]
Publishing(b) == IF spool THEN "resend" ELSE IF b # "empty" THEN "send" ELSE "top"

\* applyRetryPacing.  An outcome is: accepted, refused for good by the server
\* or here (an event that cannot be encoded says nothing of the server, and
\* leaves the streak), denied, retryable with the server's hint or without
\* (then the failure streak grows and the back-off is never zero), or not
\* attempted behind a gate.
Outcomes   == {"ok", "permanent", "invalid", "denied", "hint", "backoff", "gated"}
Retried(o) == o \in {"hint", "backoff"}

Paced(p, o) ==
    CASE o = "ok"      -> [until |-> "none", streak |-> FALSE, restored |-> FALSE]
      [] o = "hint"    -> [p EXCEPT !.until = "armed", !.restored = FALSE]
      [] o = "backoff" -> [until |-> "armed", streak |-> TRUE, restored |-> FALSE]
      [] o \in {"denied", "permanent"} -> [p EXCEPT !.streak = FALSE]
      [] OTHER         -> p

\* What was in hand when a deadline is armed waits behind it.
Behind(b, o) == IF Retried(o) /\ b # "empty" THEN "held" ELSE b
-----------------------------------------------------------------------------
(* The worker's loop                                                       *)

\* Up to the select: settle withdrawals and denials, let a success end the
\* deferral (and, if it ended one, retry at once), retry what is due.
Top ==
    LET p    == WithoutDeadline(Reconciled)
        q    == IF unseen THEN [p EXCEPT !.until = "none", !.streak = FALSE] ELSE p
        recovered == unseen /\ (p.until # "none" \/ p.streak) /\ (Settled # "empty" \/ spool)
    IN  /\ worker = "top"
        /\ batch' = Settled /\ stale' = FALSE /\ withdrawn' = FALSE /\ unseen' = FALSE
        /\ IF recovered \/ q.until = "due"
           THEN pace' = Consumed(q) /\ worker' = Publishing(Settled)
           ELSE pace' = q /\ worker' = "arm"
        /\ UNCHANGED <<spool, denied, wake, track, everDenied>>

\* Mutant: a deadline in the past counts as none.
TimerArmedAhead == pace.until = "armed" \/ spool

\* nextPacingWake: a deadline that passed since then is due now, and spooled
\* work without a deadline has a wake-up of its own.
TimerArmed == pace.until # "none" \/ spool

Arm ==
    /\ worker = "arm"
    /\ worker' = IF TimerArmed THEN "timed" ELSE "select"
    /\ UNCHANGED <<pace, batch, spool, stale, withdrawn, denied, unseen, wake, track, everDenied>>

InSelect == worker \in {"select", "timed"}

\* The cases of the select.  An event joins the batch; withdrawals and
\* denials are settled first, and a full batch goes out unless deferred.
SelectEvent ==
    LET p == WithoutStreak(Reconciled)
        b == IF Settled = "held" \/ (p.until # "none" /\ spool) THEN "held" ELSE "fresh"
    IN  /\ InSelect /\ ~denied
        /\ batch' = b /\ stale' = FALSE /\ withdrawn' = FALSE
        /\ \/ pace' = p /\ worker' = "top"
           \/ p.until # "armed" /\ pace' = Consumed(p) /\ worker' = Publishing(b)
        /\ UNCHANGED <<spool, denied, unseen, wake, track, everDenied>>

\* publishWorkerBatch at a tick or at the timer: the batch is settled first.
Publishes ==
    /\ pace' = Consumed(WithoutStreak(pace))
    /\ batch' = Settled /\ stale' = FALSE
    /\ worker' = Publishing(Settled)

SelectTick ==
    /\ InSelect
    /\ \/ pace.until = "armed" /\ worker' = "top" /\ UNCHANGED <<pace, batch, stale>>
       \/ pace.until # "armed" /\ Publishes
    /\ UNCHANGED <<spool, withdrawn, denied, unseen, wake, track, everDenied>>

SelectTimer ==
    /\ worker = "timed" /\ (pace.until = "due" \/ (pace.until = "none" /\ spool))
    /\ Publishes
    /\ UNCHANGED <<spool, withdrawn, denied, unseen, wake, track, everDenied>>

SelectWake ==
    /\ InSelect /\ wake
    /\ wake' = FALSE /\ worker' = "top"
    /\ UNCHANGED <<pace, batch, spool, stale, withdrawn, denied, unseen, track, everDenied>>

SelectFlush ==
    /\ InSelect
    /\ worker' = "flush"
    /\ UNCHANGED <<pace, batch, spool, stale, withdrawn, denied, unseen, wake, track, everDenied>>

\* A request may end as denied only if a denial came since it was built.
Possible(o) == o = "denied" => denied \/ stale

\* Every answer is the worker's newest knowledge: the successes counted up to
\* now, its own included, are consumed.
Settles(o, p) == pace' = Paced(p, o) /\ unseen' = FALSE /\ wake' = (wake \/ o = "ok")

\* A chunk of the spool: only what a denial or a withdrawal left there is
\* queued again, a failure keeps the batch waiting as well, and after a chunk
\* that is settled there may be another.
ChunkEnds(o) ==
    /\ worker = "resend" /\ o # "gated" /\ Possible(o)
    /\ Settles(o, pace)
    /\ batch' = Behind(batch, o)
    /\ \/ /\ spool' = (spool /\ Retried(o))
          /\ worker' = IF Retried(o) \/ batch = "empty" THEN "top" ELSE "send"
       \/ spool /\ o \in {"ok", "permanent", "invalid"} /\ UNCHANGED <<spool, worker>>
    /\ UNCHANGED <<stale, withdrawn, denied, track, everDenied>>

BatchEnds(o) ==
    /\ worker = "send" /\ o # "gated" /\ Possible(o)
    /\ Settles(o, pace)
    /\ batch' = IF Retried(o) THEN Behind(batch, o) ELSE "empty"
    /\ stale' = (stale /\ Retried(o))
    /\ worker' = "top"
    /\ UNCHANGED <<spool, withdrawn, denied, track, everDenied>>

\* The gate holds the event legs: nothing is attempted and nothing paced.
BatchGated ==
    /\ worker \in {"resend", "send"}
    /\ worker' = "top"
    /\ UNCHANGED <<pace, batch, spool, stale, withdrawn, denied, unseen, wake, track, everDenied>>

\* An explicit flush tries everything, deferred or not.  If it leaves no
\* batch the deadline goes; then its outcome paces.
FlushEnds(o) ==
    LET left == CASE Retried(o) -> Behind(Settled, o)
                  [] o = "gated" -> Settled
                  [] OTHER -> "empty"
        p    == WithoutStreak(pace)
    IN  /\ worker = "flush" /\ Possible(o)
        /\ o \in {"ok", "denied"} \/ Settled # "empty" \/ spool
        /\ Settles(o, IF left = "empty" THEN [p EXCEPT !.until = "none"] ELSE p)
        /\ batch' = left /\ stale' = FALSE
        /\ spool' = (spool /\ (Retried(o) \/ o = "gated"))
        /\ worker' = "top"
        /\ UNCHANGED <<withdrawn, denied, track, everDenied>>

\* The caller's context ended: nothing was learned, and nothing is paced.
FlushAbandoned ==
    /\ worker = "flush"
    /\ worker' = "top"
    /\ UNCHANGED <<pace, batch, spool, stale, withdrawn, denied, unseen, wake, track, everDenied>>
-----------------------------------------------------------------------------
WorkerRuns == \/ Top \/ Arm \/ BatchGated \/ FlushAbandoned
              \/ \E o \in Outcomes : ChunkEnds(o) \/ BatchEnds(o) \/ FlushEnds(o)

Next ==
    \/ \E t \in Tracks : TrackBegins(t) \/ TrackFails(t) \/ TrackSucceeds(t) \/ TrackSignals(t)
    \/ DeadlinePasses \/ Deny \/ Grant \/ Withdraw
    \/ SelectEvent \/ SelectTick \/ SelectTimer \/ SelectWake \/ SelectFlush
    \/ WorkerRuns

Spec == Init /\ [][Next]_vars

(* Fairness.  The worker's own steps and its requests end (HTTPTimeout);   *)
(* Go's select picks among ready cases at random, so one that is ready     *)
(* again and again is taken.  Nothing is assumed of the flush ticker, of   *)
(* new events, of calls of Flush or of the passing of deadlines.           *)
Fairness ==
    /\ WF_vars(WorkerRuns) /\ SF_vars(SelectWake) /\ SF_vars(SelectTimer)
    /\ \A t \in Tracks : WF_vars(TrackSignals(t))

FairSpec == Spec /\ Fairness
-----------------------------------------------------------------------------
(* Properties                                                              *)

TypeOK ==
    /\ pace \in [until : Deadlines, streak : BOOLEAN, restored : BOOLEAN]
    /\ worker \in {"top", "arm", "select", "timed", "resend", "send", "flush"}
    /\ batch \in {"empty", "fresh", "held"}
    /\ spool \in BOOLEAN /\ stale \in BOOLEAN /\ withdrawn \in BOOLEAN /\ denied \in BOOLEAN
    /\ unseen \in BOOLEAN /\ wake \in BOOLEAN /\ everDenied \in BOOLEAN
    /\ track \in [Tracks -> {"idle", "sent", "answered"}]

Sending == worker \in {"resend", "send"}

\* Without the help of the flush ticker the worker notices that a deadline has
\* passed, and that a request succeeded elsewhere while one was armed,
\* whenever either happens relative to its checks, its timer and its select
\* (run, nextPacingWake, publishRequestResult).
NoStalledRetry ==
    /\ (pace.until = "due") ~> (pace.until # "due" \/ Sending)
    /\ (pace.until = "armed" /\ unseen) ~> (pace.until # "armed" \/ ~unseen)

\* Events that join when nothing is left to retry do not wait behind the
\* deadline of work that is gone: sent, refused, or withdrawn while the worker
\* was parked (reconcileSpoolWithdrawal, and the flush that leaves no batch).
\* After a denial this fails: see the README.
FreshNotDeferred == pace.until # "none" /\ batch = "fresh" => everDenied
=============================================================================
