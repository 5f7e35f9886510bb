-------------------------- MODULE RetryPacingProofs --------------------------
(***************************************************************************)
(* Safety of the retry pacing, for every set of Track calls: the types,    *)
(* and that only a denial can leave fresh events behind a deadline.        *)
(***************************************************************************)
EXTENDS RetryPacing, TLAPS

\* What keeps the deadline honest while nothing was denied.  A deadline has
\* work behind it: a held batch, or an empty one with spooled work, or a
\* withdrawal the worker has yet to notice.  While the worker sends it has
\* consumed its deadline and holds what it sends, and only a denial makes a
\* batch stale.
DeadlineHasWork ==
    pace.until # "none" => batch = "held" \/ (batch = "empty" /\ (spool \/ withdrawn))

SendsWork ==
    /\ worker \in {"resend", "send"} => pace.until = "none"
    /\ worker = "send" => batch # "empty"
    /\ worker = "resend" => spool \/ withdrawn

PacingInv ==
    /\ denied \/ stale => everDenied
    /\ everDenied \/ (DeadlineHasWork /\ SendsWork)

-----------------------------------------------------------------------------
(* Type correctness.                                                       *)

Paces == [until : Deadlines, streak : BOOLEAN, restored : BOOLEAN]

LEMMA PacedType ==
    ASSUME NEW p \in Paces, NEW o \in Outcomes
    PROVE  Paced(p, o) \in Paces
BY DEF Paced, Outcomes, Deadlines, Paces

\* What the pacing rules do to a pacing.
LEMMA PaceRules ==
    ASSUME NEW p \in Paces
    PROVE  /\ Consumed(p) \in Paces /\ Consumed(p).until = "none"
           /\ WithoutStreak(p) \in Paces /\ WithoutStreak(p).until = p.until
           /\ WithoutDeadline(p) \in Paces
           /\ ~stale => WithoutStreak(p) = p /\ WithoutDeadline(p) = p
           /\ [p EXCEPT !.until = "none"] \in Paces
           /\ [p EXCEPT !.until = "none", !.streak = FALSE] \in Paces
           /\ [p EXCEPT !.until = "none"].until = "none"
           /\ [p EXCEPT !.until = "none", !.streak = FALSE].until = "none"
<1>1. /\ Consumed(p) \in Paces /\ Consumed(p).until = "none"
      /\ [p EXCEPT !.until = "none"] \in Paces
      /\ [p EXCEPT !.until = "none", !.streak = FALSE] \in Paces
      /\ [p EXCEPT !.until = "none"].until = "none"
      /\ [p EXCEPT !.until = "none", !.streak = FALSE].until = "none"
      /\ [p EXCEPT !.streak = FALSE, !.until = "none"] \in Paces
      /\ [p EXCEPT !.streak = FALSE] \in Paces /\ [p EXCEPT !.streak = FALSE].until = p.until
  BY DEF Consumed, Paces, Deadlines
<1>2. CASE Condemned
  BY <1>1, <1>2 DEF WithoutStreak, WithoutDeadline, Condemned
<1>3. CASE ~Condemned
  BY <1>1, <1>3 DEF WithoutStreak, WithoutDeadline
<1> QED
  BY <1>2, <1>3

\* reconcileSpoolWithdrawal keeps the deadline or ends it; it ends one that a
\* withdrawal left without work.
LEMMA ReconciledRule ==
    ASSUME pace \in Paces
    PROVE  /\ Reconciled \in Paces
           /\ Reconciled = pace \/ Reconciled.until = "none"
           /\ withdrawn /\ ~spool /\ batch = "empty" => Reconciled.until = "none"
BY DEF Reconciled, Paces, Deadlines

LEMMA TypeInit == Init => TypeOK
<1> SUFFICES ASSUME Init PROVE TypeOK
  OBVIOUS
<1>1. PICK u \in {"none", "armed"} :
         pace = [until |-> u, streak |-> FALSE, restored |-> u # "none"]
  BY DEF Init
<1>2. pace \in [until : Deadlines, streak : BOOLEAN, restored : BOOLEAN]
  BY <1>1 DEF Deadlines
<1> QED
  BY <1>2 DEF Init, TypeOK

LEMMA TypeStep == TypeOK /\ [Next]_vars => TypeOK'
<1> SUFFICES ASSUME TypeOK, [Next]_vars PROVE TypeOK'
  OBVIOUS
<1> USE DEF TypeOK
<1>0. pace \in Paces
  BY DEF Paces
<1>1. ASSUME NEW t \in Tracks,
             TrackBegins(t) \/ TrackFails(t) \/ TrackSucceeds(t) \/ TrackSignals(t)
      PROVE  TypeOK'
  <2>1. CASE TrackBegins(t)
    BY <2>1 DEF TrackBegins
  <2>2. CASE TrackFails(t)
    BY <2>2 DEF TrackFails
  <2>3. CASE TrackSucceeds(t)
    BY <2>3 DEF TrackSucceeds
  <2>4. CASE TrackSignals(t)
    BY <2>4 DEF TrackSignals
  <2> QED
    BY <1>1, <2>1, <2>2, <2>3, <2>4
<1>2. CASE DeadlinePasses
  BY <1>2 DEF DeadlinePasses, Deadlines
<1>a. CASE Deny
  BY <1>a DEF Deny
<1>b. CASE Grant
  BY <1>b DEF Grant
<1>c. CASE Withdraw
  BY <1>c DEF Withdraw
<1>3. CASE SelectEvent
  <2>1. WithoutStreak(Reconciled) \in Paces /\ Consumed(WithoutStreak(Reconciled)) \in Paces
    BY <1>0, ReconciledRule, PaceRules
  <2> HIDE DEF TypeOK
  <2>2. /\ pace' \in Paces /\ worker' \in {"top", "resend", "send"}
        /\ batch' \in {"held", "fresh"} /\ stale' = FALSE /\ withdrawn' = FALSE
        /\ UNCHANGED <<spool, denied, unseen, wake, track, everDenied>>
    BY <1>3, <2>1 DEF SelectEvent, Publishing
  <2> QED
    BY <2>2 DEF TypeOK, Paces
<1>4. CASE SelectTick \/ SelectTimer
  <2>1. Consumed(WithoutStreak(pace)) \in Paces
    BY <1>0, PaceRules
  <2> HIDE DEF TypeOK
  <2>2. /\ pace' \in Paces /\ worker' \in {"top", "resend", "send"}
        /\ batch' \in {"empty", batch} /\ stale' \in {FALSE, stale}
        /\ UNCHANGED <<spool, withdrawn, denied, unseen, wake, track, everDenied>>
    BY <1>0, <1>4, <2>1 DEF SelectTick, SelectTimer, Publishes, Publishing, Settled
  <2> QED
    BY <2>2 DEF TypeOK, Paces
<1>5. CASE SelectWake \/ SelectFlush \/ Arm \/ BatchGated \/ FlushAbandoned
  BY <1>5 DEF SelectWake, SelectFlush, Arm, BatchGated, FlushAbandoned
<1>6. CASE Top
  <2> DEFINE p == WithoutDeadline(Reconciled)
             q == IF unseen THEN [p EXCEPT !.until = "none", !.streak = FALSE] ELSE p
  <2>1. p \in Paces
    BY <1>0, ReconciledRule, PaceRules
  <2>2. q \in Paces /\ Consumed(q) \in Paces
    BY <2>1, PaceRules
  <2> HIDE DEF TypeOK
  <2>3. /\ pace' \in Paces /\ worker' \in {"top", "resend", "send", "arm"}
        /\ batch' \in {"empty", batch} /\ stale' = FALSE /\ withdrawn' = FALSE
        /\ unseen' = FALSE /\ UNCHANGED <<spool, denied, wake, track, everDenied>>
    BY <1>6, <2>2 DEF Top, Publishing, Settled
  <2> QED
    BY <2>3 DEF TypeOK, Paces
<1>7. ASSUME NEW o \in Outcomes, ChunkEnds(o) \/ BatchEnds(o)
      PROVE  TypeOK'
  <2>1. Paced(pace, o) \in Paces
    BY <1>0, PacedType
  <2> QED
    BY <1>7, <2>1 DEF ChunkEnds, BatchEnds, Settles, Behind, Retried, Paces
<1>8. ASSUME NEW o \in Outcomes, FlushEnds(o)
      PROVE  TypeOK'
  <2>1. /\ WithoutStreak(pace) \in Paces
        /\ [WithoutStreak(pace) EXCEPT !.until = "none"] \in Paces
    BY <1>0, PaceRules
  <2>2. /\ Paced(WithoutStreak(pace), o) \in Paces
        /\ Paced([WithoutStreak(pace) EXCEPT !.until = "none"], o) \in Paces
    BY <2>1, PacedType
  <2> QED
    BY <1>8, <2>2 DEF FlushEnds, Settles, Behind, Retried, Settled, Paces
<1>9. CASE UNCHANGED vars
  BY <1>9 DEF vars
<1> QED
  BY <1>1, <1>2, <1>a, <1>b, <1>c, <1>3, <1>4, <1>5, <1>6, <1>7, <1>8, <1>9 DEF Next, WorkerRuns

\* The worker's pacing, its batch and its signals keep their types (run).
THEOREM TypeCorrect == Spec => []TypeOK
BY TypeInit, TypeStep, PTL DEF Spec

-----------------------------------------------------------------------------
(* Deadlines and the work behind them.                                     *)

LEMMA PacingInit == Init => PacingInv
BY DEF Init, PacingInv, DeadlineHasWork, SendsWork

LEMMA PacingStep == TypeOK /\ PacingInv /\ [Next]_vars => PacingInv'
<1> SUFFICES ASSUME TypeOK, PacingInv, [Next]_vars PROVE PacingInv'
  OBVIOUS
<1> USE DEF PacingInv, TypeOK, DeadlineHasWork, SendsWork
<1>0. pace \in Paces
  BY DEF Paces
<1>1. ASSUME NEW t \in Tracks,
             TrackBegins(t) \/ TrackFails(t) \/ TrackSucceeds(t) \/ TrackSignals(t)
      PROVE  PacingInv'
  <2>1. CASE TrackBegins(t)
    BY <2>1 DEF TrackBegins
  <2>2. CASE TrackFails(t)
    BY <2>2 DEF TrackFails
  <2>3. CASE TrackSucceeds(t)
    BY <2>3 DEF TrackSucceeds
  <2>4. CASE TrackSignals(t)
    BY <2>4 DEF TrackSignals
  <2> QED
    BY <1>1, <2>1, <2>2, <2>3, <2>4
<1>2. CASE DeadlinePasses
  BY <1>2 DEF DeadlinePasses, Deadlines
<1>a. CASE Deny
  BY <1>a DEF Deny
<1>b. CASE Grant
  BY <1>b DEF Grant
<1>c. CASE Withdraw
  BY <1>c DEF Withdraw
<1>3. CASE SelectEvent
  <2>1. CASE everDenied
    BY <1>3, <2>1 DEF SelectEvent
  <2>2. CASE ~everDenied
    <3>1. /\ Settled = batch /\ WithoutStreak(Reconciled) = Reconciled
          /\ Consumed(Reconciled).until = "none"
      BY <1>0, <2>2, ReconciledRule, PaceRules DEF Settled
    <3>2. /\ Reconciled = pace \/ Reconciled.until = "none"
          /\ withdrawn /\ ~spool /\ batch = "empty" => Reconciled.until = "none"
      BY <1>0, ReconciledRule
    <3> HIDE DEF TypeOK
    <3> QED
      BY <1>3, <2>2, <3>1, <3>2 DEF SelectEvent, Publishing
  <2> QED
    BY <2>1, <2>2
<1>4. CASE SelectTick \/ SelectTimer
  <2>1. CASE everDenied
    BY <1>4, <2>1 DEF SelectTick, SelectTimer
  <2>2. CASE ~everDenied
    <3>1. Settled = batch /\ Consumed(WithoutStreak(pace)).until = "none"
      BY <1>0, <2>2, PaceRules DEF Settled
    <3> HIDE DEF TypeOK
    <3> QED
      BY <1>4, <2>2, <3>1 DEF SelectTick, SelectTimer, InSelect, Publishes, Publishing
  <2> QED
    BY <2>1, <2>2
<1>5. CASE SelectWake \/ SelectFlush \/ Arm \/ BatchGated \/ FlushAbandoned
  BY <1>5 DEF SelectWake, SelectFlush, InSelect, Arm, BatchGated, FlushAbandoned
<1>6. CASE Top
  <2>1. CASE everDenied
    BY <1>6, <2>1 DEF Top
  <2>2. CASE ~everDenied
    <3> DEFINE q == IF unseen THEN [Reconciled EXCEPT !.until = "none", !.streak = FALSE]
                    ELSE Reconciled
    <3>1. Settled = batch /\ WithoutDeadline(Reconciled) = Reconciled /\ q \in Paces
      BY <1>0, <2>2, ReconciledRule, PaceRules DEF Settled
    <3>2. Consumed(q).until = "none" /\ (q = Reconciled \/ q.until = "none")
      BY <1>0, <3>1, ReconciledRule, PaceRules
    <3>3. /\ Reconciled = pace \/ Reconciled.until = "none"
          /\ withdrawn /\ ~spool /\ batch = "empty" => Reconciled.until = "none"
      BY <1>0, ReconciledRule
    <3>4. /\ batch' = batch /\ stale' = FALSE
          /\ \/ pace' = Consumed(q) /\ worker' = Publishing(batch)
             \/ pace' = q /\ worker' = "arm"
          /\ UNCHANGED <<spool, denied, everDenied>>
      BY <1>6, <3>1 DEF Top
    <3> HIDE DEF TypeOK, q
    <3> QED
      BY <2>2, <3>2, <3>3, <3>4 DEF Publishing
  <2> QED
    BY <2>1, <2>2
<1>7. ASSUME NEW o \in Outcomes, ChunkEnds(o)
      PROVE  PacingInv'
  BY <1>7 DEF ChunkEnds, Settles, Possible, Paced, Behind, Retried, Outcomes
<1>8. ASSUME NEW o \in Outcomes, BatchEnds(o)
      PROVE  PacingInv'
  BY <1>8 DEF BatchEnds, Settles, Possible, Paced, Behind, Retried, Outcomes
<1>9. ASSUME NEW o \in Outcomes, FlushEnds(o)
      PROVE  PacingInv'
  BY <1>9 DEF FlushEnds, Settles, Possible, Paced, Behind, Retried, Outcomes, Settled,
              WithoutStreak, Condemned
<1>10. CASE UNCHANGED vars
  BY <1>10 DEF vars
<1> QED
  BY <1>1, <1>2, <1>a, <1>b, <1>c, <1>3, <1>4, <1>5, <1>6, <1>7, <1>8, <1>9, <1>10
  DEF Next, WorkerRuns

\* Without a denial no fresh event waits behind the deadline of work that was
\* sent, refused or withdrawn, whatever the order of answers, successes of
\* Track calls, withdrawals and the worker's checks (reconcileSpoolWithdrawal,
\* applyRetryPacing).
THEOREM FreshEventsNotDeferred == Spec => []FreshNotDeferred
<1>1. TypeOK /\ PacingInv => FreshNotDeferred
  BY DEF TypeOK, PacingInv, DeadlineHasWork, FreshNotDeferred
<1> QED
  BY <1>1, TypeInit, TypeStep, PacingInit, PacingStep, PTL DEF Spec

=============================================================================
