------------------------ MODULE ClientLifecycleProofs ------------------------
(***************************************************************************)
(* Safety of Close and of the default consent sender, for any number of    *)
(* Close and Track calls, any channel capacity and any number of           *)
(* decisions.                                                              *)
(***************************************************************************)
EXTENDS ClientLifecycle, TLAPS

\* The sender's channel holds decisions newer than the one told last, in
\* order and up to the one being served; under the floor it is not used.
SendsInv ==
    /\ handing # "none" => ~floor /\ serving < tickets
    /\ told <= serving
    /\ \A i \in 1 .. Len(sends) : told < sends[i] /\ sends[i] <= serving
    /\ \A i, j \in 1 .. Len(sends) : i < j => sends[i] < sends[j]
    /\ floor => sends = <<>> /\ told = 0

\* The teardown owns inFlight in these states.
Active == {"redrain", "flush", "reply", "stop", "worker", "lane", "sender", "drain", "lanes",
           "conclude"}

\* Nothing is stopped before the client is closed and all decisions are
\* served, so that a sender that ended has told everything.
StopInv ==
    /\ \A c \in Closers : call[c] # "idle" => closed
    /\ \A c \in Closers : call[c] \in Active \cup {"finish", "waiter"} => DecisionsOver
    /\ stop => closed /\ DecisionsOver
    /\ sender \in {"draining", "done"} => stop
    /\ sender = "done" => sends = <<>>

\* Who holds the teardown, and that whoever waits waits for its verdict.
OwnerInv ==
    /\ inFlight # Nobody => call[inFlight] \in Active
    /\ \A c \in Closers : call[c] = "waiter" =>
          waitsFor[c] \in Closers /\ (complete \/ call[waitsFor[c]] \in Active)

\* A call that has met no error so far has seen end what it waited for.
VerdictInv ==
    /\ \A c \in Closers : "gated" \in err[c] \/ reply[c] = "gated" => gated
    /\ "gated" \in closeErr => gated
    /\ ~gated => \A c \in Closers : err[c] = {} =>
          /\ call[c] \in {"lane", "sender", "drain"} => worker = "done"
          /\ call[c] \in {"sender", "drain"} => lane = "done"
          /\ call[c] \in {"drain", "conclude", "returned"} => LanesDone
    /\ ~gated /\ complete /\ closeErr = {} => LanesDone

-----------------------------------------------------------------------------
(* Types and the sender's channel.                                         *)

LEMMA HostKept ==
    ASSUME HostType, UNCHANGED <<floor, stop, hostVars>> PROVE HostType'
BY DEF HostType, hostVars

LEMMA SenderKept ==
    ASSUME SenderType, UNCHANGED <<senderVars, tickets>> PROVE SenderType'
BY DEF SenderType, senderVars

LEMMA WorkerKept ==
    ASSUME WorkerType, UNCHANGED <<lane, workerVars>> PROVE WorkerType'
BY DEF WorkerType, workerVars

LEMMA CloseKept ==
    ASSUME CloseType, UNCHANGED closeVars PROVE CloseType'
BY DEF CloseType, closeVars

LEMMA MovesType ==
    ASSUME CloseType, NEW c \in Closers, NEW to \in CallStates, NEW e \in SUBSET Errors,
           Moves(c, to, e)
    PROVE  call' \in [Closers -> CallStates] /\ err' \in [Closers -> SUBSET Errors]
BY DEF CloseType, Moves

LEMMA TypeInit == Init => TypeOK /\ SendsInv
<1> SUFFICES ASSUME Init PROVE TypeOK /\ SendsInv
  OBVIOUS
<1>0. HostType
  <2>1. tickets \in 0 .. MaxDecisions /\ serving \in 0 .. tickets
    BY LifecycleAssumption DEF Init
  <2> QED
    BY <2>1 DEF Init, HostType
<1>1. SenderType
  <2>1. sends = <<>> /\ Len(sends) = 0 /\ <<>> \in Seq(1 .. MaxDecisions)
    BY DEF Init
  <2> QED
    BY <2>1, LifecycleAssumption DEF Init, SenderType
<1>2. WorkerType /\ CloseType
  BY DEF Init, WorkerType, CloseType, CallStates, Errors
<1>3. SendsInv
  BY DEF Init, SendsInv
<1> QED
  BY <1>0, <1>1, <1>2, <1>3 DEF TypeOK

LEMMA TypeStep == TypeOK /\ SendsInv /\ [Next]_vars => TypeOK'
<1> SUFFICES ASSUME HostType, SenderType, WorkerType, CloseType, SendsInv, [Next]_vars
             PROVE  TypeOK'
  BY DEF TypeOK
<1> USE DEF closeVars, hostVars, senderVars, workerVars, sharedVars, restVars
<1> USE DEF TypeOK
<1>1. ASSUME NEW t \in Tracks, TrackBegins(t) \/ TrackEnds(t)
      PROVE  TypeOK'
  <2>1. HostType'
    BY <1>1 DEF TrackBegins, TrackEnds, HostType
  <2> QED
    BY <1>1, <2>1, SenderKept, WorkerKept, CloseKept DEF TrackBegins, TrackEnds
<1>2. CASE SetConsent
  <2>1. HostType'
    BY <1>2, LifecycleAssumption DEF SetConsent, HostType, SendsInv
  <2>2. SenderType'
    BY <1>2, LifecycleAssumption DEF SetConsent, SenderType, HostType, SenderType, SendsInv
  <2> QED
    BY <1>2, <2>1, <2>2, WorkerKept, CloseKept DEF SetConsent
<1>3. CASE DecisionRecorded
  <2>1. HostType'
    BY <1>3, LifecycleAssumption DEF DecisionRecorded, HostType, SendsInv
  <2> QED
    BY <1>3, <2>1, SenderKept, WorkerKept, CloseKept DEF DecisionRecorded
<1>4. CASE DecisionHandsOver
  <2>1. HostType'
    BY <1>4, LifecycleAssumption DEF DecisionHandsOver, StartSender, HostType, SendsInv
  <2>2. SenderType'
    BY <1>4, LifecycleAssumption DEF DecisionHandsOver, StartSender, SenderType, HostType, SenderType, SendsInv
  <2> QED
    BY <1>4, <2>1, <2>2, WorkerKept, CloseKept DEF DecisionHandsOver
<1>5. CASE DecisionEnqueued
  <2>1. HostType'
    BY <1>5, LifecycleAssumption DEF DecisionEnqueued, HostType, SendsInv
  <2>2. SenderType'
    BY <1>5, LifecycleAssumption DEF DecisionEnqueued, SenderType, HostType, SenderType, SendsInv
  <2> QED
    BY <1>5, <2>1, <2>2, WorkerKept, CloseKept DEF DecisionEnqueued
<1>6. CASE BacklogFull
  <2>1. HostType'
    BY <1>6, LifecycleAssumption DEF BacklogFull, HostType, SendsInv
  <2> QED
    BY <1>6, <2>1, SenderKept, WorkerKept, CloseKept DEF BacklogFull
<1>7. CASE DropOldest
  <2>1. HostType'
    BY <1>7 DEF DropOldest, HostType
  <2>2. CASE sends = <<>>
    BY <1>7, <2>1, <2>2, SenderKept, WorkerKept, CloseKept DEF DropOldest, Trimmed
  <2>3. CASE sends # <<>>
    <3>1. sends' = Tail(sends)
      BY <1>7, <2>3 DEF DropOldest, Trimmed
    <3>2. SenderType'
      BY <1>7, <2>3, <3>1, LifecycleAssumption DEF DropOldest, SenderType
    <3> QED
      BY <1>7, <2>1, <3>2, WorkerKept, CloseKept DEF DropOldest
  <2> QED
    BY <2>2, <2>3
<1>8. CASE SenderTakes
  <2>1. SenderType'
    BY <1>8, LifecycleAssumption DEF SenderTakes, SenderType, HostType, SenderType, SendsInv
  <2> QED
    BY <1>8, <2>1, HostKept, WorkerKept, CloseKept DEF SenderTakes
<1>9. CASE SenderStops
  <2>1. SenderType'
    BY <1>9, LifecycleAssumption DEF SenderStops, SenderType, HostType, SenderType, SendsInv
  <2> QED
    BY <1>9, <2>1, HostKept, WorkerKept, CloseKept DEF SenderStops
<1>10. CASE SenderExits
  <2>1. SenderType'
    BY <1>10, LifecycleAssumption DEF SenderExits, SenderType, HostType, SenderType, SendsInv
  <2> QED
    BY <1>10, <2>1, HostKept, WorkerKept, CloseKept DEF SenderExits
<1>11. CASE LaneExits
  <2>1. WorkerType'
    BY <1>11, LifecycleAssumption DEF LaneExits, WorkerType, FlushOutcomes
  <2> QED
    BY <1>11, <2>1, HostKept, SenderKept, CloseKept DEF LaneExits
<1>12. CASE SelectEvent
  <2>1. WorkerType'
    BY <1>12, LifecycleAssumption DEF SelectEvent, WorkerType, FlushOutcomes
  <2> QED
    BY <1>12, <2>1, HostKept, SenderKept, CloseKept DEF SelectEvent
<1>13. CASE Publish
  <2>1. WorkerType'
    BY <1>13, LifecycleAssumption DEF Publish, WorkerType, FlushOutcomes
  <2> QED
    BY <1>13, <2>1, HostKept, SenderKept, CloseKept DEF Publish
<1>14. CASE SelectStop
  <2>1. WorkerType'
    BY <1>14, LifecycleAssumption DEF SelectStop, WorkerType, FlushOutcomes
  <2> QED
    BY <1>14, <2>1, HostKept, SenderKept, CloseKept DEF SelectStop
<1>15. ASSUME NEW c \in Closers, SelectFlush(c)
      PROVE  TypeOK'
  <2>1. WorkerType'
    BY <1>15, LifecycleAssumption DEF SelectFlush, WorkerType, FlushOutcomes
  <2>2. CloseType'
    BY <1>15, LifecycleAssumption DEF SelectFlush, CloseType, CallStates, Errors
  <2> QED
    BY <1>15, <2>1, <2>2, HostKept, SenderKept DEF SelectFlush
<1>16. ASSUME NEW o \in FlushOutcomes, FlushEnds(o)
      PROVE  TypeOK'
  <2>1. WorkerType'
    BY <1>16, LifecycleAssumption DEF FlushEnds, WorkerType, FlushOutcomes
  <2> QED
    BY <1>16, <2>1, HostKept, SenderKept, CloseKept DEF FlushEnds
<1>17. ASSUME NEW c \in Closers, Close(c)
      PROVE  TypeOK'
  <2>1. HostType'
    BY <1>17, LifecycleAssumption DEF Close, HostType, SendsInv
  <2>2. CloseType'
    BY <1>17, LifecycleAssumption DEF Close, CloseType, CallStates, Errors
  <2> QED
    BY <1>17, <2>1, <2>2, SenderKept, WorkerKept DEF Close
<1>18. ASSUME NEW c \in Closers, ContextEnds(c)
      PROVE  TypeOK'
  <2>1. CloseType'
    BY <1>18, LifecycleAssumption DEF ContextEnds, CloseType, CallStates, Errors
  <2> QED
    BY <1>18, <2>1, HostKept, SenderKept, WorkerKept DEF ContextEnds
<1>19. ASSUME NEW c \in Closers, waitForTracks(c)
      PROVE  TypeOK'
  <2>1. CloseType'
    BY <1>19, LifecycleAssumption DEF waitForTracks, Moves, Return, TracksOver, CloseType, CallStates, Errors
  <2> QED
    BY <1>19, <2>1, HostKept, SenderKept, WorkerKept DEF waitForTracks
<1>20. ASSUME NEW c \in Closers, waitForConsentDecisions(c)
      PROVE  TypeOK'
  <2>1. CloseType'
    BY <1>20, LifecycleAssumption DEF waitForConsentDecisions, Moves, Return, DecisionsOver, CloseType, CallStates, Errors
  <2> QED
    BY <1>20, <2>1, HostKept, SenderKept, WorkerKept DEF waitForConsentDecisions
<1>21. ASSUME NEW c \in Closers, FinishWaits(c)
      PROVE  TypeOK'
  <2>1. CloseType'
    BY <1>21, LifecycleAssumption DEF FinishWaits, Moves, CloseType, CallStates, Errors
  <2> QED
    BY <1>21, <2>1, HostKept, SenderKept, WorkerKept DEF FinishWaits
<1>22. ASSUME NEW c \in Closers, CachedVerdict(c)
      PROVE  TypeOK'
  <2>1. CloseType'
    BY <1>22, LifecycleAssumption DEF CachedVerdict, Moves, Return, Folded, CloseType, CallStates, Errors
  <2> QED
    BY <1>22, <2>1, HostKept, SenderKept, WorkerKept DEF CachedVerdict
<1>23. ASSUME NEW c \in Closers, FinishBegins(c)
      PROVE  TypeOK'
  <2>1. CloseType'
    BY <1>23, LifecycleAssumption DEF FinishBegins, Moves, CloseType, CallStates, Errors
  <2> QED
    BY <1>23, <2>1, HostKept, SenderKept, WorkerKept DEF FinishBegins
<1>24. ASSUME NEW c \in Closers, WaiterWakes(c)
      PROVE  TypeOK'
  <2>1. call' \in [Closers -> CallStates] /\ err' \in [Closers -> SUBSET Errors]
    <3>1. Folded(closeErr) \in SUBSET Errors /\ {"ctx"} \in SUBSET Errors
      BY DEF Folded, CloseType, Errors
    <3> QED
      BY <1>24, <3>1, MovesType DEF WaiterWakes, Return, CallStates
  <2>2. CloseType'
    BY <1>24, <2>1 DEF WaiterWakes, CloseType
  <2> QED
    BY <1>24, <2>2, HostKept, SenderKept, WorkerKept DEF WaiterWakes
<1>25. ASSUME NEW c \in Closers, FlushReturns(c)
      PROVE  TypeOK'
  <2>1. call' \in [Closers -> CallStates] /\ err' \in [Closers -> SUBSET Errors]
    <3>1. {"ctx"} \in SUBSET Errors /\ {} \in SUBSET Errors
          /\ (reply[c] # "none" => {reply[c]} \in SUBSET Errors \/ reply[c] = "ok")
      BY DEF WorkerType, FlushOutcomes, Errors
    <3> QED
      BY <1>25, <3>1, MovesType DEF FlushReturns, CallStates
  <2>2. CloseType'
    BY <1>25, <2>1 DEF FlushReturns, CloseType
  <2> QED
    BY <1>25, <2>2, HostKept, SenderKept, WorkerKept DEF FlushReturns
<1>26. ASSUME NEW c \in Closers, StopLanes(c)
      PROVE  TypeOK'
  <2>1. HostType'
    BY <1>26, LifecycleAssumption DEF StopLanes, Moves, HostType, SendsInv
  <2>2. CloseType'
    BY <1>26, LifecycleAssumption DEF StopLanes, Moves, CloseType, CallStates, Errors
  <2> QED
    BY <1>26, <2>1, <2>2, SenderKept, WorkerKept DEF StopLanes
<1>27. ASSUME NEW c \in Closers, AwaitWorker(c)
      PROVE  TypeOK'
  <2>1. CloseType'
    BY <1>27, LifecycleAssumption DEF AwaitWorker, Awaits, Moves, CloseType, CallStates, Errors
  <2> QED
    BY <1>27, <2>1, HostKept, SenderKept, WorkerKept DEF AwaitWorker
<1>28. ASSUME NEW c \in Closers, AwaitLane(c)
      PROVE  TypeOK'
  <2>1. SenderType'
    BY <1>28, LifecycleAssumption DEF AwaitLane, Awaits, Moves, StartSender, SenderType, HostType, SenderType, SendsInv
  <2>2. CloseType'
    BY <1>28, LifecycleAssumption DEF AwaitLane, Awaits, Moves, StartSender, CloseType, CallStates, Errors
  <2> QED
    BY <1>28, <2>1, <2>2, HostKept, WorkerKept DEF AwaitLane
<1>29. ASSUME NEW c \in Closers, AwaitSender(c)
      PROVE  TypeOK'
  <2>1. CloseType'
    BY <1>29, LifecycleAssumption DEF AwaitSender, Awaits, Moves, CloseType, CallStates, Errors
  <2> QED
    BY <1>29, <2>1, HostKept, SenderKept, WorkerKept DEF AwaitSender
<1>30. ASSUME NEW c \in Closers, Drain(c)
      PROVE  TypeOK'
  <2>1. PICK v \in DrainVerdicts :
           Moves(c, "conclude", IF "gated" \in err[c] THEN v ELSE err[c] \cup v)
    BY <1>30 DEF Drain
  <2>2. v \in SUBSET Errors /\ err[c] \cup v \in SUBSET Errors
    BY DEF DrainVerdicts, CloseType, Errors
  <2>3. call' \in [Closers -> CallStates] /\ err' \in [Closers -> SUBSET Errors]
    BY <2>1, <2>2, MovesType DEF CallStates
  <2>4. CloseType'
    BY <1>30, <2>3 DEF Drain, CloseType
  <2>5. HostType'
    BY <1>30 DEF Drain, finalizeConsentOutbox, HostType
  <2> QED
    BY <1>30, <2>4, <2>5, SenderKept, WorkerKept DEF Drain
<1>31. ASSUME NEW c \in Closers, Redrain(c)
      PROVE  TypeOK'
  <2>1. HostType'
    BY <1>31, LifecycleAssumption DEF Redrain, Moves, finalizeConsentOutbox, DrainVerdicts, HostType, SendsInv
  <2>2. CloseType'
    BY <1>31, LifecycleAssumption DEF Redrain, Moves, finalizeConsentOutbox, DrainVerdicts, CloseType, CallStates, Errors
  <2> QED
    BY <1>31, <2>1, <2>2, SenderKept, WorkerKept DEF Redrain
<1>32. ASSUME NEW c \in Closers, AwaitLanes(c)
      PROVE  TypeOK'
  <2>1. call' \in [Closers -> CallStates] /\ err' \in [Closers -> SUBSET Errors]
    <3>1. err[c] \in SUBSET Errors /\ err[c] \cup {"ctx"} \in SUBSET Errors
      BY DEF CloseType, Errors
    <3> QED
      BY <1>32, <3>1, MovesType DEF AwaitLanes, CallStates
  <2>2. CloseType'
    BY <1>32, <2>1 DEF AwaitLanes, CloseType
  <2> QED
    BY <1>32, <2>2, HostKept, SenderKept, WorkerKept DEF AwaitLanes
<1>33. ASSUME NEW c \in Closers, Conclude(c)
      PROVE  TypeOK'
  <2>1. CloseType'
    BY <1>33, LifecycleAssumption DEF Conclude, Moves, Return, Folded, CloseType, CallStates, Errors
  <2> QED
    BY <1>33, <2>1, HostKept, SenderKept, WorkerKept DEF Conclude
<1>34. CASE UNCHANGED vars
  BY <1>34, HostKept, SenderKept, WorkerKept, CloseKept DEF vars
<1> QED
  BY <1>1, <1>2, <1>3, <1>4, <1>5, <1>6, <1>7, <1>8, <1>9, <1>10, <1>11, <1>12, <1>13,
     <1>14, <1>15, <1>16, <1>17, <1>18, <1>19, <1>20, <1>21, <1>22, <1>23, <1>24,
     <1>25, <1>26, <1>27, <1>28, <1>29, <1>30, <1>31, <1>32, <1>33, <1>34
  DEF Next, HostStep, SenderStep, WorkerStep, CloseStep

LEMMA SendsStep == TypeOK /\ SendsInv /\ [Next]_vars => SendsInv'
<1> SUFFICES ASSUME HostType, SenderType, SendsInv, [Next]_vars PROVE SendsInv'
  BY DEF TypeOK
<1> USE DEF closeVars, hostVars, senderVars, workerVars, sharedVars, restVars
<1> USE LifecycleAssumption DEF SendsInv
<1>1. ASSUME NEW t \in Tracks, TrackBegins(t) \/ TrackEnds(t)
      PROVE  SendsInv'
  BY <1>1 DEF TrackBegins, TrackEnds
<1>2. CASE SetConsent
  BY <1>2 DEF SetConsent, HostType
<1>3. CASE DecisionRecorded
  <2>1. sends = <<>> /\ told = 0
    BY <1>3 DEF DecisionRecorded
  <2> QED
    BY <1>3, <2>1 DEF DecisionRecorded, HostType
<1>4. CASE DecisionHandsOver
  BY <1>4 DEF DecisionHandsOver, StartSender
<1>5. CASE DecisionEnqueued
  <2>1. /\ serving \in Int /\ serving' = serving + 1 /\ handing' = "none" /\ ~floor
        /\ floor' = floor /\ told' = told
    BY <1>5 DEF DecisionEnqueued, HostType
  <2>2. /\ Len(sends') = Len(sends) + 1 /\ sends'[Len(sends) + 1] = serving + 1
        /\ \A i \in 1 .. Len(sends) : sends'[i] = sends[i] /\ sends[i] \in Int
        /\ Len(sends) \in Nat /\ told \in Int
    BY <1>5 DEF DecisionEnqueued, SenderType
  <2>3. \A i \in 1 .. Len(sends') : i \in 1 .. Len(sends) \/ i = Len(sends) + 1
    BY <2>2
  <2>4. \A i \in 1 .. Len(sends') : told' < sends'[i] /\ sends'[i] <= serving'
    BY <2>1, <2>2, <2>3
  <2>5. \A i, j \in 1 .. Len(sends') : i < j => sends'[i] < sends'[j]
    BY <2>1, <2>2, <2>3
  <2> QED
    BY <2>1, <2>2, <2>4, <2>5
<1>6. CASE BacklogFull
  BY <1>6 DEF BacklogFull
<1>7. CASE DropOldest
  BY <1>7 DEF DropOldest, Trimmed
<1>8. CASE SenderTakes
  BY <1>8 DEF SenderTakes
<1>9. CASE SenderStops
  BY <1>9 DEF SenderStops
<1>10. CASE SenderExits
  BY <1>10 DEF SenderExits
<1>11. CASE LaneExits
  BY <1>11 DEF LaneExits
<1>12. CASE SelectEvent
  BY <1>12 DEF SelectEvent
<1>13. CASE Publish
  BY <1>13 DEF Publish
<1>14. CASE SelectStop
  BY <1>14 DEF SelectStop
<1>15. ASSUME NEW c \in Closers, SelectFlush(c)
      PROVE  SendsInv'
  BY <1>15 DEF SelectFlush
<1>16. ASSUME NEW o \in FlushOutcomes, FlushEnds(o)
      PROVE  SendsInv'
  BY <1>16 DEF FlushEnds
<1>17. ASSUME NEW c \in Closers, Close(c)
      PROVE  SendsInv'
  BY <1>17 DEF Close
<1>18. ASSUME NEW c \in Closers, ContextEnds(c)
      PROVE  SendsInv'
  BY <1>18 DEF ContextEnds
<1>19. ASSUME NEW c \in Closers, waitForTracks(c)
      PROVE  SendsInv'
  BY <1>19 DEF waitForTracks, Moves, Return, TracksOver
<1>20. ASSUME NEW c \in Closers, waitForConsentDecisions(c)
      PROVE  SendsInv'
  BY <1>20 DEF waitForConsentDecisions, Moves, Return, DecisionsOver
<1>21. ASSUME NEW c \in Closers, FinishWaits(c)
      PROVE  SendsInv'
  BY <1>21 DEF FinishWaits, Moves
<1>22. ASSUME NEW c \in Closers, CachedVerdict(c)
      PROVE  SendsInv'
  BY <1>22 DEF CachedVerdict, Moves, Return, Folded
<1>23. ASSUME NEW c \in Closers, FinishBegins(c)
      PROVE  SendsInv'
  BY <1>23 DEF FinishBegins, Moves
<1>24. ASSUME NEW c \in Closers, WaiterWakes(c)
      PROVE  SendsInv'
  BY <1>24 DEF WaiterWakes, Moves, Return, Folded
<1>25. ASSUME NEW c \in Closers, FlushReturns(c)
      PROVE  SendsInv'
  BY <1>25 DEF FlushReturns, Moves
<1>26. ASSUME NEW c \in Closers, StopLanes(c)
      PROVE  SendsInv'
  BY <1>26 DEF StopLanes, Moves
<1>27. ASSUME NEW c \in Closers, AwaitWorker(c)
      PROVE  SendsInv'
  BY <1>27 DEF AwaitWorker, Awaits, Moves
<1>28. ASSUME NEW c \in Closers, AwaitLane(c)
      PROVE  SendsInv'
  BY <1>28 DEF AwaitLane, Awaits, Moves, StartSender
<1>29. ASSUME NEW c \in Closers, AwaitSender(c)
      PROVE  SendsInv'
  BY <1>29 DEF AwaitSender, Awaits, Moves
<1>30. ASSUME NEW c \in Closers, Drain(c)
      PROVE  SendsInv'
  BY <1>30 DEF Drain, Moves, finalizeConsentOutbox, DrainVerdicts
<1>31. ASSUME NEW c \in Closers, Redrain(c)
      PROVE  SendsInv'
  BY <1>31 DEF Redrain, Moves, finalizeConsentOutbox, DrainVerdicts
<1>32. ASSUME NEW c \in Closers, AwaitLanes(c)
      PROVE  SendsInv'
  BY <1>32 DEF AwaitLanes, Moves, LanesDone
<1>33. ASSUME NEW c \in Closers, Conclude(c)
      PROVE  SendsInv'
  BY <1>33 DEF Conclude, Moves, Return, Folded
<1>34. CASE UNCHANGED vars
  BY <1>34 DEF vars
<1> QED
  BY <1>1, <1>2, <1>3, <1>4, <1>5, <1>6, <1>7, <1>8, <1>9, <1>10, <1>11, <1>12, <1>13,
     <1>14, <1>15, <1>16, <1>17, <1>18, <1>19, <1>20, <1>21, <1>22, <1>23, <1>24,
     <1>25, <1>26, <1>27, <1>28, <1>29, <1>30, <1>31, <1>32, <1>33, <1>34
  DEF Next, HostStep, SenderStep, WorkerStep, CloseStep

\* The state of Track and SetConsent calls, of the channel, the worker, the lane
\* and the Close calls keeps its types (client.go, consent.go).
THEOREM TypeCorrect == Spec => []TypeOK
BY TypeInit, TypeStep, SendsStep, PTL DEF Spec

\* The default sender refines the safety of the register, for every channel
\* capacity: decisions are told in the order they were taken, each at most
\* once, and none before it was taken (enqueueConsentPublish, consentSender).
THEOREM SenderImplementsRegister == Spec => Register!RegisterSafety
<1>1. Init => Register!RegisterInit
  BY DEF Init, Register!RegisterInit
<1>2. TypeOK /\ SendsInv /\ [Next]_vars
         => [Register!Decide \/ Register!Tell]_<<IF floor THEN 0 ELSE tickets, told>>
  <2> SUFFICES ASSUME HostType, SenderType, SendsInv, [Next]_vars
               PROVE  [Register!Decide \/ Register!Tell]_<<IF floor THEN 0 ELSE tickets, told>>
    BY DEF TypeOK
  <2> USE DEF closeVars, hostVars, senderVars, workerVars, sharedVars, restVars
  <2>1. CASE SetConsent
    BY <2>1 DEF SetConsent, Register!Decide, HostType
  <2>2. CASE SenderTakes
    <3>1. sends # <<>> /\ told' = sends[1] /\ UNCHANGED <<floor, tickets>>
      BY <2>2 DEF SenderTakes
    <3>2. /\ ~floor /\ told < sends[1] /\ sends[1] <= tickets
          /\ sends[1] \in Int /\ told \in Int /\ tickets \in Int
      <4>1. sends \in Seq(1 .. MaxDecisions) /\ 1 \in 1 .. Len(sends)
        BY <3>1 DEF SenderType
      <4>2. sends[1] \in 1 .. MaxDecisions
        <5>1. ASSUME NEW S, sends \in Seq(S) PROVE sends[1] \in S
          BY <4>1, <5>1
        <5> QED
          BY <4>1, <5>1
      <4>3. told < sends[1] /\ sends[1] <= serving
        BY <4>1 DEF SendsInv
      <4>4. ~floor
        BY <3>1 DEF SendsInv
      <4> QED
        BY <4>2, <4>3, <4>4, LifecycleAssumption DEF SenderType, HostType
    <3> QED
      BY <3>1, <3>2 DEF Register!Tell
  <2>3. ASSUME UNCHANGED <<floor, tickets, told>>
        PROVE  UNCHANGED <<IF floor THEN 0 ELSE tickets, told>>
    BY <2>3
  <2>4. CASE SenderStops \/ SenderExits \/ LaneExits
    BY <2>3, <2>4 DEF SenderStops, SenderExits, LaneExits
  <2>5. CASE \/ \E t \in Tracks : TrackBegins(t) \/ TrackEnds(t)
             \/ DecisionRecorded \/ DecisionHandsOver \/ DecisionEnqueued \/ BacklogFull
             \/ DropOldest
    BY <2>3, <2>5 DEF TrackBegins, TrackEnds, DecisionRecorded, DecisionHandsOver,
                      DecisionEnqueued, BacklogFull, DropOldest
  <2>6. CASE WorkerStep
    BY <2>3, <2>6 DEF WorkerStep, SelectEvent, Publish, SelectStop, SelectFlush, FlushEnds
  <2>7. ASSUME NEW c \in Closers, Close(c) \/ ContextEnds(c) \/ CloseStep(c)
        PROVE  UNCHANGED <<floor, tickets, told>>
    BY <2>7 DEF Close, ContextEnds, CloseStep, waitForTracks, waitForConsentDecisions,
                FinishWaits, CachedVerdict, FinishBegins, WaiterWakes, FlushReturns, StopLanes,
                AwaitWorker, AwaitLane, AwaitSender, Drain, Redrain, AwaitLanes, Conclude
  <2>8. CASE UNCHANGED vars
    BY <2>3, <2>8 DEF vars
  <2> QED
    BY <2>1, <2>2, <2>3, <2>4, <2>5, <2>6, <2>7, <2>8 DEF Next, HostStep, SenderStep
<1>3. Spec => Register!RegisterInit
              /\ [][Register!Decide \/ Register!Tell]_<<IF floor THEN 0 ELSE tickets, told>>
  BY <1>1, <1>2, TypeInit, TypeStep, SendsStep, PTL DEF Spec
<1> QED
  BY <1>3 DEF Register!RegisterSafety

-----------------------------------------------------------------------------
(* The losses a Close reports.                                             *)

Reports == \A c \in Closers :
    call[c] # "returned" /\ call'[c] = "returned" /\ discarded
        => "lost" \in err'[c] \/ (expired[c] /\ "ctx" \in err'[c])

LEMMA StepReports == TypeOK /\ [Next]_vars => Reports
<1> SUFFICES ASSUME CloseType, [Next]_vars PROVE Reports
  BY DEF TypeOK
<1> USE DEF closeVars, sharedVars, restVars
<1>1. ASSUME UNCHANGED call PROVE Reports
  BY <1>1 DEF Reports
<1>2. ASSUME NEW c \in Closers, NEW to, NEW e, Moves(c, to, e),
             to = "returned" /\ discarded => "lost" \in e \/ (expired[c] /\ "ctx" \in e)
      PROVE  Reports
  BY <1>2 DEF Moves, Reports, CloseType
<1>3. CASE HostStep \/ SenderStep \/ LaneExits
  BY <1>1, <1>3 DEF HostStep, TrackBegins, TrackEnds, SetConsent, DecisionRecorded,
         DecisionHandsOver, DecisionEnqueued, BacklogFull, DropOldest, SenderStep, SenderTakes,
         SenderStops, SenderExits, LaneExits
<1>4. CASE WorkerStep
  <2>1. ASSUME NEW c \in Closers, SelectFlush(c) PROVE Reports
    BY <2>1 DEF SelectFlush, Reports, CloseType
  <2> QED
    BY <1>1, <1>4, <2>1 DEF WorkerStep, SelectEvent, Publish, SelectStop, FlushEnds
<1>5. ASSUME NEW c \in Closers, Close(c) PROVE Reports
  BY <1>5 DEF Close, Reports, CloseType
<1>6. ASSUME NEW c \in Closers, ContextEnds(c) PROVE Reports
  BY <1>1, <1>6 DEF ContextEnds
<1>7. ASSUME NEW c \in Closers, CloseStep(c) PROVE Reports
  <2>1. CASE waitForTracks(c)
    BY <1>2, <2>1 DEF waitForTracks, Return
  <2>2. CASE waitForConsentDecisions(c)
    BY <1>2, <2>2 DEF waitForConsentDecisions, Return
  <2>3. CASE FinishWaits(c) \/ FinishBegins(c)
    BY <1>2, <2>3 DEF FinishWaits, FinishBegins
  <2>4. CASE CachedVerdict(c) \/ WaiterWakes(c) \/ Conclude(c)
    BY <1>2, <2>4 DEF CachedVerdict, WaiterWakes, Conclude, Return, Folded
  <2>5. CASE FlushReturns(c) \/ StopLanes(c)
    BY <1>2, <2>5 DEF FlushReturns, StopLanes
  <2>6. CASE AwaitWorker(c) \/ AwaitLane(c) \/ AwaitSender(c) \/ AwaitLanes(c)
    BY <1>2, <2>6 DEF AwaitWorker, AwaitLane, AwaitSender, AwaitLanes, Awaits
  <2>7. CASE Drain(c) \/ Redrain(c)
    BY <1>2, <2>7 DEF Drain, Redrain
  <2> QED
    BY <1>7, <2>1, <2>2, <2>3, <2>4, <2>5, <2>6, <2>7 DEF CloseStep
<1>8. CASE UNCHANGED vars
  BY <1>1, <1>8 DEF vars
<1> QED
  BY <1>3, <1>4, <1>5, <1>6, <1>7, <1>8 DEF Next

\* Events that the worker discarded at its stop are reported by every Close
\* that returns afterwards, or its own context had ended (closeDiscardVerdict).
THEOREM LossesAreReported == Spec => LossReported
<1>1. TypeOK /\ SendsInv /\ [Next]_vars => [Reports]_vars
  BY StepReports
<1>2. Spec => [][Reports]_vars
  BY <1>1, TypeInit, TypeStep, SendsStep, PTL DEF Spec
<1> QED
  BY <1>2 DEF LossReported, Reports

-----------------------------------------------------------------------------
(* A clean Close.                                                          *)

LEMMA CloseInvInit == Init => StopInv /\ OwnerInv /\ VerdictInv
BY LifecycleAssumption DEF Init, StopInv, OwnerInv, VerdictInv, Active, DecisionsOver

LEMMA StopStep == TypeOK /\ SendsInv /\ StopInv /\ [Next]_vars => StopInv'
<1> SUFFICES ASSUME HostType, SenderType, CloseType, SendsInv, StopInv, [Next]_vars
             PROVE  StopInv'
  BY DEF TypeOK
<1> USE DEF closeVars, hostVars, senderVars, workerVars, sharedVars, restVars
<1>1. CASE HostStep
  <2>1. CASE \E t \in Tracks : TrackBegins(t) \/ TrackEnds(t)
    BY <2>1 DEF TrackBegins, TrackEnds, StopInv, DecisionsOver
  <2>2. CASE SetConsent
    BY <2>2 DEF SetConsent, StopInv, Active
  <2>3. CASE DecisionRecorded
    BY <2>3 DEF DecisionRecorded, StopInv, DecisionsOver, HostType
  <2>4. CASE DecisionHandsOver
    BY <2>4 DEF DecisionHandsOver, StartSender, StopInv, DecisionsOver, HostType
  <2>5. CASE DecisionEnqueued
    <3>1. ~DecisionsOver
      BY <2>5 DEF DecisionEnqueued, SendsInv, DecisionsOver, HostType
    <3> QED
      BY <2>5, <3>1 DEF DecisionEnqueued, StopInv
  <2>6. CASE BacklogFull \/ DropOldest
    <3>1. ~DecisionsOver
      BY <2>6 DEF BacklogFull, DropOldest, SendsInv, DecisionsOver, HostType
    <3> QED
      BY <2>6, <3>1 DEF BacklogFull, DropOldest, StopInv, DecisionsOver
  <2> QED
    BY <1>1, <2>1, <2>2, <2>3, <2>4, <2>5, <2>6 DEF HostStep
<1>2. CASE SenderTakes
  BY <1>2 DEF SenderTakes, StopInv, DecisionsOver
<1>3. CASE SenderStops \/ SenderExits \/ LaneExits
  BY <1>3 DEF SenderStops, SenderExits, LaneExits, StopInv, DecisionsOver
<1>4. CASE WorkerStep
  <2>1. ASSUME NEW c \in Closers, SelectFlush(c) PROVE StopInv'
    BY <2>1 DEF SelectFlush, StopInv, DecisionsOver, CloseType, Active
  <2>2. CASE SelectEvent \/ Publish \/ SelectStop \/ \E o \in FlushOutcomes : FlushEnds(o)
    <3>1. UNCHANGED <<stop, closed, tickets, serving, call, sender, sends>>
      BY <2>2 DEF SelectEvent, Publish, SelectStop, FlushEnds
    <3> QED
      BY <3>1 DEF StopInv, DecisionsOver
  <2> QED
    BY <1>4, <2>1, <2>2 DEF WorkerStep
<1>5. ASSUME NEW c \in Closers, Close(c) \/ ContextEnds(c) PROVE StopInv'
  BY <1>5 DEF Close, ContextEnds, StopInv, DecisionsOver, CloseType, Active
\* A step of a Close call that stays on its side of the fence.
<1>6. ASSUME NEW c \in Closers, NEW to, NEW e, Moves(c, to, e), call[c] # "idle",
             to \in Active \cup {"finish", "waiter"} => DecisionsOver,
             UNCHANGED <<closed, tickets, serving, sends>>,
             stop' = stop \/ (stop' /\ call[c] \in Active),
             sender' = sender \/ (sender = "off" /\ sender' = "run")
      PROVE  StopInv'
  BY <1>6 DEF Moves, StopInv, DecisionsOver, CloseType
<1>7. ASSUME NEW c \in Closers, CloseStep(c) PROVE StopInv'
  <2> USE DEF StopInv, Active
  <2>1. CASE waitForTracks(c) \/ waitForConsentDecisions(c)
    BY <1>6, <2>1 DEF waitForTracks, waitForConsentDecisions, Return
  <2>2. CASE FinishWaits(c) \/ FinishBegins(c) \/ CachedVerdict(c)
    BY <1>6, <2>2 DEF FinishWaits, FinishBegins, CachedVerdict, Return
  <2>3. CASE WaiterWakes(c)
    BY <1>6, <2>3 DEF WaiterWakes, Return
  <2>4. CASE FlushReturns(c) \/ StopLanes(c) \/ Conclude(c)
    BY <1>6, <2>4 DEF FlushReturns, StopLanes, Conclude, Return
  <2>5. CASE AwaitWorker(c) \/ AwaitLane(c) \/ AwaitSender(c) \/ AwaitLanes(c)
    BY <1>6, <2>5 DEF AwaitWorker, AwaitLane, AwaitSender, AwaitLanes, Awaits, StartSender
  <2>6. CASE Drain(c) \/ Redrain(c)
    BY <1>6, <2>6 DEF Drain, Redrain
  <2> QED
    BY <1>7, <2>1, <2>2, <2>3, <2>4, <2>5, <2>6 DEF CloseStep
<1>8. CASE UNCHANGED vars
  BY <1>8 DEF vars, StopInv, DecisionsOver
<1> QED
  BY <1>1, <1>2, <1>3, <1>4, <1>5, <1>7, <1>8 DEF Next, SenderStep

LEMMA OwnerStep == TypeOK /\ OwnerInv /\ [Next]_vars => OwnerInv'
<1> SUFFICES ASSUME CloseType, OwnerInv, [Next]_vars PROVE OwnerInv'
  BY DEF TypeOK
<1> USE DEF closeVars, hostVars, senderVars, workerVars, sharedVars, restVars
<1>1. ASSUME UNCHANGED <<call, waitsFor, inFlight, complete>> PROVE OwnerInv'
  BY <1>1 DEF OwnerInv
<1>2. CASE HostStep \/ SenderStep \/ LaneExits
  BY <1>1, <1>2 DEF HostStep, TrackBegins, TrackEnds, SetConsent, DecisionRecorded,
         DecisionHandsOver, DecisionEnqueued, BacklogFull, DropOldest, SenderStep, SenderTakes,
         SenderStops, SenderExits, LaneExits
<1>3. CASE WorkerStep
  <2>1. ASSUME NEW c \in Closers, SelectFlush(c) PROVE OwnerInv'
    BY <2>1 DEF SelectFlush, OwnerInv, CloseType, Active
  <2> QED
    BY <1>1, <1>3, <2>1 DEF WorkerStep, SelectEvent, Publish, SelectStop, FlushEnds
<1>4. ASSUME NEW c \in Closers, Close(c) PROVE OwnerInv'
  BY <1>4 DEF Close, OwnerInv, CloseType, Active
<1>5. ASSUME NEW c \in Closers, ContextEnds(c) PROVE OwnerInv'
  BY <1>1, <1>5 DEF ContextEnds
\* A step of a Close call that keeps its hold of the teardown, or has none.
<1>6. ASSUME NEW c \in Closers, NEW to, NEW e, Moves(c, to, e), to # "waiter",
             call[c] \in Active => to \in Active,
             UNCHANGED <<inFlight, complete>>,
             \A d \in Closers \ {c} : waitsFor'[d] = waitsFor[d]
      PROVE  OwnerInv'
  BY <1>6 DEF Moves, OwnerInv, CloseType
<1>7. ASSUME NEW c \in Closers, CloseStep(c) PROVE OwnerInv'
  <2>1. CASE waitForTracks(c) \/ waitForConsentDecisions(c) \/ CachedVerdict(c)
    BY <1>6, <2>1 DEF waitForTracks, waitForConsentDecisions, CachedVerdict, Return, Active
  <2>2. CASE FinishWaits(c)
    BY <2>2, LifecycleAssumption DEF FinishWaits, Moves, OwnerInv, CloseType, Active
  <2>3. CASE FinishBegins(c)
    BY <2>3, LifecycleAssumption DEF FinishBegins, Moves, OwnerInv, CloseType, Active
  <2>4. CASE WaiterWakes(c)
    BY <1>6, <2>4 DEF WaiterWakes, Return, Active, CloseType
  <2>5. CASE FlushReturns(c) \/ StopLanes(c)
    BY <1>6, <2>5 DEF FlushReturns, StopLanes, Active
  <2>6. CASE AwaitWorker(c) \/ AwaitLane(c) \/ AwaitSender(c) \/ AwaitLanes(c)
    BY <1>6, <2>6 DEF AwaitWorker, AwaitLane, AwaitSender, AwaitLanes, Awaits, Active
  <2>7. CASE Drain(c) \/ Redrain(c)
    BY <1>6, <2>7 DEF Drain, Redrain, Active
  <2>8. CASE Conclude(c)
    BY <2>8 DEF Conclude, Return, Moves, OwnerInv, CloseType, Active
  <2> QED
    BY <1>7, <2>1, <2>2, <2>3, <2>4, <2>5, <2>6, <2>7, <2>8 DEF CloseStep
<1>8. CASE UNCHANGED vars
  BY <1>1, <1>8 DEF vars
<1> QED
  BY <1>2, <1>3, <1>4, <1>5, <1>7, <1>8 DEF Next

LEMMA VerdictStep == TypeOK /\ OwnerInv /\ VerdictInv /\ [Next]_vars => VerdictInv'
<1> SUFFICES ASSUME WorkerType, CloseType, OwnerInv, VerdictInv, [Next]_vars
             PROVE  VerdictInv'
  BY DEF TypeOK
<1> USE DEF closeVars, hostVars, senderVars, workerVars, sharedVars, restVars
\* What ended stays ended.
<1>1. ASSUME UNCHANGED <<call, err, reply, gated, complete, closeErr>>,
             worker = "done" => worker' = "done",
             lane = "done" => lane' = "done",
             sender = "done" => sender' = "done"
      PROVE  VerdictInv'
  BY <1>1 DEF VerdictInv, LanesDone
<1>2. CASE HostStep \/ SenderStep \/ LaneExits
  BY <1>1, <1>2 DEF HostStep, TrackBegins, TrackEnds, SetConsent, DecisionRecorded,
         DecisionHandsOver, DecisionEnqueued, BacklogFull, DropOldest, StartSender, SenderStep,
         SenderTakes, SenderStops, SenderExits, LaneExits
<1>3. CASE WorkerStep
  <2>1. ASSUME NEW c \in Closers, SelectFlush(c) PROVE VerdictInv'
    BY <2>1 DEF SelectFlush, VerdictInv, LanesDone, CloseType
  <2>2. ASSUME NEW o \in FlushOutcomes, FlushEnds(o) PROVE VerdictInv'
    BY <2>2 DEF FlushEnds, VerdictInv, LanesDone, WorkerType
  <2> QED
    BY <1>1, <1>3, <2>1, <2>2 DEF WorkerStep, SelectEvent, Publish, SelectStop
<1>4. ASSUME NEW c \in Closers, Close(c) PROVE VerdictInv'
  BY <1>4 DEF Close, VerdictInv, LanesDone, CloseType
<1>5. ASSUME NEW c \in Closers, ContextEnds(c) PROVE VerdictInv'
  BY <1>1, <1>5 DEF ContextEnds
\* A step of a Close call that claims no more than it has seen.
<1>6. ASSUME NEW c \in Closers, NEW to, NEW e, Moves(c, to, e),
             UNCHANGED <<reply, gated, complete, closeErr, worker, lane>>,
             sender' = sender \/ (sender = "off" /\ sender' = "run"),
             "gated" \in e => gated,
             ~gated /\ e = {} =>
                /\ to \in {"lane", "sender", "drain"} => worker = "done"
                /\ to \in {"sender", "drain"} => lane = "done"
                /\ to \in {"drain", "conclude", "returned"} => LanesDone
      PROVE  VerdictInv'
  BY <1>6 DEF Moves, VerdictInv, LanesDone, CloseType
<1>7. ASSUME NEW c \in Closers, CloseStep(c) PROVE VerdictInv'
  <2>0. /\ "gated" \in err[c] \/ reply[c] = "gated" \/ "gated" \in closeErr => gated
        /\ ~gated /\ err[c] = {} =>
              /\ call[c] \in {"lane", "sender", "drain"} => worker = "done"
              /\ call[c] \in {"sender", "drain"} => lane = "done"
              /\ call[c] \in {"drain", "conclude", "returned"} => LanesDone
        /\ ~gated /\ complete /\ closeErr = {} => LanesDone
    BY DEF VerdictInv
  <2>1. CASE waitForTracks(c) \/ waitForConsentDecisions(c)
    BY <1>6, <2>1 DEF waitForTracks, waitForConsentDecisions, Return
  <2>2. CASE FinishWaits(c) \/ FinishBegins(c)
    BY <1>6, <2>2 DEF FinishWaits, FinishBegins
  <2>3. CASE CachedVerdict(c)
    BY <1>6, <2>0, <2>3 DEF CachedVerdict, Return, Folded
  <2>4. CASE WaiterWakes(c)
    <3>1. call[waitsFor[c]] = "returned" => complete
      BY <2>4 DEF WaiterWakes, OwnerInv, Active
    <3> QED
      BY <1>6, <2>0, <2>4, <3>1 DEF WaiterWakes, Return, Folded
  <2>5. CASE FlushReturns(c)
    BY <1>6, <2>0, <2>5 DEF FlushReturns
  <2>6. CASE StopLanes(c)
    BY <1>6, <2>0, <2>6 DEF StopLanes
  <2>7. CASE AwaitWorker(c)
    BY <1>6, <2>0, <2>7 DEF AwaitWorker, Awaits
  <2>8. CASE AwaitLane(c)
    BY <1>6, <2>0, <2>8 DEF AwaitLane, Awaits, StartSender
  <2>9. CASE AwaitSender(c)
    BY <1>6, <2>0, <2>9 DEF AwaitSender, Awaits, LanesDone
  <2>10. CASE Drain(c)
    <3>1. PICK v \in DrainVerdicts :
             Moves(c, "conclude", IF "gated" \in err[c] THEN v ELSE err[c] \cup v)
      BY <2>10 DEF Drain
    <3> QED
      BY <1>6, <2>0, <2>10, <3>1 DEF Drain, DrainVerdicts
  <2>11. CASE Redrain(c)
    <3>1. PICK v \in DrainVerdicts : Moves(c, "lanes", v)
      BY <2>11 DEF Redrain
    <3> QED
      BY <1>6, <2>0, <2>11, <3>1 DEF Redrain, DrainVerdicts
  <2>12. CASE AwaitLanes(c)
    BY <1>6, <2>0, <2>12 DEF AwaitLanes
  <2>13. CASE Conclude(c)
    <3>1. ("gated" \in Folded(err[c]) => gated) /\ (Folded(err[c]) = {} => err[c] = {})
      BY <2>0 DEF Folded
    <3>2. /\ ~gated /\ Folded(err[c]) = {} => LanesDone
          /\ UNCHANGED <<reply, gated, worker, lane, sender>>
          /\ closeErr' = Folded(err[c])
          /\ err' = [err EXCEPT ![c] = Folded(err[c])]
          /\ call' = [call EXCEPT ![c] = "returned"]
      BY <2>0, <2>13, <3>1 DEF Conclude, Return, Moves
    <3> QED
      BY <3>1, <3>2 DEF VerdictInv, LanesDone, CloseType
  <2> QED
    BY <1>7, <2>1, <2>2, <2>3, <2>4, <2>5, <2>6, <2>7, <2>8, <2>9, <2>10, <2>11, <2>12,
       <2>13 DEF CloseStep
<1>8. CASE UNCHANGED vars
  BY <1>1, <1>8 DEF vars
<1> QED
  BY <1>2, <1>3, <1>4, <1>5, <1>7, <1>8 DEF Next

\* A Close that reports success found everything ended, however many Close
\* calls, contexts and decisions there are: the worker, the lane and the
\* sender have exited, and the sender has told every decision (finishClose,
\* waitForConsentDecisions).
THEOREM CleanCloseComplete == Spec => []CleanCloseIsComplete
<1>1. TypeOK /\ StopInv /\ VerdictInv => CleanCloseIsComplete
  BY DEF StopInv, VerdictInv, CleanCloseIsComplete, LanesDone
<1> QED
  BY <1>1, TypeInit, TypeStep, SendsStep, CloseInvInit, StopStep, OwnerStep, VerdictStep, PTL
  DEF Spec

=============================================================================
