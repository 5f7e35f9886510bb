------------------------ MODULE EventPipelineProofs ------------------------
(***************************************************************************)
(* Proofs about EventPipeline, for every number of deciders and trackers,  *)
(* every buffer and batch size and every bound.                            *)
(***************************************************************************)
EXTENDS EventPipeline, FiniteSetTheorems, TLAPS

-----------------------------------------------------------------------------
(* Type correctness.  trackWG never goes below zero because it counts the  *)
(* Track calls that are under way; the type invariant needs that count.    *)

\* The Track calls that are under way.
Active == {t \in Trackers : pc[t] # "idle"}

TrackingCounts == tracking = Cardinality(Active)

\* recv holds an event exactly while the worker is about to admit it.
RecvHeld == recv # NoEvent <=> pc[Worker] \in {"admit", "admitFlush"}

TypeInv == TypeOK /\ TrackingCounts /\ RecvHeld

\* The steps in which only Track calls change their place.
LEMMA TrackStepCounts ==
    ASSUME TypeInv, NEW t \in Trackers, TrackStep(t)
    PROVE  TrackingCounts'
<1>0. IsFiniteSet(Active) /\ t \in Publishers
  BY NamesAssumption, FS_Subset DEF Active, Publishers
<1>1. CASE Track(t)
  <2>1. CASE UNCHANGED <<pc, tracking>>
    BY <2>1 DEF TypeInv, TrackingCounts, Active
  <2>2. CASE tracking' = tracking + 1 /\ pc' = [pc EXCEPT ![t] = "handoff"]
    <3>1. t \notin Active
      BY <1>1 DEF Track, Active
    <3>2. Active' = Active \cup {t}
      BY <2>2, <1>0 DEF Active, TypeInv, TypeOK
    <3> QED
      BY <1>0, <2>2, <3>1, <3>2, FS_AddElement DEF TypeInv, TrackingCounts
  <2> QED
    BY <1>1, <2>1, <2>2 DEF Track
<1>2. CASE TrackReturns(t) /\ t \in Active
  <2>1. Active' = Active \ {t}
    BY <1>0, <1>2 DEF Active, TypeInv, TypeOK, TrackReturns
  <2> QED
    BY <1>0, <1>2, <2>1, FS_RemoveElement DEF TypeInv, TrackingCounts, TrackReturns
<1>3. CASE TrackPublished(t) \/ TrackFails(t) \/ TrackDenied(t)
  BY <1>2, <1>3 DEF TrackPublished, TrackFails, TrackDenied, DeniedOutcome, Active
<1> QED
  BY <1>1, <1>3 DEF TrackStep

\* trackWG counts the Track calls under way, after every step.
LEMMA TrackingStep ==
    ASSUME TypeInv, [Next]_vars
    PROVE  TrackingCounts'
<1>1. ASSUME NEW d \in Deciders, DecisionStep(d)
      PROVE  UNCHANGED <<pc, tracking>>
  BY <1>1 DEF DecisionStep, Deny, DenyEpoch, DenyGate, DenyDrain, DenyUnlock,
              DenySlow, Grant, GrantStore, callVars
<1>2. ASSUME WorkerStep
      PROVE  tracking' = tracking /\ \E s : pc' = [pc EXCEPT ![Worker] = s] \/ pc' = pc
  BY <1>2 DEF WorkerStep, GoTo, AfterPublish, LoopTop, Receive, Admit, AdmitInFlush,
              Tick, FlushRequest, SettleEpoch, WorkerBatch, FlushBatch, FlushDiscard,
              FlushDiscardEnd, DrainQueue, DrainEnd, BatchPublished, BatchRefused,
              BatchRetained, BatchDenied, FlushDenied, callVars
<1>3. ASSUME UNCHANGED <<pc, tracking>>
      PROVE  TrackingCounts'
  BY <1>3 DEF TypeInv, TrackingCounts, Active
<1>4. ASSUME WorkerStep
      PROVE  TrackingCounts'
  <2>1. Active' = Active
    BY <1>2, <1>4, NamesAssumption DEF Active, TypeInv, TypeOK, Publishers
  <2> QED
    BY <1>2, <1>4, <2>1 DEF TypeInv, TrackingCounts
<1>5. ASSUME NEW p \in Publishers, LoadGate(p) \/ SendRequest(p)
      PROVE  TrackingCounts'
  <2>1. Active' = Active /\ tracking' = tracking
    BY <1>5 DEF LoadGate, SendRequest, Active, callVars, TypeInv, TypeOK, Publishers
  <2> QED
    BY <2>1 DEF TypeInv, TrackingCounts
<1>6. CASE Enqueue
  BY <1>3, <1>6 DEF Enqueue
<1>7. CASE UNCHANGED vars
  BY <1>3, <1>7 DEF vars, callVars
<1> QED
  BY <1>1, <1>3, <1>4, <1>5, <1>6, <1>7, TrackStepCounts DEF Next
\* The parts of TypeOK, so that a step only needs to look at what it changes.
ConsentTypeOK ==
    /\ consent \in {"unknown", "granted", "denied"}
    /\ epoch \in Nat /\ gate \in Nat
    /\ lock \in Deciders \cup {NoOne}
    /\ dpc \in [Deciders -> {"idle", "epoch", "gate", "drain", "slow", "grant"}]
    /\ ticket \in [Deciders -> Nat] /\ snap \in [Deciders -> Nat]
    /\ ticketNext \in Nat /\ ticketServing \in Nat /\ drained \in Nat

WorkerTypeOK ==
    /\ recv \in Event \cup {NoEvent}
    /\ batch \in Seq(Event)
    /\ seen \in Nat /\ flushing \in BOOLEAN /\ discarded \in Nat

PcTypeOK ==
    /\ pc \in [Publishers -> WorkerStates \cup TrackStates]
    /\ pc[Worker] \in WorkerStates
    /\ \A t \in Trackers : pc[t] \in TrackStates
    /\ pgate \in [Publishers -> Nat]

CallTypeOK ==
    /\ held \in [Trackers -> Event \cup {NoEvent}]
    /\ calls \in Nat /\ tracking \in Nat

StatTypeOK == published \in Nat /\ dropped \in Nat /\ failed \in Nat

\* TypeOK, one conjunct per group of variables.
LEMMA TypeParts ==
    TypeOK <=> /\ ConsentTypeOK /\ queue \in Seq(Event) /\ PcTypeOK
               /\ WorkerTypeOK /\ CallTypeOK /\ StatTypeOK
  BY DEF TypeOK, ConsentTypeOK, PcTypeOK, WorkerTypeOK, CallTypeOK, StatTypeOK

\* Every step of SetConsent keeps the types.
LEMMA DecisionStepType ==
    ASSUME TypeOK, NEW d \in Deciders, DecisionStep(d)
    PROVE  TypeOK'
<1>0. Len(queue) \in Nat /\ (queue # <<>> => Tail(queue) \in Seq(Event))
  BY DEF TypeOK
<1>1. ConsentTypeOK'
  <2>0. ConsentTypeOK
    BY TypeParts
  <2>1. CASE Deny(d)
    BY <2>0, <2>1 DEF Deny, ConsentTypeOK
  <2>2. CASE DenyEpoch(d)
    BY <2>0, <2>2 DEF DenyEpoch, ConsentTypeOK
  <2>3. CASE DenyGate(d)
    BY <2>0, <2>3 DEF DenyGate, ConsentTypeOK
  <2>4. CASE DenyDrain(d)
    BY <2>0, <2>4 DEF DenyDrain, ConsentTypeOK
  <2>5. CASE DenyUnlock(d)
    BY <2>0, <2>5 DEF DenyUnlock, ConsentTypeOK
  <2>6. CASE DenySlow(d)
    BY <2>0, <2>6 DEF DenySlow, ConsentTypeOK
  <2>7. CASE Grant(d)
    BY <2>0, <2>7 DEF Grant, ConsentTypeOK
  <2>8. CASE GrantStore(d)
    BY <2>0, <2>8 DEF GrantStore, ConsentTypeOK
  <2> QED
    BY <2>1, <2>2, <2>3, <2>4, <2>5, <2>6, <2>7, <2>8 DEF DecisionStep
<1>2. queue' \in Seq(Event) /\ StatTypeOK'
  <2>1. CASE DenyDrain(d)
    BY <1>0, <2>1 DEF DenyDrain, TypeOK, StatTypeOK, statVars
  <2>2. CASE DenyUnlock(d)
    BY <2>2 DEF DenyUnlock, TypeOK, StatTypeOK
  <2>3. CASE UNCHANGED <<queue, statVars>>
    BY <2>3 DEF TypeOK, StatTypeOK, statVars
  <2> QED
    BY <2>1, <2>2, <2>3 DEF DecisionStep, Deny, DenyEpoch, DenyGate, DenySlow,
         Grant, GrantStore
<1>3. UNCHANGED <<pc, pgate, workerVars, callVars>>
  BY DEF DecisionStep, Deny, DenyEpoch, DenyGate, DenyDrain, DenyUnlock, DenySlow,
         Grant, GrantStore
<1> QED
  BY <1>1, <1>2, <1>3, TypeParts
  DEF TypeOK, ConsentTypeOK, PcTypeOK, WorkerTypeOK, CallTypeOK, StatTypeOK, workerVars, callVars

\* Sequence facts about the queue and the batch.
LEMMA SeqFacts ==
    ASSUME NEW S, NEW s \in Seq(S)
    PROVE  /\ Len(s) \in Nat
           /\ s # <<>> => /\ Head(s) \in S /\ Tail(s) \in Seq(S)
                          /\ Len(Tail(s)) = Len(s) - 1 /\ Len(s) > 0
           /\ \A e \in S : Append(s, e) \in Seq(S) /\ Len(Append(s, e)) = Len(s) + 1
           /\ <<>> \in Seq(S) /\ Len(<<>>) = 0
  OBVIOUS

\* The worker moves only between its own places.
LEMMA GoToType ==
    ASSUME PcTypeOK, NEW s \in WorkerStates, GoTo(s), UNCHANGED pgate
    PROVE  PcTypeOK'
  BY NamesAssumption DEF PcTypeOK, GoTo, Publishers

\* Settling the epoch, alone or for a received event, keeps the types.
LEMMA SettleType ==
    ASSUME TypeOK, dropBatchOnConsentEpoch
    PROVE  seen' \in Nat /\ batch' \in Seq(Event) /\ dropped' \in Nat
  BY SeqFacts DEF TypeOK, dropBatchOnConsentEpoch

\* admitReceivedEvent keeps the types and lets go of the received event.
LEMMA AdmitType ==
    ASSUME TypeOK, recv \in Event, admitReceivedEvent
    PROVE  /\ seen' \in Nat /\ batch' \in Seq(Event) /\ dropped' \in Nat
           /\ recv' = NoEvent
<1> DEFINE kept == IF epoch = seen THEN batch ELSE <<>>
           lost == IF epoch = seen THEN 0 ELSE Len(batch)
<1>1. kept \in Seq(Event) /\ lost \in Nat /\ Append(kept, recv) \in Seq(Event)
  BY SeqFacts DEF TypeOK
<1>2. seen' = epoch /\ recv' = NoEvent
  BY DEF admitReceivedEvent
<1>3. CASE recv.epoch < epoch
  <2>1. batch' = kept /\ dropped' = dropped + lost + 1
    BY <1>3 DEF admitReceivedEvent
  <2> HIDE DEF kept, lost
  <2> QED
    BY <1>1, <1>2, <2>1 DEF TypeOK
<1>4. CASE ~(recv.epoch < epoch)
  <2>1. batch' = Append(kept, recv) /\ dropped' = dropped + lost + 0
    BY <1>4 DEF admitReceivedEvent
  <2> HIDE DEF kept, lost
  <2> QED
    BY <1>1, <1>2, <2>1 DEF TypeOK
<1> QED
  BY <1>3, <1>4

\* Every step of the worker goroutine keeps the types.
LEMMA WorkerStepType ==
    ASSUME TypeOK, RecvHeld, WorkerStep
    PROVE  TypeOK'
<1>0. /\ UNCHANGED <<consentVars, callVars, pgate, failed>>
      /\ PcTypeOK /\ queue \in Seq(Event) /\ WorkerTypeOK /\ batch \in Seq(Event)
      /\ published \in Nat /\ dropped \in Nat /\ discarded \in Nat
  BY TypeParts DEF WorkerTypeOK, StatTypeOK, WorkerStep, statVars, LoopTop, Receive, Admit, AdmitInFlush, Tick, FlushRequest, SettleEpoch, WorkerBatch, FlushBatch,
         FlushDiscard, FlushDiscardEnd, DrainQueue, DrainEnd, BatchPublished, BatchRefused, BatchRetained, BatchDenied, FlushDenied
<1>1. ASSUME NEW s \in WorkerStates, GoTo(s)
      PROVE  PcTypeOK'
  BY <1>0, <1>1, GoToType
<1>2. Len(batch) \in Nat /\ Len(queue) \in Nat /\ <<>> \in Seq(Event)
  BY <1>0, SeqFacts
<1>3. queue # <<>> => Head(queue) \in Event /\ Tail(queue) \in Seq(Event)
  BY <1>0, SeqFacts
<1>4. PcTypeOK'
  <2>1. CASE LoopTop
    BY <1>1, <2>1 DEF LoopTop, WorkerStates
  <2>2. CASE Receive
    BY <1>1, <2>2 DEF Receive, WorkerStates
  <2>3. CASE Admit
    BY <1>1, <2>3 DEF Admit, WorkerStates
  <2>4. CASE AdmitInFlush
    BY <1>1, <2>4 DEF AdmitInFlush, WorkerStates
  <2>5. CASE Tick
    BY <1>1, <2>5 DEF Tick, WorkerStates
  <2>6. CASE FlushRequest
    BY <1>1, <2>6 DEF FlushRequest, WorkerStates
  <2>7. CASE SettleEpoch
    BY <1>1, <2>7 DEF SettleEpoch, WorkerStates
  <2>8. CASE WorkerBatch
    BY <1>1, <2>8 DEF WorkerBatch, WorkerStates
  <2>9. CASE FlushBatch
    BY <1>1, <2>9 DEF FlushBatch, WorkerStates
  <2>10. CASE FlushDiscard
    BY <1>0, <2>10 DEF FlushDiscard, PcTypeOK
  <2>11. CASE FlushDiscardEnd
    BY <1>1, <2>11 DEF FlushDiscardEnd, WorkerStates
  <2>12. CASE DrainQueue
    BY <1>1, <2>12 DEF DrainQueue, WorkerStates
  <2>13. CASE DrainEnd
    BY <1>1, <2>13 DEF DrainEnd, WorkerStates
  <2>14. CASE BatchPublished
    BY <1>1, <2>14 DEF BatchPublished, AfterPublish, WorkerStates
  <2>15. CASE BatchRefused
    BY <1>1, <2>15 DEF BatchRefused, AfterPublish, WorkerStates
  <2>16. CASE BatchRetained
    BY <1>1, <2>16 DEF BatchRetained, WorkerStates
  <2>17. CASE BatchDenied
    BY <1>1, <2>17 DEF BatchDenied, WorkerStates
  <2>18. CASE FlushDenied
    BY <1>1, <2>18 DEF FlushDenied, WorkerStates
  <2> QED
    BY <2>1, <2>2, <2>3, <2>4, <2>5, <2>6, <2>7, <2>8, <2>9, <2>10, <2>11,
        <2>12, <2>13, <2>14, <2>15, <2>16, <2>17, <2>18 DEF WorkerStep
<1>5. queue' \in Seq(Event) /\ WorkerTypeOK' /\ published' \in Nat /\ dropped' \in Nat
  <2>1. CASE LoopTop
    BY <1>0, <1>2, <1>3, SettleType, <2>1 DEF LoopTop, WorkerTypeOK
  <2>2. CASE Receive
    BY <1>0, <1>2, <1>3, <2>2 DEF Receive, WorkerTypeOK, statVars, workerVars
  <2>3. CASE Admit
    <3>1. recv \in Event
      BY <2>3 DEF Admit, RecvHeld, TypeOK
    <3> QED
      BY <1>0, <2>3, <3>1, AdmitType DEF Admit, WorkerTypeOK
  <2>4. CASE AdmitInFlush
    <3>1. recv \in Event
      BY <2>4 DEF AdmitInFlush, RecvHeld, TypeOK
    <3> QED
      BY <1>0, <2>4, <3>1, AdmitType DEF AdmitInFlush, WorkerTypeOK
  <2>5. CASE Tick
    BY <1>0, <1>2, <1>3, <2>5 DEF Tick, WorkerTypeOK, statVars, workerVars
  <2>6. CASE FlushRequest
    BY <1>0, <1>2, <1>3, <2>6 DEF FlushRequest, WorkerTypeOK, statVars, workerVars
  <2>7. CASE SettleEpoch
    BY <1>0, <1>2, <1>3, SettleType, <2>7 DEF SettleEpoch, WorkerTypeOK
  <2>8. CASE WorkerBatch
    <3>1. UNCHANGED <<queue, published, recv, seen, flushing, discarded>>
      BY <2>8 DEF WorkerBatch
    <3>2. \/ UNCHANGED <<batch, dropped>>
          \/ batch' = <<>> /\ dropped' = dropped + Len(batch)
      BY <2>8 DEF WorkerBatch
    <3>3. batch' \in Seq(Event)
      BY <1>0, <1>2, <3>2
    <3>4. dropped' \in Nat
      BY <1>0, <1>2, <3>2
    <3> QED
      BY <1>0, <3>1, <3>3, <3>4 DEF WorkerTypeOK
  <2>9. CASE FlushBatch
    BY <1>0, <1>2, <1>3, <2>9 DEF FlushBatch, WorkerTypeOK, statVars, workerVars
  <2>10. CASE FlushDiscard
    BY <1>0, <1>2, <1>3, <2>10 DEF FlushDiscard, WorkerTypeOK, statVars, workerVars
  <2>11. CASE FlushDiscardEnd
    <3>1. /\ UNCHANGED <<queue, published, recv, seen>>
          /\ flushing' = FALSE /\ discarded' = 0 /\ batch' = <<>>
          /\ dropped' = dropped + Len(batch) + discarded
      BY <2>11 DEF FlushDiscardEnd
    <3>2. batch' \in Seq(Event) /\ dropped' \in Nat
      BY <1>0, <1>2, <3>1
    <3> QED
      BY <1>0, <3>1, <3>2 DEF WorkerTypeOK
  <2>12. CASE DrainQueue
    BY <1>0, <1>2, <1>3, SettleType, <2>12 DEF DrainQueue, WorkerTypeOK
  <2>13. CASE DrainEnd
    BY <1>0, <1>2, <1>3, <2>13 DEF DrainEnd, WorkerTypeOK, statVars, workerVars
  <2>14. CASE BatchPublished
    BY <1>0, <1>2, <1>3, <2>14 DEF BatchPublished, WorkerTypeOK
  <2>15. CASE BatchRefused
    BY <1>0, <1>2, <1>3, <2>15 DEF BatchRefused, WorkerTypeOK
  <2>16. CASE BatchRetained
    BY <1>0, <1>2, <1>3, <2>16 DEF BatchRetained, WorkerTypeOK, statVars, workerVars
  <2>17. CASE BatchDenied
    BY <1>0, <1>2, <1>3, <2>17 DEF BatchDenied, WorkerTypeOK
  <2>18. CASE FlushDenied
    BY <1>0, <1>2, <1>3, <2>18 DEF FlushDenied, WorkerTypeOK, statVars, workerVars
  <2> QED
    BY <2>1, <2>2, <2>3, <2>4, <2>5, <2>6, <2>7, <2>8, <2>9, <2>10, <2>11,
        <2>12, <2>13, <2>14, <2>15, <2>16, <2>17, <2>18 DEF WorkerStep
<1>6. ConsentTypeOK'
  BY <1>0, TypeParts DEF ConsentTypeOK, consentVars
<1>7. CallTypeOK' /\ StatTypeOK'
  BY <1>0, <1>5, TypeParts DEF CallTypeOK, StatTypeOK, callVars
<1> QED
  BY <1>4, <1>5, <1>6, <1>7
  DEF TypeOK, ConsentTypeOK, PcTypeOK, WorkerTypeOK, CallTypeOK, StatTypeOK

\* Enqueue keeps the types.
LEMMA EnqueueType ==
    ASSUME TypeOK, Enqueue
    PROVE  TypeOK'
<1>1. queue \in Seq(Event) /\ calls \in Nat /\ dropped \in Nat /\ epoch \in Nat
  BY DEF TypeOK
<1>2. queue' \in Seq(Event)
  <2>1. [id |-> calls, epoch |-> epoch] \in Event
    BY <1>1 DEF Event
  <2>2. Append(queue, [id |-> calls, epoch |-> epoch]) \in Seq(Event)
    BY <1>1, <2>1, SeqFacts
  <2> QED
    BY <1>1, <2>2 DEF Enqueue
<1>3. calls' \in Nat /\ dropped' \in Nat
  BY <1>1 DEF Enqueue
<1> QED
  BY <1>2, <1>3 DEF Enqueue, TypeOK, consentVars, workerVars

\* Every step of a Track call keeps the types, given that trackWG does.
LEMMA TrackStepType ==
    ASSUME TypeOK, tracking' \in Nat, NEW t \in Trackers, TrackStep(t)
    PROVE  TypeOK'
<1>0. t \in Publishers /\ t # Worker
  BY NamesAssumption DEF Publishers
<1>1. UNCHANGED <<consentVars, queue, pgate, workerVars>>
  BY DEF TrackStep, Track, TrackPublished, TrackFails, TrackDenied, TrackReturns
<1>2. \/ UNCHANGED pc
      \/ \E s \in TrackStates : pc' = [pc EXCEPT ![t] = s]
  BY DEF TrackStep, Track, TrackPublished, TrackFails, TrackDenied, TrackReturns,
         TrackStates
<1>3. PcTypeOK'
  <2>0. PcTypeOK
    BY TypeParts
  <2>1. CASE UNCHANGED pc
    BY <1>1, <2>0, <2>1 DEF PcTypeOK
  <2>2. ASSUME NEW s \in TrackStates, pc' = [pc EXCEPT ![t] = s]
        PROVE  PcTypeOK'
    BY <1>0, <1>1, <2>0, <2>2 DEF PcTypeOK
  <2> QED
    BY <1>2, <2>1, <2>2
<1>4. CallTypeOK'
  <2>1. calls \in Nat /\ held \in [Trackers -> Event \cup {NoEvent}]
    BY DEF TypeOK
  <2>2. [id |-> calls, epoch |-> epoch] \in Event
    BY DEF TypeOK, Event
  <2> QED
    BY <2>1, <2>2 DEF CallTypeOK, TrackStep, Track, TrackPublished, TrackFails,
                      TrackDenied, TrackReturns
<1>5. StatTypeOK'
  BY DEF TypeOK, StatTypeOK, TrackStep, Track, TrackPublished, TrackFails, TrackDenied
<1> QED
  BY <1>1, <1>3, <1>4, <1>5
  DEF TypeOK, PcTypeOK, CallTypeOK, StatTypeOK, consentVars, workerVars

\* The first two steps of publishRequestResult keep the types.
LEMMA PublishType ==
    ASSUME TypeOK, NEW p \in Publishers, LoadGate(p) \/ SendRequest(p)
    PROVE  TypeOK'
<1>1. UNCHANGED <<consentVars, queue, workerVars, callVars, statVars>>
  BY DEF LoadGate, SendRequest
<1>2. PcTypeOK'
  <2>1. PcTypeOK /\ gate \in Nat
    BY DEF TypeOK, PcTypeOK
  <2>2. CASE LoadGate(p)
    BY <2>1, <2>2 DEF LoadGate, PcTypeOK, WorkerStates, TrackStates, Publishers
  <2>3. CASE SendRequest(p)
    BY <2>1, <2>3 DEF SendRequest, PcTypeOK, WorkerStates, TrackStates, Publishers
  <2> QED
    BY <2>2, <2>3
<1> QED
  BY <1>1, <1>2
  DEF TypeOK, PcTypeOK, consentVars, workerVars, callVars, statVars

\* RecvHeld after every step.
LEMMA RecvHeldStep ==
    ASSUME TypeInv, [Next]_vars
    PROVE  RecvHeld'
<1>0. /\ pc \in [Publishers -> WorkerStates \cup TrackStates] /\ Worker \in Publishers
      /\ pc[Worker] \in WorkerStates /\ RecvHeld
      /\ queue # <<>> => Head(queue) # NoEvent
  <2>1. queue # <<>> => Head(queue) \in Event
    BY SeqFacts DEF TypeInv, TypeOK
  <2> QED
    BY <2>1, NamesAssumption DEF TypeInv, TypeOK, Publishers, Event
<1>1. ASSUME UNCHANGED <<recv, pc>>
      PROVE  RecvHeld'
  BY <1>0, <1>1 DEF RecvHeld
<1>2. ASSUME NEW d \in Deciders, DecisionStep(d)
      PROVE  RecvHeld'
  BY <1>1, <1>2 DEF DecisionStep, Deny, DenyEpoch, DenyGate, DenyDrain, DenyUnlock,
                    DenySlow, Grant, GrantStore, workerVars
<1>3. ASSUME NEW t \in Trackers, TrackStep(t)
      PROVE  RecvHeld'
  <2>1. recv' = recv /\ pc'[Worker] = pc[Worker]
    BY <1>0, <1>3, NamesAssumption
    DEF TrackStep, Track, TrackPublished, TrackFails, TrackDenied, TrackReturns, workerVars
  <2> QED
    BY <1>0, <2>1 DEF RecvHeld
<1>4. ASSUME NEW p \in Publishers, LoadGate(p) \/ SendRequest(p)
      PROVE  RecvHeld'
  BY <1>0, <1>4 DEF LoadGate, SendRequest, RecvHeld, workerVars
<1>5. ASSUME WorkerStep
      PROVE  RecvHeld'
  <2>1. CASE LoopTop
    BY <1>0, <2>1 DEF LoopTop, RecvHeld, GoTo, workerVars
  <2>2. CASE Receive
    BY <1>0, <2>2 DEF Receive, RecvHeld, GoTo, workerVars
  <2>3. CASE Admit
    BY <1>0, <2>3 DEF Admit, admitReceivedEvent, RecvHeld, GoTo, workerVars
  <2>4. CASE AdmitInFlush
    BY <1>0, <2>4 DEF AdmitInFlush, admitReceivedEvent, RecvHeld, GoTo, workerVars
  <2>5. CASE Tick
    BY <1>0, <2>5 DEF Tick, RecvHeld, GoTo, workerVars
  <2>6. CASE FlushRequest
    BY <1>0, <2>6 DEF FlushRequest, RecvHeld, GoTo, workerVars
  <2>7. CASE SettleEpoch
    BY <1>0, <2>7 DEF SettleEpoch, RecvHeld, GoTo, workerVars
  <2>8. CASE WorkerBatch
    BY <1>0, <2>8 DEF WorkerBatch, RecvHeld, GoTo, workerVars
  <2>9. CASE FlushBatch
    BY <1>0, <2>9 DEF FlushBatch, RecvHeld, GoTo, workerVars
  <2>10. CASE FlushDiscard
    BY <1>0, <2>10 DEF FlushDiscard, RecvHeld, GoTo, workerVars
  <2>11. CASE FlushDiscardEnd
    BY <1>0, <2>11 DEF FlushDiscardEnd, RecvHeld, GoTo, workerVars
  <2>12. CASE DrainQueue
    BY <1>0, <2>12 DEF DrainQueue, RecvHeld, GoTo, workerVars
  <2>13. CASE DrainEnd
    BY <1>0, <2>13 DEF DrainEnd, RecvHeld, GoTo, workerVars
  <2>14. CASE BatchPublished
    BY <1>0, <2>14 DEF BatchPublished, AfterPublish, RecvHeld, GoTo, workerVars
  <2>15. CASE BatchRefused
    BY <1>0, <2>15 DEF BatchRefused, AfterPublish, RecvHeld, GoTo, workerVars
  <2>16. CASE BatchRetained
    BY <1>0, <2>16 DEF BatchRetained, RecvHeld, GoTo, workerVars
  <2>17. CASE BatchDenied
    BY <1>0, <2>17 DEF BatchDenied, DeniedOutcome, RecvHeld, GoTo, workerVars
  <2>18. CASE FlushDenied
    BY <1>0, <2>18 DEF FlushDenied, DeniedOutcome, RecvHeld, GoTo, workerVars
  <2> QED
    BY <1>5, <2>1, <2>2, <2>3, <2>4, <2>5, <2>6, <2>7, <2>8, <2>9, <2>10,
       <2>11, <2>12, <2>13, <2>14, <2>15, <2>16, <2>17, <2>18 DEF WorkerStep
<1>6. CASE Enqueue
  BY <1>1, <1>6 DEF Enqueue, workerVars
<1>7. CASE UNCHANGED vars
  BY <1>1, <1>7 DEF vars, workerVars
<1> QED
  BY <1>2, <1>3, <1>4, <1>5, <1>6, <1>7 DEF Next

\* A new client satisfies the inductive invariant.
LEMMA TypeInvInit == Init => TypeInv
<1> SUFFICES ASSUME Init PROVE TypeInv
  OBVIOUS
<1>1. TypeOK
  <2>1. ConsentTypeOK /\ CallTypeOK /\ StatTypeOK
    BY DEF Init, ConsentTypeOK, CallTypeOK, StatTypeOK
  <2>2. PcTypeOK
    BY NamesAssumption DEF Init, PcTypeOK, Publishers, WorkerStates, TrackStates
  <2>3. queue \in Seq(Event) /\ WorkerTypeOK
    <3>1. <<>> \in Seq(Event)
      OBVIOUS
    <3> QED
      BY <3>1 DEF Init, WorkerTypeOK
  <2> QED
    BY <2>1, <2>2, <2>3, TypeParts
<1>2. Active = {}
  BY NamesAssumption DEF Init, Active, Publishers
<1> QED
  BY <1>1, <1>2, FS_EmptySet DEF Init, TypeInv, TrackingCounts, RecvHeld, Publishers

\* Every step of the client keeps the inductive invariant.
LEMMA TypeInvStep == TypeInv /\ [Next]_vars => TypeInv'
<1> SUFFICES ASSUME TypeInv, [Next]_vars PROVE TypeInv'
  OBVIOUS
<1>1. TrackingCounts' /\ RecvHeld'
  BY TrackingStep, RecvHeldStep
<1>2. tracking' \in Nat
  <2>1. IsFiniteSet(Active')
    BY NamesAssumption, FS_Subset DEF Active
  <2> QED
    BY <1>1, <2>1, FS_CardinalityType DEF TrackingCounts
<1>3. ASSUME UNCHANGED vars
      PROVE  TypeOK'
  BY <1>3 DEF TypeInv, TypeOK, vars, consentVars, workerVars, callVars, statVars
<1>4. TypeOK'
  BY <1>2, <1>3, DecisionStepType, WorkerStepType, EnqueueType, TrackStepType,
     PublishType DEF Next, TypeInv
<1> QED
  BY <1>1, <1>4 DEF TypeInv

\* The pipeline's state keeps its types; in particular trackWG never goes
\* negative, whatever errors, aborts and denials end the Track calls.
THEOREM TypeCorrect == Spec => []TypeOK
<1>1. TypeInv => TypeOK
  BY DEF TypeInv
<1> QED
  BY <1>1, TypeInvInit, TypeInvStep, PTL DEF Spec

-----------------------------------------------------------------------------
(* Accounting.  It is inductive once recv is known to hold an event exactly *)
(* while the worker is about to admit it (RecvHeld).                        *)

\* The event between receive and admit, as a number.
InHand == IF recv = NoEvent THEN 0 ELSE 1

\* What the arithmetic of the steps below rests on.
Counts ==
    /\ calls \in Nat /\ published \in Nat /\ dropped \in Nat /\ failed \in Nat
    /\ drained \in Nat /\ discarded \in Nat /\ tracking \in Nat
    /\ Len(queue) \in Nat /\ Len(batch) \in Nat /\ InHand \in Nat
    /\ Len(<<>>) = 0
    /\ queue # <<>> => Len(Tail(queue)) = Len(queue) - 1

\* The counters are numbers in every well-typed state.
LEMMA CountsHold == TypeOK => Counts
  BY SeqFacts DEF TypeOK, Counts, InHand

\* A denial's drain moves events from the queue to drained to dropped.
LEMMA DecisionAccounting ==
    ASSUME Counts, Accounting, NEW d \in Deciders, DecisionStep(d)
    PROVE  Accounting'
<1>1. UNCHANGED <<batch, recv, discarded, calls, tracking>>
  BY DEF DecisionStep, Deny, DenyEpoch, DenyGate, DenyDrain, DenyUnlock, DenySlow,
         Grant, GrantStore, workerVars, callVars
<1>2. CASE UNCHANGED <<drained, queue, statVars>>
  BY <1>1, <1>2 DEF Accounting, statVars
<1>3. CASE DenyDrain(d)
  BY <1>1, <1>3 DEF DenyDrain, Accounting, Counts, InHand, statVars
<1>4. CASE DenyUnlock(d)
  BY <1>1, <1>4 DEF DenyUnlock, Accounting, Counts, InHand
<1> QED
  BY <1>2, <1>3, <1>4 DEF DecisionStep, Deny, DenyEpoch, DenyGate, DenySlow,
                          Grant, GrantStore

\* Enqueue and Track count every call once, whatever becomes of it.
LEMMA CallAccounting ==
    ASSUME TypeOK, Counts, Accounting, Enqueue \/ \E t \in Trackers : TrackStep(t)
    PROVE  Accounting'
<1>1. UNCHANGED <<batch, recv, discarded, drained>>
  BY DEF Enqueue, TrackStep, Track, TrackPublished, TrackFails, TrackDenied,
         TrackReturns, workerVars, consentVars
<1>2. CASE Enqueue
  <2>1. UNCHANGED <<published, failed, tracking>> /\ calls' = calls + 1
    BY <1>2 DEF Enqueue
  <2>2. CASE dropped' = dropped + 1 /\ UNCHANGED queue
    BY <1>1, <2>1, <2>2 DEF Accounting, Counts, InHand
  <2>3. CASE queue' = Append(queue, [id |-> calls, epoch |-> epoch]) /\ UNCHANGED dropped
    <3>1. Len(queue') = Len(queue) + 1
      BY <2>3 DEF TypeOK
    <3> QED
      BY <1>1, <2>1, <2>3, <3>1 DEF Accounting, Counts, InHand
  <2> QED
    BY <1>2, <2>2, <2>3 DEF Enqueue
<1>3. ASSUME NEW t \in Trackers, TrackStep(t)
      PROVE  Accounting'
  <2>1. UNCHANGED queue
    BY <1>3 DEF TrackStep, Track, TrackPublished, TrackFails, TrackDenied, TrackReturns
  <2>2. CASE Track(t)
    <3>1. /\ calls' = calls + 1 /\ UNCHANGED <<published, failed>>
          /\ \/ dropped' = dropped + 1 /\ tracking' = tracking
             \/ dropped' = dropped /\ tracking' = tracking + 1
      BY <2>2 DEF Track
    <3>2. CASE dropped' = dropped + 1 /\ tracking' = tracking
      BY <1>1, <2>1, <3>1, <3>2 DEF Accounting, Counts, InHand
    <3>3. CASE dropped' = dropped /\ tracking' = tracking + 1
      BY <1>1, <2>1, <3>1, <3>3 DEF Accounting, Counts, InHand
    <3> QED
      BY <3>1, <3>2, <3>3
  <2>3. CASE TrackPublished(t)
    BY <1>1, <2>1, <2>3 DEF TrackPublished, TrackReturns, Accounting, Counts, InHand
  <2>4. CASE TrackFails(t)
    BY <1>1, <2>1, <2>4 DEF TrackFails, TrackReturns, Accounting, Counts, InHand
  <2>5. CASE TrackDenied(t)
    BY <1>1, <2>1, <2>5 DEF TrackDenied, TrackReturns, Accounting, Counts, InHand
  <2> QED
    BY <1>3, <2>2, <2>3, <2>4, <2>5 DEF TrackStep
<1> QED
  BY <1>2, <1>3

\* Settling the epoch moves the batch to dropped as a whole, or not at all.
LEMMA SettleCounts ==
    ASSUME TypeOK, dropBatchOnConsentEpoch
    PROVE  /\ Len(batch') \in Nat /\ dropped' \in Nat
           /\ dropped' + Len(batch') = dropped + Len(batch)
  BY SeqFacts DEF TypeOK, dropBatchOnConsentEpoch

\* Admitting an event moves it to the batch or to dropped.
LEMMA AdmitCounts ==
    ASSUME TypeOK, recv \in Event, admitReceivedEvent
    PROVE  /\ Len(batch') \in Nat /\ dropped' \in Nat
           /\ dropped' + Len(batch') = dropped + Len(batch) + 1
<1> DEFINE kept == IF epoch = seen THEN batch ELSE <<>>
           lost == IF epoch = seen THEN 0 ELSE Len(batch)
<1>1. /\ kept \in Seq(Event) /\ lost \in Nat /\ Len(kept) \in Nat
      /\ lost + Len(kept) = Len(batch)
      /\ Len(Append(kept, recv)) = Len(kept) + 1 /\ dropped \in Nat
  BY SeqFacts DEF TypeOK
<1>2. CASE recv.epoch < epoch
  <2>1. batch' = kept /\ dropped' = dropped + lost + 1
    BY <1>2 DEF admitReceivedEvent
  <2> HIDE DEF kept, lost
  <2> QED
    BY <1>1, <2>1
<1>3. CASE ~(recv.epoch < epoch)
  <2>1. batch' = Append(kept, recv) /\ dropped' = dropped + lost + 0
    BY <1>3 DEF admitReceivedEvent
  <2> HIDE DEF kept, lost
  <2> QED
    BY <1>1, <2>1
<1> QED
  BY <1>2, <1>3

\* The worker only moves events between its hands and the counters.
LEMMA WorkerAccounting ==
    ASSUME TypeInv, Counts, Accounting, WorkerStep
    PROVE  Accounting'
<1>0. UNCHANGED <<calls, tracking, drained, failed>> /\ TypeOK /\ RecvHeld
  BY DEF TypeInv, WorkerStep, callVars, consentVars, statVars, LoopTop, Receive, Admit,
         AdmitInFlush, Tick, FlushRequest, SettleEpoch, WorkerBatch, FlushBatch,
         FlushDiscard, FlushDiscardEnd, DrainQueue, DrainEnd, BatchPublished,
         BatchRefused, BatchRetained, BatchDenied, FlushDenied
\* Only the batch, its counters, the discard count and the hand move.
<1> DEFINE Moving == published + discarded + InHand + (dropped + Len(batch))
           Staying == failed + drained + tracking + Len(queue)
<1>1. ASSUME UNCHANGED queue, InHand' \in Nat, Len(batch') \in Nat, published' \in Nat,
             dropped' \in Nat, discarded' \in Nat, Moving' = Moving
      PROVE  Accounting'
  <2>1. calls = Moving + Staying
    BY DEF Accounting, InHand
  <2>2. Staying' = Staying /\ calls' = calls
    BY <1>0, <1>1
  <2>3. calls' = Moving' + Staying'
    BY <1>1, <2>1, <2>2
  <2> QED
    BY <2>3 DEF Accounting, InHand
<1>11. ASSUME UNCHANGED recv
       PROVE  InHand' = InHand /\ InHand' \in Nat
  BY <1>11 DEF InHand
<1>2. CASE LoopTop \/ SettleEpoch \/ DrainQueue
  <2>1. /\ UNCHANGED <<queue, recv, published, discarded>>
        /\ dropBatchOnConsentEpoch
    BY <1>2 DEF LoopTop, SettleEpoch, DrainQueue
  <2>2. /\ Len(batch') \in Nat /\ dropped' \in Nat
        /\ dropped' + Len(batch') = dropped + Len(batch)
    BY <1>0, <2>1, SettleCounts
  <2>3. InHand' = InHand
    BY <2>1, <1>11
  <2>4. Moving' = Moving
    BY <2>1, <2>2, <2>3 DEF Counts
  <2> QED
    BY <1>1, <2>1, <2>2, <2>3, <2>4 DEF Counts
<1>3. CASE Tick \/ FlushRequest \/ FlushBatch \/ FlushDenied \/ DrainEnd \/ BatchRetained
  <2>1. UNCHANGED <<queue, recv, published, discarded, dropped, batch>>
    BY <1>3 DEF Tick, FlushRequest, FlushBatch, FlushDenied, DrainEnd, BatchRetained,
                workerVars, statVars
  <2> QED
    BY <1>0, <2>1 DEF Accounting
<1>4. CASE Receive
  <2>1. recv = NoEvent /\ recv' # NoEvent
    <3>1. queue # <<>> /\ recv' = Head(queue)
      BY <1>4 DEF Receive
    <3>2. Head(queue) \in Event
      BY <1>0, <3>1, SeqFacts DEF TypeOK
    <3> QED
      BY <1>0, <1>4, <3>1, <3>2, NamesAssumption DEF Receive, RecvHeld, Event
  <2>2. Len(queue') = Len(queue) - 1 /\ UNCHANGED <<batch, discarded, published, dropped>>
    BY <1>4 DEF Receive, Counts, statVars
  <2> QED
    BY <1>0, <2>1, <2>2 DEF Accounting, Counts
<1>5. CASE Admit \/ AdmitInFlush
  <2>1. recv \in Event /\ recv # NoEvent
    BY <1>0, <1>5 DEF Admit, AdmitInFlush, RecvHeld, TypeOK
  <2>2. UNCHANGED <<queue, published, discarded>> /\ admitReceivedEvent /\ recv' = NoEvent
    BY <1>5 DEF Admit, AdmitInFlush, admitReceivedEvent
  <2>3. /\ Len(batch') \in Nat /\ dropped' \in Nat
        /\ dropped' + Len(batch') = dropped + Len(batch) + 1
    BY <1>0, <2>1, <2>2, AdmitCounts
  <2>4. InHand = 1 /\ InHand' = 0
    BY <2>1, <2>2 DEF InHand
  <2>5. Moving' = Moving
    BY <2>2, <2>3, <2>4 DEF Counts
  <2> QED
    BY <1>1, <2>2, <2>3, <2>4, <2>5 DEF Counts
<1>6. ASSUME UNCHANGED <<queue, recv, published>>, batch' = <<>>, discarded' = 0,
             dropped' = dropped + Len(batch) + discarded
      PROVE  Accounting'
  <2>1. InHand' = InHand /\ Len(batch') = 0 /\ dropped' \in Nat
    BY <1>6, <1>11 DEF Counts
  <2>2. Moving' = Moving
    BY <1>6, <2>1 DEF Counts
  <2> QED
    BY <1>1, <1>6, <2>1, <2>2 DEF Counts
<1>7. ASSUME UNCHANGED <<queue, recv, published, discarded>>, batch' = <<>>,
             dropped' = dropped + Len(batch)
      PROVE  Accounting'
  <2>1. InHand' = InHand /\ Len(batch') = 0 /\ dropped' \in Nat
    BY <1>7, <1>11 DEF Counts
  <2>2. Moving' = Moving
    BY <1>7, <2>1 DEF Counts
  <2> QED
    BY <1>1, <1>7, <2>1, <2>2 DEF Counts
<1>8. CASE FlushDiscard
  BY <1>0, <1>8 DEF FlushDiscard, Accounting, Counts, InHand, statVars
<1>9. CASE BatchPublished
  <2>1. /\ UNCHANGED <<queue, recv, dropped, discarded>> /\ batch' = <<>>
        /\ published' = published + Len(batch)
    BY <1>9 DEF BatchPublished
  <2>2. InHand' = InHand /\ Len(batch') = 0 /\ published' \in Nat
    BY <2>1, <1>11 DEF Counts
  <2>3. Moving' = Moving
    BY <2>1, <2>2 DEF Counts
  <2> QED
    BY <1>1, <2>1, <2>2, <2>3 DEF Counts
<1>10. CASE WorkerBatch
  <2>1. CASE UNCHANGED <<batch, dropped>>
    BY <1>0, <1>10, <2>1 DEF WorkerBatch, Accounting
  <2> QED
    BY <1>7, <1>10, <2>1 DEF WorkerBatch
<1>12. CASE FlushDiscardEnd
  BY <1>6, <1>12 DEF FlushDiscardEnd
<1>13. CASE BatchRefused \/ BatchDenied
  BY <1>7, <1>13 DEF BatchRefused, BatchDenied
<1> QED
  BY <1>2, <1>3, <1>4, <1>5, <1>8, <1>9, <1>10, <1>12, <1>13 DEF WorkerStep

\* Every step of the client keeps the books balanced.
LEMMA AccountingStep == TypeInv /\ Accounting /\ [Next]_vars => Accounting'
<1> SUFFICES ASSUME TypeInv, Accounting, [Next]_vars PROVE Accounting'
  OBVIOUS
<1>1. TypeOK /\ Counts
  BY CountsHold DEF TypeInv
<1>2. ASSUME NEW p \in Publishers, LoadGate(p) \/ SendRequest(p)
      PROVE  Accounting'
  BY <1>2 DEF LoadGate, SendRequest, Accounting, consentVars, workerVars, callVars, statVars
<1>3. CASE UNCHANGED vars
  BY <1>3 DEF Accounting, vars, consentVars, workerVars, callVars, statVars
<1> QED
  BY <1>1, <1>2, <1>3, DecisionAccounting, CallAccounting, WorkerAccounting DEF Next

\* No event is lost without being counted and none is counted twice: the drain
\* of a denial, the worker and a flush take events from the same channel and
\* add their counts later (SetConsent, admitReceivedEvent,
\* discardConsentEvents).
THEOREM EveryEventAccounted == Spec => []Accounting
<1>1. Init => Accounting
  BY DEF Init, Accounting
<1> QED
  BY <1>1, TypeInvInit, TypeInvStep, AccountingStep, PTL DEF Spec

-----------------------------------------------------------------------------
(* Consent decisions: the tickets and the epoch, the gate and the         *)
(* requests on the network, the epoch and the batch.                       *)

\* lifecycleMu is held by the decider inside the fast half of a denial, and
\* consent stays denied while it is held.
LockInv ==
    /\ \A d \in Deciders : dpc[d] \in {"epoch", "gate", "drain"} <=> lock = d
    /\ lock # NoOne => consent = "denied"

\* No publish uses a gate that does not exist yet; once the denial has swapped
\* the gate, what is on the network carries an older one.
GateInv ==
    \A p \in Publishers :
        /\ pgate[p] <= gate
        /\ /\ pc[p] = "sent" /\ consent = "denied"
           /\ \A d \in Deciders : dpc[d] \notin {"epoch", "gate"}
           => pgate[p] < gate

\* Tickets in use are distinct and not yet served; a grant that waits behind
\* an older ticket sees the denials that took a newer one in the epoch.
TicketInv ==
    /\ ticketServing <= ticketNext
    /\ \A d \in Deciders : dpc[d] # "idle" =>
          ticketServing <= ticket[d] /\ ticket[d] < ticketNext
    /\ \A d, e \in Deciders : d # e /\ dpc[d] # "idle" /\ dpc[e] # "idle" =>
          ticket[d] # ticket[e]
    /\ \A d \in Deciders : dpc[d] = "grant" => snap[d] <= epoch
    /\ \A d, e \in Deciders :
          dpc[d] = "grant" /\ dpc[e] \in {"gate", "drain", "slow"}
              /\ ticket[d] < ticket[e] => snap[d] < epoch

\* Nothing the worker holds or will receive is newer than the epoch, and its
\* batch is of the epoch it last settled.
EpochInv ==
    /\ BatchIsOneEpoch
    /\ \A i \in 1..Len(queue) : queue[i].epoch <= epoch
    /\ recv # NoEvent => recv.epoch <= epoch

-----------------------------------------------------------------------------
(* Decisions.  These parts depend on the state of the deciders alone.      *)

ConsentInv == LockInv /\ TicketInv /\ NoDenialUnderGrant

\* Every step outside SetConsent leaves the deciders' state alone.
LEMMA OthersKeepConsent ==
    ASSUME [Next]_vars, ~\E d \in Deciders : DecisionStep(d)
    PROVE  UNCHANGED consentVars
  BY DEF Next, vars, consentVars, Enqueue, TrackStep, Track, TrackPublished, TrackFails,
         TrackDenied, TrackReturns, LoadGate, SendRequest, WorkerStep, LoopTop, Receive,
         Admit, AdmitInFlush, Tick, FlushRequest, SettleEpoch, WorkerBatch, FlushBatch,
         FlushDiscard, FlushDiscardEnd, DrainQueue, DrainEnd, BatchPublished,
         BatchRefused, BatchRetained, BatchDenied, FlushDenied

\* lifecycleMu has one holder: the denial in its fast half.
LEMMA DecisionLock ==
    ASSUME ConsentTypeOK, LockInv, NEW d \in Deciders, DecisionStep(d)
    PROVE  LockInv'
<1>1. CASE Deny(d)
  BY NamesAssumption, <1>1 DEF Deny, LockInv, ConsentTypeOK
<1>2. CASE DenyEpoch(d)
  BY NamesAssumption, <1>2 DEF DenyEpoch, LockInv, ConsentTypeOK
<1>3. CASE DenyGate(d)
  BY NamesAssumption, <1>3 DEF DenyGate, LockInv, ConsentTypeOK
<1>4. CASE DenyDrain(d)
  BY NamesAssumption, <1>4 DEF DenyDrain, LockInv, ConsentTypeOK
<1>5. CASE DenyUnlock(d)
  BY NamesAssumption, <1>5 DEF DenyUnlock, LockInv, ConsentTypeOK
<1>6. CASE DenySlow(d)
  BY NamesAssumption, <1>6 DEF DenySlow, LockInv, ConsentTypeOK
<1>7. CASE Grant(d)
  BY NamesAssumption, <1>7 DEF Grant, LockInv, ConsentTypeOK
<1>8. CASE GrantStore(d)
  BY NamesAssumption, <1>8 DEF GrantStore, LockInv, ConsentTypeOK
<1> QED
  BY <1>1, <1>2, <1>3, <1>4, <1>5, <1>6, <1>7, <1>8 DEF DecisionStep

\* Unfinished decisions hold distinct tickets that are still to be served,
\* and a grant whose epoch snapshot is current is behind every denial.
LEMMA DecisionTicket ==
    ASSUME ConsentTypeOK, LockInv, TicketInv, NEW d \in Deciders, DecisionStep(d)
    PROVE  TicketInv'
<1>1. CASE Deny(d)
  <2>1. /\ \A e \in Deciders \ {d} : /\ dpc'[e] = dpc[e] /\ ticket'[e] = ticket[e]
                                       /\ snap'[e] = snap[e]
        /\ ticket'[d] = ticketNext /\ ticketNext' = ticketNext + 1
        /\ UNCHANGED <<epoch, ticketServing>> /\ dpc[d] = "idle"
        /\ dpc'[d] = "epoch"
    BY <1>1 DEF Deny, ConsentTypeOK
  <2>2. \A e \in Deciders : ticket[e] \in Nat /\ snap[e] \in Nat
    BY DEF ConsentTypeOK
  <2>3. \A e \in Deciders : dpc'[e] # "idle" =>
           ticketServing' <= ticket'[e] /\ ticket'[e] < ticketNext'
    BY <2>1, <2>2 DEF TicketInv, ConsentTypeOK
  <2>4. \A e, f \in Deciders : e # f /\ dpc'[e] # "idle" /\ dpc'[f] # "idle" =>
           ticket'[e] # ticket'[f]
    BY <2>1, <2>2 DEF TicketInv, ConsentTypeOK
  <2>5. \A e \in Deciders : dpc'[e] = "grant" => snap'[e] <= epoch'
    BY <2>1 DEF TicketInv, ConsentTypeOK
  <2>6. \A e, f \in Deciders :
           dpc'[e] = "grant" /\ dpc'[f] \in {"gate", "drain", "slow"}
               /\ ticket'[e] < ticket'[f] => snap'[e] < epoch'
    BY <2>1, <2>2 DEF TicketInv, ConsentTypeOK
  <2>7. ticketServing' <= ticketNext'
    BY <2>1 DEF TicketInv, ConsentTypeOK
  <2> QED
    BY <2>3, <2>4, <2>5, <2>6, <2>7 DEF TicketInv
<1>2. CASE DenyEpoch(d)
  BY NamesAssumption, <1>2 DEF DenyEpoch, TicketInv, LockInv, ConsentTypeOK
<1>3. CASE DenyGate(d)
  BY NamesAssumption, <1>3 DEF DenyGate, TicketInv, LockInv, ConsentTypeOK
<1>4. CASE DenyDrain(d)
  BY NamesAssumption, <1>4 DEF DenyDrain, TicketInv, LockInv, ConsentTypeOK
<1>5. CASE DenyUnlock(d)
  BY NamesAssumption, <1>5 DEF DenyUnlock, TicketInv, LockInv, ConsentTypeOK
<1>6. CASE DenySlow(d)
  BY NamesAssumption, <1>6 DEF DenySlow, TicketInv, LockInv, ConsentTypeOK
<1>7. CASE Grant(d)
  <2>1. /\ \A e \in Deciders \ {d} : /\ dpc'[e] = dpc[e] /\ ticket'[e] = ticket[e]
                                       /\ snap'[e] = snap[e]
        /\ ticket'[d] = ticketNext /\ ticketNext' = ticketNext + 1
        /\ UNCHANGED <<epoch, ticketServing>> /\ dpc[d] = "idle"
        /\ dpc'[d] = "grant" /\ snap'[d] = epoch
    BY <1>7 DEF Grant, ConsentTypeOK
  <2>2. \A e \in Deciders : ticket[e] \in Nat /\ snap[e] \in Nat
    BY DEF ConsentTypeOK
  <2>3. \A e \in Deciders : dpc'[e] # "idle" =>
           ticketServing' <= ticket'[e] /\ ticket'[e] < ticketNext'
    BY <2>1, <2>2 DEF TicketInv, ConsentTypeOK
  <2>4. \A e, f \in Deciders : e # f /\ dpc'[e] # "idle" /\ dpc'[f] # "idle" =>
           ticket'[e] # ticket'[f]
    BY <2>1, <2>2 DEF TicketInv, ConsentTypeOK
  <2>5. \A e \in Deciders : dpc'[e] = "grant" => snap'[e] <= epoch'
    BY <2>1 DEF TicketInv, ConsentTypeOK
  <2>6. \A e, f \in Deciders :
           dpc'[e] = "grant" /\ dpc'[f] \in {"gate", "drain", "slow"}
               /\ ticket'[e] < ticket'[f] => snap'[e] < epoch'
    BY <2>1, <2>2 DEF TicketInv, ConsentTypeOK
  <2>7. ticketServing' <= ticketNext'
    BY <2>1 DEF TicketInv, ConsentTypeOK
  <2> QED
    BY <2>3, <2>4, <2>5, <2>6, <2>7 DEF TicketInv
<1>8. CASE GrantStore(d)
  BY NamesAssumption, <1>8 DEF GrantStore, TicketInv, LockInv, ConsentTypeOK
<1> QED
  BY <1>1, <1>2, <1>3, <1>4, <1>5, <1>6, <1>7, <1>8 DEF DecisionStep

\* No step of SetConsent opens consent over an unfinished denial.
LEMMA DecisionOrder ==
    ASSUME ConsentTypeOK, ConsentInv, NEW d \in Deciders, DecisionStep(d)
    PROVE  NoDenialUnderGrant'
<1>0. LockInv /\ TicketInv /\ NoDenialUnderGrant
  BY DEF ConsentInv
<1>1. CASE Deny(d)
  BY <1>0, NamesAssumption, <1>1 DEF Deny, NoDenialUnderGrant, LockInv, TicketInv, ConsentTypeOK
<1>2. CASE DenyEpoch(d)
  BY <1>0, NamesAssumption, <1>2 DEF DenyEpoch, NoDenialUnderGrant, LockInv, TicketInv, ConsentTypeOK
<1>3. CASE DenyGate(d)
  BY <1>0, NamesAssumption, <1>3 DEF DenyGate, NoDenialUnderGrant, LockInv, TicketInv, ConsentTypeOK
<1>4. CASE DenyDrain(d)
  BY <1>0, NamesAssumption, <1>4 DEF DenyDrain, NoDenialUnderGrant, LockInv, TicketInv, ConsentTypeOK
<1>5. CASE DenyUnlock(d)
  BY <1>0, NamesAssumption, <1>5 DEF DenyUnlock, NoDenialUnderGrant, LockInv, TicketInv, ConsentTypeOK
<1>6. CASE DenySlow(d)
  BY <1>0, NamesAssumption, <1>6 DEF DenySlow, NoDenialUnderGrant, LockInv, TicketInv, ConsentTypeOK
<1>7. CASE Grant(d)
  BY <1>0, NamesAssumption, <1>7 DEF Grant, NoDenialUnderGrant, LockInv, TicketInv, ConsentTypeOK
<1>8. CASE GrantStore(d)
  BY <1>0, NamesAssumption, <1>8 DEF GrantStore, NoDenialUnderGrant, LockInv, TicketInv, ConsentTypeOK
<1> QED
  BY <1>1, <1>2, <1>3, <1>4, <1>5, <1>6, <1>7, <1>8 DEF DecisionStep

\* No decision is under way in a new client.
LEMMA ConsentInvInit == Init => ConsentInv
  BY NamesAssumption DEF Init, ConsentInv, LockInv, TicketInv, NoDenialUnderGrant

\* Every step keeps the order of consent decisions.
LEMMA ConsentInvStep == TypeOK /\ ConsentInv /\ [Next]_vars => ConsentInv'
<1> SUFFICES ASSUME TypeOK, ConsentInv, [Next]_vars PROVE ConsentInv'
  OBVIOUS
<1>1. ASSUME UNCHANGED consentVars
      PROVE  ConsentInv'
  BY <1>1 DEF ConsentInv, LockInv, TicketInv, NoDenialUnderGrant, consentVars
<1>2. ASSUME NEW d \in Deciders, DecisionStep(d)
      PROVE  ConsentInv'
  BY <1>2, TypeParts, DecisionLock, DecisionTicket, DecisionOrder DEF ConsentInv
<1> QED
  BY <1>1, <1>2, OthersKeepConsent

\* Consent never opens over a denial that is not finished, however many
\* decisions race: a grant overtaken by a denial finds the epoch moved, and a
\* grant behind a denial waits for its ticket (applyConsentDecision).
THEOREM DenialWins == Spec => []NoDenialUnderGrant
<1>1. ConsentInv => NoDenialUnderGrant
  BY DEF ConsentInv
<1> QED
  BY <1>1, ConsentInvInit, ConsentInvStep, TypeCorrect, PTL DEF Spec

-----------------------------------------------------------------------------
(* The gate and the requests on the network.                               *)

\* A denial swaps the gate before it lets go of lifecycleMu.
LEMMA DecisionGate ==
    ASSUME ConsentTypeOK, PcTypeOK, GateInv, NEW d \in Deciders, DecisionStep(d)
    PROVE  GateInv'
<1>0. UNCHANGED <<pc, pgate>> /\ \A p \in Publishers : pgate[p] \in Nat
  BY DEF PcTypeOK, DecisionStep, Deny, DenyEpoch, DenyGate, DenyDrain, DenyUnlock, DenySlow,
         Grant, GrantStore
<1>1. CASE Deny(d)
  BY <1>0, <1>1 DEF Deny, GateInv, ConsentTypeOK
<1>2. CASE DenyEpoch(d)
  BY <1>0, <1>2 DEF DenyEpoch, GateInv, ConsentTypeOK
<1>3. CASE DenyGate(d)
  BY <1>0, <1>3 DEF DenyGate, GateInv, ConsentTypeOK
<1>4. CASE DenyDrain(d)
  BY <1>0, <1>4 DEF DenyDrain, GateInv, ConsentTypeOK
<1>5. CASE DenyUnlock(d)
  BY <1>0, <1>5 DEF DenyUnlock, GateInv, ConsentTypeOK
<1>6. CASE DenySlow(d)
  BY <1>0, <1>6 DEF DenySlow, GateInv, ConsentTypeOK
<1>7. CASE Grant(d)
  BY <1>0, <1>7 DEF Grant, GateInv, ConsentTypeOK
<1>8. CASE GrantStore(d)
  BY <1>0, <1>8 DEF GrantStore, GateInv, ConsentTypeOK
<1> QED
  BY <1>1, <1>2, <1>3, <1>4, <1>5, <1>6, <1>7, <1>8 DEF DecisionStep

\* Steps of the worker and of Track calls outside publishRequestResult send
\* nothing and load no gate.
LEMMA OthersSendNothing ==
    ASSUME PcTypeOK, WorkerStep \/ Enqueue \/ \E t \in Trackers : TrackStep(t)
    PROVE  /\ UNCHANGED <<consentVars, pgate>>
           /\ \A p \in Publishers : pc'[p] = "sent" => pc[p] = "sent"
<1>1. CASE Enqueue
  BY <1>1 DEF Enqueue
<1>2. ASSUME NEW t \in Trackers, TrackStep(t)
      PROVE  /\ UNCHANGED <<consentVars, pgate>>
             /\ \A p \in Publishers : pc'[p] = "sent" => pc[p] = "sent"
  BY <1>2 DEF PcTypeOK, TrackStep, Track, TrackPublished, TrackFails, TrackDenied,
              TrackReturns
<1>3. CASE WorkerStep
  <2>1. UNCHANGED <<consentVars, pgate>>
    BY <1>3 DEF WorkerStep, LoopTop, Receive, Admit, AdmitInFlush, Tick, FlushRequest,
         SettleEpoch, WorkerBatch, FlushBatch, FlushDiscard, FlushDiscardEnd, DrainQueue,
         DrainEnd, BatchPublished, BatchRefused, BatchRetained, BatchDenied, FlushDenied
  <2>2. \/ UNCHANGED pc
        \/ \E w : w # "sent" /\ pc' = [pc EXCEPT ![Worker] = w]
    BY <1>3 DEF WorkerStep, LoopTop, Receive, Admit, AdmitInFlush, Tick, FlushRequest,
         SettleEpoch, WorkerBatch, FlushBatch, FlushDiscard, FlushDiscardEnd, DrainQueue,
         DrainEnd, BatchPublished, BatchRefused, BatchRetained, BatchDenied, FlushDenied,
         GoTo, AfterPublish
  <2> QED
    BY <2>1, <2>2 DEF PcTypeOK
<1> QED
  BY <1>1, <1>2, <1>3

\* Every step keeps requests on the network under a gate that a denial
\* cancels.
LEMMA GateInvStep == TypeOK /\ GateInv /\ [Next]_vars => GateInv'
<1> SUFFICES ASSUME TypeOK, GateInv, [Next]_vars PROVE GateInv'
  OBVIOUS
<1>0. ConsentTypeOK /\ PcTypeOK
  BY TypeParts
<1>1. ASSUME NEW p \in Publishers, LoadGate(p)
      PROVE  GateInv'
  BY <1>0, <1>1 DEF LoadGate, GateInv, ConsentTypeOK, PcTypeOK, consentVars
<1>2. ASSUME NEW p \in Publishers, SendRequest(p)
      PROVE  GateInv'
  BY <1>0, <1>2 DEF SendRequest, consentDenied, GateInv, PcTypeOK, consentVars
<1>3. CASE WorkerStep \/ Enqueue \/ \E t \in Trackers : TrackStep(t)
  BY <1>0, <1>3, OthersSendNothing DEF GateInv, consentVars
<1>4. CASE UNCHANGED vars
  BY <1>4 DEF GateInv, vars, consentVars
<1> QED
  BY <1>0, <1>1, <1>2, <1>3, <1>4, DecisionGate DEF Next

\* When the fast half of a denial has returned, every event request that is
\* still on the network carries a cancelled gate: publishRequestResult loads
\* the gate before it looks at consent, SetConsent stores the denial before it
\* swaps the gate.
THEOREM DenialAborts == Spec => []DenialAbortsInFlight
<1>1. Init => GateInv
  BY DEF Init, GateInv
<1>2. TypeOK /\ ConsentInv /\ GateInv => DenialAbortsInFlight
  BY NamesAssumption
  DEF TypeOK, ConsentInv, LockInv, GateInv, DenialAbortsInFlight, consentDenied
<1> QED
  BY <1>1, <1>2, GateInvStep, ConsentInvInit, ConsentInvStep, TypeCorrect, PTL DEF Spec

-----------------------------------------------------------------------------
(* The epoch and the batch.                                                *)

\* Elements of a queue or a batch after one operation.
LEMMA SeqElements ==
    ASSUME NEW S, NEW s \in Seq(S), NEW e \in S
    PROVE  /\ s # <<>> => /\ Head(s) = s[1] /\ 1 \in 1..Len(s)
                          /\ \A i \in 1..Len(Tail(s)) :
                                i + 1 \in 1..Len(s) /\ Tail(s)[i] = s[i + 1]
           /\ \A i \in 1..Len(Append(s, e)) :
                 \/ i \in 1..Len(s) /\ Append(s, e)[i] = s[i]
                 \/ Append(s, e)[i] = e
  OBVIOUS

\* All elements of a sequence of events satisfy a bound: kept by Tail.
QueueInv == \A i \in 1..Len(queue) : queue[i].epoch <= epoch

\* Taking an event from the queue keeps the bound on intake epochs.
LEMMA TailKeepsBound ==
    ASSUME TypeOK, QueueInv, queue # <<>>, queue' = Tail(queue), UNCHANGED epoch
    PROVE  QueueInv'
<1>1. \A i \in 1..Len(Tail(queue)) :
         i + 1 \in 1..Len(queue) /\ Tail(queue)[i] = queue[i + 1]
  BY DEF TypeOK
<1> QED
  BY <1>1 DEF QueueInv

\* A moving epoch leaves the intake stamps behind it.
LEMMA DecisionEpoch ==
    ASSUME TypeOK, EpochInv, NEW d \in Deciders, DecisionStep(d)
    PROVE  EpochInv'
<1>0. /\ UNCHANGED <<batch, recv, seen>> /\ epoch \in Nat /\ seen \in Nat
      /\ \A i \in 1..Len(queue) : queue[i].epoch \in Nat
      /\ recv # NoEvent => recv.epoch \in Nat
  <2>1. UNCHANGED <<batch, recv, seen>>
    BY DEF workerVars, DecisionStep, Deny, DenyEpoch, DenyGate, DenyDrain, DenyUnlock,
           DenySlow, Grant, GrantStore
  <2>2. epoch \in Nat /\ seen \in Nat /\ (recv # NoEvent => recv.epoch \in Nat)
    BY DEF TypeOK, Event
  <2>3. \A i \in 1..Len(queue) : queue[i].epoch \in Nat
    <3>1. queue \in Seq(Event)
      BY DEF TypeOK
    <3>2. \A i \in 1..Len(queue) : queue[i] \in Event
      BY <3>1
    <3> QED
      BY <3>2 DEF Event
  <2> QED
    BY <2>1, <2>2, <2>3
<1>1. CASE DenyEpoch(d)
  BY <1>0, <1>1 DEF DenyEpoch, EpochInv, BatchIsOneEpoch
<1>2. CASE DenyDrain(d)
  <2>1. QueueInv'
    BY <1>2, TailKeepsBound DEF DenyDrain, EpochInv, QueueInv
  <2> QED
    BY <1>0, <1>2, <2>1 DEF DenyDrain, EpochInv, BatchIsOneEpoch, QueueInv
<1>3. CASE UNCHANGED <<epoch, queue>>
  BY <1>0, <1>3 DEF EpochInv, BatchIsOneEpoch
<1> QED
  BY <1>1, <1>2, <1>3 DEF DecisionStep, Deny, DenyGate, DenyUnlock, DenySlow, Grant,
                          GrantStore

\* Enqueue stamps an event with the current epoch.
LEMMA EnqueueEpoch ==
    ASSUME TypeOK, EpochInv, Enqueue
    PROVE  EpochInv'
<1> DEFINE e == [id |-> calls, epoch |-> epoch]
<1>0. UNCHANGED <<batch, recv, seen, epoch>> /\ e \in Event /\ queue \in Seq(Event)
  BY DEF TypeOK, Event, workerVars, consentVars, Enqueue
<1>1. CASE UNCHANGED queue
  BY <1>0, <1>1 DEF EpochInv, BatchIsOneEpoch
<1>2. CASE queue' = Append(queue, e)
  <2>1. e.epoch = epoch /\ epoch \in Nat
    BY DEF TypeOK
  <2>2. \A i \in 1..Len(queue') : queue'[i] = e \/ (i \in 1..Len(queue) /\ queue'[i] = queue[i])
    BY <1>0, <1>2, SeqElements
  <2> HIDE DEF e
  <2>3. QueueInv'
    BY <1>0, <2>1, <2>2 DEF EpochInv, QueueInv
  <2> QED
    BY <1>0, <2>3 DEF EpochInv, BatchIsOneEpoch, QueueInv
<1> QED
  BY <1>1, <1>2 DEF Enqueue

\* The worker's batch after settling the epoch.
LEMMA SettleEpochInv ==
    ASSUME TypeOK, EpochInv, dropBatchOnConsentEpoch, UNCHANGED <<queue, recv, epoch>>
    PROVE  EpochInv'
<1>1. epoch \in Nat /\ Len(<<>>) = 0
  BY DEF TypeOK
<1> QED
  BY <1>1 DEF EpochInv, BatchIsOneEpoch, dropBatchOnConsentEpoch

\* An admitted event joins a batch of its own epoch.
LEMMA AdmitEpochInv ==
    ASSUME TypeOK, EpochInv, recv \in Event, recv # NoEvent, admitReceivedEvent,
           UNCHANGED <<queue, epoch>>
    PROVE  EpochInv'
<1> DEFINE kept == IF epoch = seen THEN batch ELSE <<>>
<1>0. epoch \in Nat /\ recv.epoch \in Nat /\ seen' = epoch /\ recv' = NoEvent
  BY DEF TypeOK, Event, admitReceivedEvent
<1>1. kept \in Seq(Event) /\ \A i \in 1..Len(kept) : kept[i].epoch = epoch
  BY DEF TypeOK, EpochInv, BatchIsOneEpoch
<1>2. CASE recv.epoch < epoch
  <2>1. batch' = kept
    BY <1>2 DEF admitReceivedEvent
  <2> HIDE DEF kept
  <2> QED
    BY <1>0, <1>1, <2>1 DEF EpochInv, BatchIsOneEpoch
<1>3. CASE ~(recv.epoch < epoch)
  <2>1. batch' = Append(kept, recv) /\ recv.epoch = epoch
    BY <1>0, <1>3 DEF admitReceivedEvent, EpochInv
  <2> HIDE DEF kept
  <2>2. \A i \in 1..Len(batch') : batch'[i] = recv \/ (i \in 1..Len(kept) /\ batch'[i] = kept[i])
    BY <1>1, <2>1, SeqElements
  <2>3. \A i \in 1..Len(batch') : batch'[i].epoch = seen'
    BY <1>0, <1>1, <2>1, <2>2
  <2> QED
    BY <1>0, <2>3 DEF EpochInv, BatchIsOneEpoch
<1> QED
  BY <1>2, <1>3

\* Every step of the worker keeps the batch within one epoch.
LEMMA WorkerEpoch ==
    ASSUME TypeInv, EpochInv, WorkerStep
    PROVE  EpochInv'
<1>0. TypeOK /\ RecvHeld /\ UNCHANGED epoch /\ Len(<<>>) = 0
  BY DEF TypeInv, WorkerStep, consentVars, LoopTop, Receive, Admit, AdmitInFlush, Tick,
         FlushRequest, SettleEpoch, WorkerBatch, FlushBatch, FlushDiscard,
         FlushDiscardEnd, DrainQueue, DrainEnd, BatchPublished, BatchRefused,
         BatchRetained, BatchDenied, FlushDenied
<1>1. CASE LoopTop \/ SettleEpoch \/ DrainQueue
  BY <1>0, <1>1, SettleEpochInv DEF LoopTop, SettleEpoch, DrainQueue
<1>2. CASE Admit \/ AdmitInFlush
  <2>1. recv \in Event /\ recv # NoEvent
    BY <1>0, <1>2 DEF Admit, AdmitInFlush, RecvHeld, TypeOK
  <2> QED
    BY <1>0, <1>2, <2>1, AdmitEpochInv DEF Admit, AdmitInFlush
<1>3. CASE Receive
  <2>1. /\ queue # <<>> /\ recv' = Head(queue) /\ queue' = Tail(queue)
        /\ UNCHANGED <<batch, seen>>
    BY <1>3 DEF Receive
  <2>2. QueueInv'
    BY <1>0, <2>1, TailKeepsBound DEF EpochInv, QueueInv
  <2>3. Head(queue) = queue[1] /\ 1 \in 1..Len(queue)
    BY <1>0, <2>1 DEF TypeOK
  <2> QED
    BY <1>0, <2>1, <2>2, <2>3 DEF EpochInv, BatchIsOneEpoch, QueueInv
<1>4. CASE FlushDiscard
  <2>1. QueueInv'
    BY <1>0, <1>4, TailKeepsBound DEF FlushDiscard, EpochInv, QueueInv
  <2> QED
    BY <1>0, <1>4, <2>1 DEF FlushDiscard, EpochInv, BatchIsOneEpoch, QueueInv
<1>5. ASSUME UNCHANGED <<queue, recv, seen>>, batch' = batch \/ batch' = <<>>
      PROVE  EpochInv'
  BY <1>0, <1>5 DEF EpochInv, BatchIsOneEpoch
<1> QED
  BY <1>1, <1>2, <1>3, <1>4, <1>5 DEF WorkerStep, workerVars, Tick, FlushRequest,
     WorkerBatch, FlushBatch, FlushDiscardEnd, DrainEnd, BatchPublished, BatchRefused,
     BatchRetained, BatchDenied, FlushDenied

\* Every step of the client keeps the batch within one epoch.
LEMMA EpochInvStep == TypeInv /\ EpochInv /\ [Next]_vars => EpochInv'
<1> SUFFICES ASSUME TypeInv, EpochInv, [Next]_vars PROVE EpochInv'
  OBVIOUS
<1>1. ASSUME UNCHANGED <<epoch, queue, recv, batch, seen>>
      PROVE  EpochInv'
  BY <1>1 DEF EpochInv, BatchIsOneEpoch
<1>2. ASSUME NEW t \in Trackers, TrackStep(t)
      PROVE  EpochInv'
  BY <1>1, <1>2 DEF TrackStep, Track, TrackPublished, TrackFails, TrackDenied,
                    TrackReturns, workerVars, consentVars
<1>3. ASSUME NEW p \in Publishers, LoadGate(p) \/ SendRequest(p)
      PROVE  EpochInv'
  BY <1>1, <1>3 DEF LoadGate, SendRequest, workerVars, consentVars
<1>4. CASE UNCHANGED vars
  BY <1>1, <1>4 DEF vars, workerVars, consentVars
<1>5. TypeOK
  BY DEF TypeInv
<1> QED
  BY <1>2, <1>3, <1>4, <1>5, DecisionEpoch, EnqueueEpoch, WorkerEpoch DEF Next

\* A new client holds no event.
LEMMA EpochInvInit == Init => EpochInv
  BY DEF Init, EpochInv, BatchIsOneEpoch

\* The worker's batch never spans consent epochs, whatever interleaving of
\* denials, re-grants, receives and flushes (admitReceivedEvent).
THEOREM OneEpochPerBatch == Spec => []BatchIsOneEpoch
<1>1. EpochInv => BatchIsOneEpoch
  BY DEF EpochInv
<1> QED
  BY <1>1, EpochInvInit, EpochInvStep, TypeInvInit, TypeInvStep, PTL DEF Spec

\* What EpochDropsArePreDenial asks of one step.
KeepsFresh ==
    /\ pc[Worker] \in {"top", "publish", "drain", "admit", "admitFlush"}
    /\ pc[Worker] # pc'[Worker]
    => /\ \A i \in 1..Len(batch) :
             batch[i].epoch = epoch => Len(batch') >= i /\ batch'[i] = batch[i]
       /\ recv # NoEvent /\ recv.epoch = epoch =>
             batch' # <<>> /\ batch'[Len(batch')] = recv

\* dropBatchOnConsentEpoch loses no event of the current epoch.
LEMMA SettleKeepsFresh ==
    ASSUME TypeInv, EpochInv, LoopTop \/ SettleEpoch \/ DrainQueue
    PROVE  KeepsFresh
<1>1. recv = NoEvent /\ dropBatchOnConsentEpoch
  BY DEF TypeInv, RecvHeld, LoopTop, SettleEpoch, DrainQueue
<1>2. batch \in Seq(Event)
  BY DEF TypeInv, TypeOK
<1>3. CASE epoch = seen
  BY <1>1, <1>2, <1>3 DEF KeepsFresh, dropBatchOnConsentEpoch
<1>4. CASE epoch # seen
  BY <1>1, <1>2, <1>4 DEF KeepsFresh, EpochInv, BatchIsOneEpoch
<1> QED
  BY <1>3, <1>4

\* admitReceivedEvent loses no event of the current epoch.
LEMMA AdmitKeepsFresh ==
    ASSUME TypeInv, EpochInv, Admit \/ AdmitInFlush
    PROVE  KeepsFresh
<1> DEFINE kept == IF epoch = seen THEN batch ELSE <<>>
<1>0. /\ recv \in Event /\ recv # NoEvent /\ admitReceivedEvent /\ epoch \in Nat
      /\ batch \in Seq(Event)
  BY DEF TypeInv, TypeOK, RecvHeld, Admit, AdmitInFlush
<1>1. /\ kept \in Seq(Event)
      /\ \A i \in 1..Len(batch) :
            batch[i].epoch = epoch => Len(kept) >= i /\ kept[i] = batch[i]
  BY <1>0 DEF EpochInv, BatchIsOneEpoch
<1>2. CASE recv.epoch < epoch
  <2>1. batch' = kept /\ recv.epoch # epoch
    BY <1>0, <1>2 DEF admitReceivedEvent
  <2> HIDE DEF kept
  <2> QED
    BY <1>1, <2>1 DEF KeepsFresh
<1>3. CASE ~(recv.epoch < epoch)
  <2>1. batch' = Append(kept, recv)
    BY <1>0, <1>3 DEF admitReceivedEvent
  <2> HIDE DEF kept
  <2>2. /\ Len(batch') = Len(kept) + 1 /\ batch'[Len(batch')] = recv /\ batch' # <<>>
        /\ \A i \in 1..Len(kept) : batch'[i] = kept[i]
    BY <1>0, <1>1, <2>1
  <2>3. Len(kept) \in Nat /\ Len(batch) \in Nat
    BY <1>0, <1>1
  <2>4. \A i \in 1..Len(batch) :
           batch[i].epoch = epoch => Len(batch') >= i /\ batch'[i] = batch[i]
    BY <1>1, <2>2, <2>3
  <2> QED
    BY <2>2, <2>4 DEF KeepsFresh
<1> QED
  BY <1>2, <1>3

\* No step of the worker that settles the epoch loses a fresh event.
LEMMA StepKeepsFresh == TypeInv /\ EpochInv /\ [Next]_vars => KeepsFresh
<1> SUFFICES ASSUME TypeInv, EpochInv, [Next]_vars PROVE KeepsFresh
  OBVIOUS
<1>0. /\ pc \in [Publishers -> WorkerStates \cup TrackStates] /\ Worker \in Publishers
      /\ Worker \notin Trackers
  BY NamesAssumption DEF TypeInv, TypeOK, Publishers
<1>1. ASSUME pc'[Worker] = pc[Worker]
      PROVE  KeepsFresh
  BY <1>1 DEF KeepsFresh
<1>2. ASSUME pc[Worker] \notin {"top", "publish", "drain", "admit", "admitFlush"}
      PROVE  KeepsFresh
  BY <1>2 DEF KeepsFresh
<1>3. ASSUME NEW d \in Deciders, DecisionStep(d)
      PROVE  KeepsFresh
  BY <1>1, <1>3 DEF DecisionStep, Deny, DenyEpoch, DenyGate, DenyDrain, DenyUnlock,
                    DenySlow, Grant, GrantStore
<1>4. ASSUME NEW t \in Trackers, TrackStep(t)
      PROVE  KeepsFresh
  BY <1>0, <1>1, <1>4 DEF TrackStep, Track, TrackPublished, TrackFails, TrackDenied,
                          TrackReturns
<1>5. ASSUME NEW p \in Publishers, LoadGate(p) \/ SendRequest(p)
      PROVE  KeepsFresh
  BY <1>0, <1>1, <1>2, <1>5 DEF LoadGate, SendRequest
<1>6. CASE WorkerStep
  BY <1>2, <1>6, SettleKeepsFresh, AdmitKeepsFresh
  DEF WorkerStep, Receive, Tick, FlushRequest, WorkerBatch, FlushBatch, FlushDiscard,
      FlushDiscardEnd, DrainEnd, BatchPublished, BatchRefused, BatchRetained,
      BatchDenied, FlushDenied, DeniedOutcome
<1>7. CASE Enqueue \/ UNCHANGED vars
  BY <1>1, <1>7 DEF Enqueue, vars
<1> QED
  BY <1>3, <1>4, <1>5, <1>6, <1>7 DEF Next

\* Settling the epoch never costs an event of the current epoch: what was
\* accepted after a re-grant stays in the batch or joins it
\* (dropBatchOnConsentEpoch, admitReceivedEvent, drainQueueAdmitted).
THEOREM FreshEventsKept == Spec => EpochDropsArePreDenial
<1>1. TypeInv /\ EpochInv /\ [Next]_vars => [KeepsFresh]_vars
  BY StepKeepsFresh
<1>2. Spec => [][KeepsFresh]_vars
  BY <1>1, EpochInvInit, EpochInvStep, TypeInvInit, TypeInvStep, PTL DEF Spec
<1> QED
  BY <1>2 DEF EpochDropsArePreDenial, KeepsFresh
=============================================================================
