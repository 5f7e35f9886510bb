--------------------------- MODULE ExperimentFacts ---------------------------
(***************************************************************************)
(* From an applied variant to its fact on the wire (experiment_facts.go,   *)
(* experiment_applications.go, experiment_age_delivery.go and what         *)
(* client.go and spool.go do to facts).  An application is stored in the   *)
(* spool as an intent, sealed by the server, replaced on disk by its fact, *)
(* queued, batched, built into a request and sent; a failed batch is       *)
(* spooled again, and a restart resends facts and restores intents.        *)
(* Meanwhile an age refusal or the real-subjects sentinel withdraws what   *)
(* is on its way, consent is denied and granted again, writes fail and the *)
(* process crashes.  One experiment, one subject, hence one fact key.      *)
(*                                                                         *)
(* Three generations fence the facts: key.epoch counts age withdrawals     *)
(* (key.mark is the one recorded for the fact key until it is pruned),     *)
(* factPurge counts sentinels and consent.epoch denials.  A fact carries   *)
(* the ones it was made under: ks, fs and in.  sp.file is what the next    *)
(* start would load: DiskSpool shows that removals reach it.               *)
(***************************************************************************)
EXTENDS Integers, FiniteSets, SequencesExt

CONSTANTS
    Apps,          \* application ids
    None,
    QueueSize,     \* Config.BufferSize
    MaxOwed,       \* expMaxOwedExposures
    MaxDenials, MaxWithdrawals, MaxFaults, MaxCrashes   \* bounds

\* What an emission holds between its steps.
Emission == [app : Apps, gen : Nat, ph : {"seal", "build", "enqueue", "note"}, purge : Nat, ks : Nat,
             fs : Nat, seq : Nat, rc : Nat]

ASSUME ExperimentFactsAssumption ==
    /\ {QueueSize, MaxOwed} \subseteq Nat \ {0}
    /\ {MaxDenials, MaxWithdrawals, MaxFaults, MaxCrashes} \subseteq Nat
    /\ IsFiniteSet(Apps) /\ None \notin Emission

VARIABLES
    consent,    \* [granted, epoch]
    served,     \* the experiment has an entry
    confirmed,  \* ageConfirmed
    declaring,  \* an undecided non-adult declaration
    applied,    \* lastApplied is set
    exposed,    \* the session's delivered automatic exposure
    owed,       \* pendingExposure
    sweep,      \* the emission that holds emitMu
    purgeEpoch, factPurge, key,
    noted,      \* queuedFactSeq of the fact key, 0: none
    low,        \* expPipelineLow
    factSeq,
    queue, drained,
    w,          \* the worker
    sp,         \* the spool: mirror, file, stamps, resend queue
    purgeOwed,  \* a sentinel whose purgeWithdrawnExperimentFacts has not run
    receipts,   \* pointConsentReported: the receipts issued to an application, the one of its spooled fact
    spent,      \* the receipts against which this process has counted a consent drop
    used,       \* what the bounds count, the ids armed, and those of them that are points
    dead,       \* history: applications withdrawn by an age refusal or a sentinel
    spared,     \* history: those a failed request was respooling when a sentinel landed
    kept        \* history: applications stored and not settled since

plane == <<served, confirmed, declaring, applied, exposed>>
epochs == <<purgeEpoch, factPurge, key>>
marks == <<noted, low, factSeq>>
hist == <<dead, spared, kept>>
vars == <<consent, plane, owed, sweep, epochs, marks, queue, drained, w, sp, purgeOwed, receipts, spent, used, hist>>

(***************************************************************************)
(* The spool.                                                              *)

Saved(s) == [s EXCEPT !.file = s.mem, !.dirty = FALSE]
Write(s, ok) == IF ok THEN Saved(s) ELSE [s EXCEPT !.dirty = TRUE]

\* A write may fail while the bound on faults allows it.
Spend(ok) == (ok \/ used.faults < MaxFaults) /\ used' = [used EXCEPT !.faults = @ + IF ok THEN 0 ELSE 1]

Facts(s) == {a \in Apps : "fact" \in s.mem[a]}

\* The spool without the given forms; removeMatching's marker makes it durable.
Removed(s, form, as) ==
    IF \A a \in as : form \notin s.mem[a] THEN s
    ELSE Saved([s EXCEPT !.mem = [a \in Apps |-> IF a \in as THEN @[a] \ {form} ELSE @[a]],
                         !.res = IF form = "fact" THEN @ \ as ELSE @])

\* A settled intent must not come back: persistExperimentApplication withholds it.
Withheld(r, s) == r.admitted /\ "intent" \notin s.mem[r.app]

\* persistExperimentApplication.
Persisted(r, s, ok) ==
    LET s1 == IF Withheld(r, s) THEN s ELSE [s EXCEPT !.mem[r.app] = @ \union {"intent"}]
    IN  IF r.done \/ (s1 = s /\ ~s.dirty) THEN s ELSE Write(s1, ok)

Retained(r, s) == r.done \/ ("intent" \in s.mem[r.app] /\ ~s.dirty)

\* The spool with the fact in the intent's place.
InPlace(s, a) ==
    [s EXCEPT !.mem[a] = {"fact"}, !.fs[a] = IF "fact" \in s.mem[a] THEN @ ELSE factPurge]

\* The intent and the fact written one after the other.
ReplacedInTwo(s, a, ok, landed) ==
    IF ok THEN Saved(InPlace(s, a)) ELSE [s EXCEPT !.dirty = TRUE, !.file[a] = {}]

\* replaceApplication: the fact takes the intent's place in one write, or
\* the mirror is rolled back; a write that reports failure may have landed.
Replaced(s, a, ok, landed) ==
    IF ok THEN Saved(InPlace(s, a))
    ELSE [s EXCEPT !.dirty = TRUE, !.file = IF landed THEN InPlace(s, a).mem ELSE @]

\* Facts appended to the spool under a request's generation.
Appended(s, as, stamp, ok) ==
    LET new == as \ Facts(s)
        s1  == [s EXCEPT !.mem = [a \in Apps |-> IF a \in new THEN @[a] \union {"fact"} ELSE @[a]],
                         !.fs = [a \in Apps |-> IF a \in new THEN stamp ELSE @[a]]]
    IN  IF new = {} /\ ~s.dirty THEN s ELSE Write(s1, ok)

(***************************************************************************)
(* Owed applications.  Copies of one application share its eventDelivery   *)
(* and with it one receipt: rc tells the receipts of an application apart. *)

NewRecord(a, extra, gen, rc) ==
    [app |-> a, extra |-> extra, gen |-> gen, ses |-> TRUE, sealed |-> FALSE,
     admitted |-> FALSE, durable |-> FALSE, done |-> FALSE, ev |-> None, rc |-> rc]

\* newEventDelivery: a record's receipt is one that no copy carries yet.
Issued(as) == [receipts EXCEPT !.issued = [a \in Apps |-> IF a \in as THEN @[a] + 1 ELSE @[a]]]

AppsOf(s) == {x.app : x \in s}
Owed == {owed[i] : i \in DOMAIN owed}

\* A new entry of the spool has the receipt of the copy it is made from.
Shelved(es) ==
    [receipts EXCEPT !.stored = [a \in Apps |-> IF a \in AppsOf(es) \ Facts(sp)
                                               THEN (CHOOSE x \in es : x.app = a).rc ELSE @[a]]]

\* The record an emission works on is still in the list.
Holds(r) == r.app = sweep.app /\ r.gen = sweep.gen
Current == \E r \in Owed : Holds(r)
Mine == CHOOSE r \in Owed : Holds(r)
Update(r) == [i \in DOMAIN owed |-> IF Holds(owed[i]) THEN r ELSE owed[i]]

WithoutMine == RemoveAt(owed, CHOOSE i \in DOMAIN owed : Holds(owed[i]))

\* appendOwedLocked: at the bound the oldest application is retired.
Admit(r, ok) ==
    LET over == Len(owed) >= MaxOwed
        gone == IF over THEN {Head(owed).app} ELSE {}
        s    == Persisted(r, Removed(sp, "intent", gone), ok)
        r1   == [r EXCEPT !.admitted = TRUE, !.durable = Retained(r, s)]
    IN  /\ owed' = Append(IF over THEN Tail(owed) ELSE owed, r1)
        /\ sp' = s
        /\ kept' = (kept \ gone) \union (IF r1.durable THEN {r.app} ELSE {})

\* A new application id.
Fresh(a) == a \notin used.armed

Arms(a, extra, ok) ==
    /\ consent.granted /\ Fresh(a)
    /\ ok \/ used.faults < MaxFaults
    /\ used' = [used EXCEPT !.armed = @ \union {a}, !.faults = @ + IF ok THEN 0 ELSE 1,
                            !.points = IF extra THEN @ \union {a} ELSE @]
    /\ Admit(NewRecord(a, extra, purgeEpoch, receipts.issued[a] + 1), ok)
    /\ receipts' = Issued({a})
    /\ applied' = TRUE
    /\ UNCHANGED <<consent, served, confirmed, declaring, exposed, sweep, epochs, marks, queue,
                   drained, w, purgeOwed, spent, dead, spared>>

\* ApplyExperimentVariant: the session's automatic exposure, once.
ApplyVariant(a, ok) ==
    /\ served /\ confirmed /\ ~declaring
    /\ exposed = None /\ ~\E r \in Owed : ~r.extra /\ r.ses
    /\ Arms(a, FALSE, ok)

\* TrackExperimentExposure and TrackExperimentOutcome: a point of its own.
TrackPoint(a, ok) ==
    /\ applied /\ ~declaring
    /\ Arms(a, TRUE, ok)

(***************************************************************************)
(* The emission of the oldest application, under emitMu; e.mu is released  *)
(* over the seal's request and between the handoff and the queue.          *)

\* sweepExperimentExposures takes the head and emitOwedExposure stores it.
SweepHead(ok) ==
    /\ sweep = None /\ owed # <<>> /\ ~declaring /\ consent.granted /\ confirmed
    /\ Spend(ok)
    /\ LET r    == Head(owed)
           s    == Persisted(r, sp, ok)
           r1   == [r EXCEPT !.admitted = TRUE, !.durable = @ \/ Retained(r, s)]
           keep == Retained(r, s)
       IN  /\ ok \/ s.dirty
           /\ sp' = s
           /\ owed' = IF Withheld(r, sp) /\ ~r.done /\ ~s.dirty THEN Tail(owed) ELSE <<r1>> \o Tail(owed)
           /\ kept' = IF keep /\ ~r.done THEN kept \union {r.app} ELSE kept
           /\ sweep' = IF keep
                       THEN [app |-> r.app, gen |-> r.gen, ph |-> IF r.sealed THEN "build" ELSE "seal",
                             purge |-> purgeEpoch, ks |-> key.epoch, fs |-> factPurge, seq |-> 0, rc |-> r.rc]
                       ELSE None
    /\ UNCHANGED <<consent, plane, epochs, marks, queue, drained, w, purgeOwed, receipts, spent, dead, spared>>

\* The head's intent is past its retry age.
SweepExpired ==
    /\ sweep = None /\ owed # <<>> /\ ~declaring /\ consent.granted /\ confirmed /\ ~Head(owed).done
    /\ owed' = Tail(owed)
    /\ sp' = Removed(sp, "intent", {Head(owed).app})
    /\ kept' = kept \ {Head(owed).app}
    /\ UNCHANGED <<consent, plane, sweep, epochs, marks, queue, drained, w, purgeOwed, receipts, spent, used, dead, spared>>

\* An answer is discarded when its application was withdrawn meanwhile.
Stands == sweep.purge = purgeEpoch /\ Current /\ consent.granted

Sealing == IF sweep = None THEN FALSE ELSE sweep.ph = "seal"

\* sealExperimentApplication: kept for a later attempt, or discarded.
SealKept ==
    /\ Sealing
    /\ sweep' = None
    /\ UNCHANGED <<consent, plane, owed, epochs, marks, queue, drained, w, sp, purgeOwed, receipts, spent, used, hist>>

\* Sealed: the fact key is recorded and the key generation read again.
SealGranted ==
    /\ Sealing /\ Stands
    /\ owed' = Update([Mine EXCEPT !.sealed = TRUE])
    /\ sweep' = [sweep EXCEPT !.ph = "build", !.ks = key.epoch]
    /\ UNCHANGED <<consent, plane, epochs, marks, queue, drained, w, sp, purgeOwed, receipts, spent, used, hist>>

\* Refused for good: the application is retired with its intent.
SealRefused ==
    /\ Sealing /\ Stands
    /\ owed' = WithoutMine /\ sweep' = None
    /\ sp' = Removed(sp, "intent", {sweep.app})
    /\ kept' = kept \ {sweep.app}
    /\ UNCHANGED <<consent, plane, epochs, marks, queue, drained, w, purgeOwed, receipts, spent, used, dead, spared>>

\* durablyHandoffApplication.
Handoff(ok) ==
    /\ IF sweep = None THEN FALSE ELSE sweep.ph = "build"
    /\ Spend(ok)
    /\ IF ~Current \/ ~consent.granted
       THEN ok /\ sweep' = None /\ UNCHANGED <<owed, sp, receipts>>
       ELSE LET r  == Mine
                ev == IF r.ev = None THEN [ks |-> sweep.ks, fs |-> sweep.fs] ELSE r.ev
            IN  CASE r.done -> /\ ok /\ UNCHANGED <<owed, sp, receipts>>
                               /\ sweep' = [sweep EXCEPT !.ph = "enqueue", !.ks = ev.ks, !.fs = ev.fs]
                  [] ~r.done /\ sp.mem[r.app] = {} ->
                               /\ ok /\ sweep' = None /\ UNCHANGED <<sp, receipts>>
                               /\ owed' = Update([r EXCEPT !.ev = ev])
                  [] OTHER  -> /\ \E landed \in BOOLEAN : sp' = Replaced(sp, r.app, ok, landed)
                               /\ receipts' = IF ok THEN Shelved({r}) ELSE receipts
                               /\ owed' = Update([r EXCEPT !.ev = ev, !.done = ok])
                               /\ sweep' = IF ok THEN [sweep EXCEPT !.ph = "enqueue", !.ks = ev.ks, !.fs = ev.fs]
                                           ELSE None
    /\ UNCHANGED <<consent, plane, epochs, marks, queue, drained, w, purgeOwed, spent, hist>>

\* The receipt that prepareEvent gives every event.
PreparedWith(rc) == receipts.issued[sweep.app] + 1

\* The record's own receipt takes its place again.
AttachedWith(rc) == rc

\* enqueueExperimentFact, under lifecycleMu.
Enqueue ==
    /\ IF sweep = None THEN FALSE ELSE sweep.ph = "enqueue"
    /\ IF consent.granted /\ Cardinality(queue) < QueueSize
       THEN /\ factSeq' = factSeq + 1
            /\ queue' = queue \union {[app |-> sweep.app, ks |-> sweep.ks, fs |-> sweep.fs,
                                       in |-> consent.epoch, seq |-> factSeq + 1,
                                       rc |-> AttachedWith(sweep.rc)]}
            /\ sweep' = [sweep EXCEPT !.ph = "note", !.seq = factSeq + 1]
       ELSE sweep' = None /\ UNCHANGED <<factSeq, queue>>
    /\ UNCHANGED <<consent, plane, owed, epochs, noted, low, drained, w, sp, purgeOwed, receipts, spent, used, hist>>

\* forgetDequeuedFactsLocked.
Forgotten == IF noted < low THEN 0 ELSE noted

\* The rest of emitOwedExposure and of the sweep: the key is noted, the
\* exposure marked delivered, and the record leaves the list if it is still its head.
Finish ==
    /\ IF sweep = None THEN FALSE ELSE sweep.ph = "note"
    /\ noted' = IF sweep.seq > Forgotten THEN sweep.seq ELSE Forgotten
    /\ exposed' = IF sweep.purge = purgeEpoch /\ Current
                  THEN IF ~Mine.extra /\ Mine.ses THEN sweep.app ELSE exposed
                  ELSE exposed
    /\ owed' = IF owed = <<>> THEN owed ELSE IF Holds(Head(owed)) THEN Tail(owed) ELSE owed
    /\ sweep' = None
    /\ UNCHANGED <<consent, served, confirmed, declaring, applied, epochs, low, factSeq, queue, drained,
                   w, sp, purgeOwed, receipts, spent, used, hist>>

(***************************************************************************)
(* The worker.                                                             *)

KeyWithdrawn(ks) == ks < key.mark
PurgeWithdrawn(fs) == fs < factPurge
AgeHeld == declaring \/ ~confirmed

\* The receipts that copies of applications carry.
Receipts(es) == {[app |-> x.app, rc |-> x.rc] : x \in es}
StoredReceipts(as) == {[app |-> a, rc |-> receipts.stored[a]] : a \in as}

\* countPointApplicationConsentDrop: a drop of a point counts if it spends the copy's receipt.
Counted(s, rs) == s \union {p \in rs : p.app \in used.points}

\* dropWithdrawnExperimentFacts and its kin look again only when a
\* generation has moved since the worker last looked.
SentinelSpares(es) == {x \in es : factPurge # w.seenPurge => ~PurgeWithdrawn(x.fs)}
KeySpares(es) == {x \in es : key.epoch # w.seenKey => ~KeyWithdrawn(x.ks)}
StillAuthorized(es) == KeySpares(SentinelSpares(es))

Looked == [w EXCEPT !.seenKey = key.epoch, !.seenPurge = factPurge]

\* dropBatchOnConsentEpoch.
DropBatch ==
    [Looked EXCEPT !.batch = IF consent.epoch # w.seenC THEN {} ELSE StillAuthorized(w.batch),
                   !.seenC = consent.epoch]
DropSpent == IF consent.epoch # w.seenC THEN Counted(spent, Receipts(StillAuthorized(w.batch))) ELSE spent

\* publishExpPipelineLow.
LowMark(batch) ==
    LET past == (IF w.last > drained THEN w.last ELSE drained) + 1
        held == {x.seq : x \in batch} \union {past}
    IN  CHOOSE n \in held : \A m \in held : n <= m

\* The top of the worker's loop.
WorkerTop ==
    /\ w.pc = "top"
    /\ low' = LowMark(w.batch)
    /\ w' = [DropBatch EXCEPT !.pc = "select"]
    /\ spent' = DropSpent
    /\ UNCHANGED <<consent, plane, owed, sweep, epochs, noted, factSeq, queue, drained, sp, purgeOwed, receipts, used, hist>>

\* admitReceivedEvent for the oldest event of the queue.
Admits(then) ==
    /\ queue # {}
    /\ LET x    == CHOOSE y \in queue : \A z \in queue : y.seq <= z.seq
           late == x.in < consent.epoch
       IN  /\ queue' = queue \ {x}
           /\ w' = [DropBatch EXCEPT !.pc = then, !.last = x.seq,
                       !.batch = IF late \/ PurgeWithdrawn(x.fs) \/ KeyWithdrawn(x.ks) THEN @ ELSE @ \union {x}]
           /\ spent' = IF late THEN Counted(DropSpent, Receipts({x})) ELSE DropSpent
    /\ UNCHANGED <<consent, plane, owed, sweep, epochs, marks, drained, sp, purgeOwed, receipts, used, hist>>

Receive == w.pc = "select" /\ Admits("top")

\* drainQueueAdmitted: a flush goes on with the queue, its held facts aside.
FlushDrain == w.pc = "settled" /\ Admits("resent")

\* resendSpooledChunks pulls what a start loaded.
PullChunk ==
    /\ w.pc = "select" /\ sp.res # {}
    /\ w' = [DropBatch EXCEPT !.pc = "chunk", !.chunk = sp.res, !.pulledAt = key.epoch]
    /\ spent' = DropSpent
    /\ sp' = [sp EXCEPT !.res = {}]
    /\ UNCHANGED <<consent, plane, owed, sweep, epochs, marks, queue, drained, purgeOwed, receipts, used, hist>>

\* dropWithdrawnSpoolChunkMembers and dropKeyWithdrawnSpoolChunkMembers: a
\* loaded entry has generation 0, and the pull's key generation.
ChunkPurged == IF PurgeWithdrawn(0) THEN {} ELSE w.chunk

ChunkReady == IF KeyWithdrawn(w.pulledAt) THEN {} ELSE ChunkPurged

\* requeueResend keeps what is still stored.
Requeued(s, as) == [s EXCEPT !.res = @ \union (as \intersect Facts(s))]

SendChunk ==
    /\ w.pc = "chunk"
    /\ IF ChunkReady = {} \/ AgeHeld \/ ~consent.granted
       THEN /\ w' = [w EXCEPT !.pc = "resent", !.chunk = {}]
            /\ sp' = IF AgeHeld THEN Requeued(sp, ChunkReady) ELSE sp
       ELSE /\ w' = [w EXCEPT !.pc = "chunkflight", !.chunk = ChunkReady, !.sentC = consent.epoch]
            /\ UNCHANGED sp
    /\ UNCHANGED <<consent, plane, owed, sweep, epochs, marks, queue, drained, purgeOwed, receipts, spent, used, hist>>

\* An answer that settles the chunk acknowledges it to the spool.
ChunkSettled ==
    /\ w.pc = "chunkflight"
    /\ sp' = Removed(sp, "fact", w.chunk)
    /\ kept' = kept \ w.chunk
    /\ w' = [w EXCEPT !.pc = "resent", !.chunk = {}]
    /\ UNCHANGED <<consent, plane, owed, sweep, epochs, marks, queue, drained, purgeOwed, receipts, spent, used, dead, spared>>

\* A failed one goes back; a denial's abort leaves it to the purge.
ChunkFailed ==
    /\ w.pc = "chunkflight"
    /\ IF consent.epoch # w.sentC
       THEN /\ spent' = Counted(spent, StoredReceipts(w.chunk))
            /\ w' = [w EXCEPT !.pc = "resent", !.chunk = {}]
            /\ UNCHANGED sp
       ELSE /\ sp' = Requeued(sp, w.chunk)
            /\ w' = [w EXCEPT !.pc = "top", !.chunk = {}]
            /\ UNCHANGED spent
    /\ UNCHANGED <<consent, plane, owed, sweep, epochs, marks, queue, drained, purgeOwed, receipts, used, hist>>

\* publishWorkerBatch after the resend: filters, the age hold, the build.
Build ==
    /\ (w.pc = "resent" \/ (w.pc = "select" /\ sp.res = {} /\ w.batch # {}))
    /\ LET es == IF consent.granted THEN StillAuthorized(w.batch) ELSE {}
           go == IF AgeHeld THEN {} ELSE es
       IN  /\ w' = [Looked EXCEPT !.batch = go, !.held = @ \union (es \ go), !.req = go,
                       !.reqPurge = factPurge, !.pc = IF go = {} THEN "settled" ELSE "built"]
           /\ spent' = IF consent.granted THEN spent ELSE Counted(spent, Receipts(w.batch))
    /\ UNCHANGED <<consent, plane, owed, sweep, epochs, marks, queue, drained, sp, purgeOwed, receipts, used, hist>>

\* spoolFailedBatch up to its append.
RespoolPurged(w1) == IF factPurge = w1.reqPurge THEN w1.req ELSE {}

Respooling(w1) ==
    LET req == {x \in RespoolPurged(w1) : ~KeyWithdrawn(x.ks)}
    IN  [w1 EXCEPT !.pc = IF req = {} THEN "rejoin" ELSE "respool", !.req = req, !.respKey = key.epoch]

\* The built request goes out as it was built.
HandedAsBuilt(es) == es

\* dropWithdrawnBuiltBatch: the built request is looked at once more.
Handed(es) == StillAuthorized(es)

\* publishRequestResult up to the transport.
Send ==
    /\ w.pc = "built"
    /\ LET es == Handed(w.req)
           w1 == [Looked EXCEPT !.batch = es, !.req = es]
       IN  /\ w' = CASE es = {} -> [w1 EXCEPT !.pc = "settled"]
                     [] es # {} /\ AgeHeld -> Respooling(w1)
                     [] es # {} /\ ~AgeHeld /\ ~consent.granted -> [w1 EXCEPT !.pc = "rejoin"]
                     [] OTHER -> [w1 EXCEPT !.pc = "flight", !.sentC = consent.epoch]
           /\ spent' = IF ~AgeHeld /\ ~consent.granted THEN Counted(spent, Receipts(es)) ELSE spent
    /\ UNCHANGED <<consent, plane, owed, sweep, epochs, marks, queue, drained, sp, purgeOwed, receipts, used, hist>>

\* Accepted, or refused for good: the batch is settled here and in the spool.
Settled ==
    /\ w.pc = "flight"
    /\ sp' = Removed(sp, "fact", AppsOf(w.req))
    /\ kept' = kept \ AppsOf(w.req)
    /\ w' = [w EXCEPT !.pc = "settled", !.batch = {}, !.req = {}]
    /\ UNCHANGED <<consent, plane, owed, sweep, epochs, marks, queue, drained, purgeOwed, receipts, spent, used, dead, spared>>

\* A failure the worker retries, or a denial's abort.
Failed ==
    /\ w.pc = "flight"
    /\ IF consent.epoch # w.sentC
       THEN w' = [w EXCEPT !.pc = "rejoin"] /\ spent' = Counted(spent, Receipts(w.req))
       ELSE w' = Respooling(w) /\ UNCHANGED spent
    /\ UNCHANGED <<consent, plane, owed, sweep, epochs, marks, queue, drained, sp, purgeOwed, receipts, used, hist>>

\* What the respool's append leaves out, seen under the spool's lock.
RespoolWithheld(x) == key.epoch # w.respKey /\ KeyWithdrawn(x.ks)

\* The append of spoolFailedBatch; the worker keeps its batch.
Respool(ok) ==
    /\ w.pc = "respool"
    /\ Spend(ok)
    /\ sp' = IF consent.granted
             THEN Appended(sp, AppsOf({x \in w.req : ~RespoolWithheld(x)}), w.reqPurge, ok) ELSE sp
    /\ receipts' = IF consent.granted THEN Shelved({x \in w.req : ~RespoolWithheld(x)}) ELSE receipts
    /\ ok \/ (sp'.dirty /\ sp' # sp)
    /\ w' = [w EXCEPT !.pc = "rejoin"]
    /\ UNCHANGED <<consent, plane, owed, sweep, epochs, marks, queue, drained, purgeOwed, spent, hist>>

\* rejoinAgeHeld.
Rejoins(x) == ~(x.in < consent.epoch) /\ ~PurgeWithdrawn(x.fs) /\ ~KeyWithdrawn(x.ks)

Rejoin ==
    /\ w.pc \in {"settled", "rejoin"}
    /\ w' = [w EXCEPT !.pc = "top", !.batch = @ \union {x \in w.held : Rejoins(x)},
                      !.held = {}, !.req = {}]
    /\ UNCHANGED <<consent, plane, owed, sweep, epochs, marks, queue, drained, sp, purgeOwed, receipts, spent, used, hist>>

(***************************************************************************)
(* What withdraws.                                                         *)

\* Everything on its way that no request carries to the network right now.
Pending == AppsOf(Owed) \union AppsOf(queue) \union AppsOf(w.batch) \union AppsOf(w.held) \union w.chunk
           \union {a \in Apps : sp.mem[a] # {}} \union (IF sweep = None THEN {} ELSE {sweep.app})

Withdraws == used.withdrawals < MaxWithdrawals
Spent == [used EXCEPT !.withdrawals = @ + 1]

\* withdrawExperimentKeyFactsUnderLock: the generation moves with the mark.
Marked(k) == [epoch |-> k.epoch + 1, mark |-> k.epoch + 1]

\* withdrawOwedApplicationsLocked: intents, owed records, the session's
\* exposure, and the key's facts wherever they are.
WithdrawApplications ==
    /\ owed' = <<>> /\ exposed' = None /\ applied' = FALSE
    /\ key' = Marked(key)
    /\ sp' = Removed(Removed(sp, "intent", Apps), "fact", Apps)
    /\ dead' = dead \union Pending
    /\ kept' = {}
    /\ UNCHANGED <<purgeEpoch, factPurge, spared>>

\* applySentinelWithdrawalLocked; the spool's purge spares newer facts.
WithdrawEverything ==
    /\ served' = FALSE /\ confirmed' = FALSE /\ applied' = FALSE /\ exposed' = None
    /\ owed' = <<>>
    /\ purgeEpoch' = purgeEpoch + 1 /\ factPurge' = factPurge + 1
    /\ sp' = Removed(Removed(sp, "intent", Apps), "fact", {a \in Apps : sp.fs[a] < factPurge + 1})
    /\ LET racing == IF w.pc = "respool" THEN AppsOf(w.req) ELSE {}
       IN  dead' = dead \union (Pending \ racing) /\ spared' = spared \union racing
    /\ kept' = {}
    /\ UNCHANGED <<declaring, key>>

\* The apply endpoint refuses the age.
SealRefusedAge ==
    /\ Sealing /\ Stands /\ Withdraws
    /\ WithdrawApplications
    /\ served' = FALSE /\ sweep' = None /\ used' = Spent
    /\ UNCHANGED <<consent, confirmed, declaring, marks, queue, drained, w, purgeOwed, receipts, spent>>

\* The apply endpoint answers with the sentinel.
SealSentinel ==
    /\ Sealing /\ Stands /\ Withdraws
    /\ WithdrawEverything
    /\ sweep' = None /\ used' = Spent
    /\ UNCHANGED <<consent, marks, queue, drained, w, purgeOwed, receipts, spent>>

\* An assignment fetch settles with the sentinel; the second pass over the
\* spool follows once emitMu is free.
FetchSentinel ==
    /\ Withdraws /\ consent.granted
    /\ WithdrawEverything
    /\ purgeOwed' = TRUE /\ used' = Spent
    /\ UNCHANGED <<consent, sweep, marks, queue, drained, w, receipts, spent>>

\* purgeWithdrawnExperimentFacts.
PurgeSweep ==
    /\ purgeOwed /\ sweep = None
    /\ purgeOwed' = FALSE
    /\ sp' = Removed(Removed(sp, "intent", Apps), "fact", {a \in Apps : sp.fs[a] < factPurge})
    /\ kept' = {a \in kept : sp'.mem[a] # {}}
    /\ UNCHANGED <<consent, plane, owed, sweep, epochs, marks, queue, drained, w, receipts, spent, used, dead, spared>>

\* The host declares a non-adult age.
Declare ==
    /\ ~declaring /\ Withdraws
    /\ declaring' = TRUE /\ confirmed' = FALSE
    /\ UNCHANGED <<consent, served, applied, exposed, owed, sweep, epochs, marks, queue, drained, w, sp,
                   purgeOwed, receipts, spent, used, hist>>

\* The server refuses the age, or the declaration ends without its answer:
\* applyAgeWithdrawalLocked.
FetchRefusedAge ==
    /\ Withdraws
    /\ WithdrawApplications
    /\ served' = FALSE /\ declaring' = FALSE /\ used' = Spent
    /\ confirmed' \in {confirmed, TRUE}
    /\ UNCHANGED <<consent, sweep, marks, queue, drained, w, purgeOwed, receipts, spent>>

\* A fetch installs an assignment: the age is confirmed.
FetchAssigned ==
    /\ consent.granted /\ ~(served /\ confirmed /\ ~declaring)
    /\ served' = TRUE /\ confirmed' = TRUE /\ declaring' = FALSE
    /\ UNCHANGED <<consent, applied, exposed, owed, sweep, epochs, marks, queue, drained, w, sp,
                   purgeOwed, receipts, spent, used, hist>>

\* applyEntryDropLocked: the experiment ended; what is sealed and owed is
\* captured in the spool before the entry goes.
FetchEnded ==
    /\ served /\ consent.granted
    /\ served' = FALSE
    /\ sp' = Appended(sp, {r.app : r \in {r \in Owed : r.sealed}}, factPurge, TRUE)
    /\ receipts' = Shelved({r \in Owed : r.sealed})
    /\ UNCHANGED <<consent, confirmed, declaring, applied, exposed, owed, sweep, epochs, marks, queue,
                   drained, w, purgeOwed, spent, used, hist>>

\* pruneExperimentFactKeys forgets a key that no fact can still carry.
Live == owed # <<>> \/ Forgotten # 0 \/ Facts(sp) # {}

Prune ==
    /\ key.mark # 0 /\ sweep = None /\ ~sp.dirty /\ w.pc \notin {"chunk", "chunkflight"}
    /\ noted' = Forgotten
    /\ key' = IF Live THEN key ELSE [key EXCEPT !.mark = 0]
    /\ UNCHANGED <<consent, plane, owed, sweep, purgeEpoch, factPurge, low, factSeq, queue, drained, w, sp,
                   purgeOwed, receipts, spent, used, hist>>

(***************************************************************************)
(* Consent, restart.                                                       *)

\* onAnalyticsPurge: the session's automatic exposure is armed again under
\* its own id, points are dropped.
Rearmed ==
    LET autos == {r.app : r \in {r \in Owed : ~r.extra /\ r.ses}}
        again == IF autos # {} THEN autos ELSE {exposed} \ {None}
    IN  IF served /\ again # {} THEN LET a == CHOOSE a \in again : TRUE
            IN  <<NewRecord(a, FALSE, purgeEpoch + 1, receipts.issued[a] + 1)>>
       ELSE <<>>

\* applyConsentDecision of a denial: the queue is drained and the spool wiped.
Deny ==
    /\ consent.granted /\ used.denials < MaxDenials
    /\ used' = [used EXCEPT !.denials = @ + 1]
    /\ consent' = [granted |-> FALSE, epoch |-> consent.epoch + 1]
    /\ spent' = Counted(spent, Receipts(queue) \union Receipts(Owed) \union StoredReceipts(Facts(sp)))
    /\ drained' = LET all == {x.seq : x \in queue} \union {drained} IN CHOOSE n \in all : \A m \in all : m <= n
    /\ queue' = {}
    /\ owed' = Rearmed
    /\ receipts' = Issued(AppsOf(ToSet(Rearmed)))
    /\ exposed' = None
    /\ purgeEpoch' = purgeEpoch + 1
    /\ sp' = Saved([sp EXCEPT !.mem = [a \in Apps |-> {}], !.res = {}])
    /\ kept' = {}
    /\ UNCHANGED <<served, confirmed, declaring, applied, sweep, factPurge, key, marks, w, purgeOwed, dead, spared>>

Grant ==
    /\ ~consent.granted
    /\ consent' = [consent EXCEPT !.granted = TRUE]
    /\ UNCHANGED <<plane, owed, sweep, epochs, marks, queue, drained, w, sp, purgeOwed, receipts, spent, used, hist>>

\* The spool's upkeep writes a mirror that a failed write left ahead of the file.
Upkeep ==
    /\ sp.dirty /\ sp' = Saved(sp)
    /\ UNCHANGED <<consent, plane, owed, sweep, epochs, marks, queue, drained, w, purgeOwed, receipts, spent, used, hist>>

\* sealedApplicationReplacements: a fact on file stands for its intent.
Loaded(f) == [a \in Apps |-> IF "fact" \in f[a] THEN {"fact"} ELSE f[a]]

Idle == [pc |-> "top", batch |-> {}, held |-> {}, req |-> {}, reqPurge |-> 0, respKey |-> 0, sentC |-> 0,
         seenKey |-> 0, seenPurge |-> 0, seenC |-> 0, last |-> 0, chunk |-> {}, pulledAt |-> 0]

\* The receipts of a process: every entry it loads gets one of its own.
ReceiptsFrom(n) == [issued |-> [a \in Apps |-> n], stored |-> [a \in Apps |-> n]]

\* A crash and the next start: the spool loads, restoreExperimentApplications
\* owes its intents again, facts are resent; every generation starts over.
Restart ==
    /\ used.crashes < MaxCrashes
    /\ used' = [used EXCEPT !.crashes = @ + 1]
    /\ LET mem == Loaded(sp.file)
           owes == {a \in Apps : "intent" \in mem[a]}
       IN  /\ sp' = [mem |-> mem, file |-> sp.file, fs |-> [a \in Apps |-> 0],
                     res |-> {a \in Apps : "fact" \in mem[a]}, dirty |-> mem # sp.file]
           /\ owed' = LET q == SetToSeq(owes) IN
                 [i \in DOMAIN q |-> [NewRecord(q[i], q[i] \in used.points, 0, 1)
                                        EXCEPT !.ses = FALSE, !.admitted = TRUE, !.durable = TRUE]]
    /\ consent' = [consent EXCEPT !.epoch = 0]
    /\ confirmed' = FALSE /\ declaring' = FALSE /\ applied' = FALSE /\ exposed' = None
    /\ sweep' = None /\ purgeEpoch' = 0 /\ factPurge' = 0 /\ key' = [epoch |-> 0, mark |-> 0]
    /\ noted' = 0 /\ low' = 0 /\ factSeq' = 0 /\ queue' = {} /\ drained' = 0
    /\ w' = Idle /\ purgeOwed' = FALSE
    /\ receipts' = ReceiptsFrom(1) /\ spent' = {}
    /\ UNCHANGED <<served, hist>>

Init ==
    /\ consent = [granted |-> TRUE, epoch |-> 0]
    /\ served = FALSE /\ confirmed = FALSE /\ declaring = FALSE /\ applied = FALSE /\ exposed = None
    /\ owed = <<>> /\ sweep = None
    /\ purgeEpoch = 0 /\ factPurge = 0 /\ key = [epoch |-> 0, mark |-> 0]
    /\ noted = 0 /\ low = 0 /\ factSeq = 0 /\ queue = {} /\ drained = 0
    /\ w = Idle
    /\ sp = [mem |-> [a \in Apps |-> {}], file |-> [a \in Apps |-> {}], fs |-> [a \in Apps |-> 0],
             res |-> {}, dirty |-> FALSE]
    /\ purgeOwed = FALSE
    /\ receipts = ReceiptsFrom(0) /\ spent = {}
    /\ used = [denials |-> 0, withdrawals |-> 0, faults |-> 0, crashes |-> 0, armed |-> {}, points |-> {}]
    /\ dead = {} /\ spared = {} /\ kept = {}

Next ==
    \/ \E a \in Apps, ok \in BOOLEAN : ApplyVariant(a, ok) \/ TrackPoint(a, ok)
    \/ \E ok \in BOOLEAN : SweepHead(ok) \/ Handoff(ok) \/ Respool(ok)
    \/ SweepExpired \/ SealKept \/ SealGranted \/ SealRefused \/ Enqueue \/ Finish
    \/ WorkerTop \/ Receive \/ FlushDrain \/ PullChunk \/ SendChunk \/ ChunkSettled \/ ChunkFailed
    \/ Build \/ Send \/ Settled \/ Failed \/ Rejoin
    \/ SealRefusedAge \/ SealSentinel \/ FetchSentinel \/ PurgeSweep
    \/ Declare \/ FetchRefusedAge \/ FetchAssigned \/ FetchEnded \/ Prune
    \/ Deny \/ Grant \/ Upkeep \/ Restart

Spec == Init /\ [][Next]_vars

(***************************************************************************)
(* Properties.                                                             *)

InPipeline == queue \union w.batch \union w.held \union w.req

\* Types, the bounds of the list and the queue, and that no fact and no
\* mark is of a generation the process has not reached.
TypeOK ==
    /\ Len(owed) <= MaxOwed /\ Cardinality(queue) <= QueueSize
    /\ \A x \in InPipeline : x.app \in used.armed /\ x.ks <= key.epoch /\ x.fs <= factPurge /\ x.seq <= factSeq
    /\ w.seenKey <= key.epoch /\ w.seenPurge <= factPurge /\ w.seenC <= consent.epoch
    /\ w.chunk \union sp.res \subseteq Apps /\ key.mark <= key.epoch
    /\ dead \union spared \union kept \subseteq used.armed

\* A fact that an age refusal or a sentinel withdrew is never handed to the
\* transport afterwards: not from the queue, not from a batch built before,
\* not by a respool, a resend chunk, a restored intent or an emission that
\* was under way, and not because its withdrawal was pruned meanwhile.
NoWithdrawnFactSent ==
    [][/\ (w.pc # "flight" /\ w'.pc = "flight") => AppsOf(w'.req) \intersect dead = {}
       /\ (w.pc # "chunkflight" /\ w'.pc = "chunkflight") => w'.chunk \intersect dead = {}]_vars

\* An application reported stored is on file, as an intent or as its fact,
\* until it is delivered, refused, expired, withdrawn or purged by a denial:
\* whenever the process crashes, it is not lost.
StoredSurvives == \A a \in kept : sp.file[a] # {}

\* A point that a denial drops is counted once, though the list, the queue,
\* the worker, a request and the spool each drop their own copy of it: the
\* copies that exist in one process all carry the one receipt, whichever of
\* them was made from which, and by a handoff, a capture, a respool or a load.
ConsentDropCountedOnce == \A p, q \in spent : p.app = q.app => p = q

=============================================================================
