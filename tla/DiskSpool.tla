----------------------------- MODULE DiskSpool -----------------------------
(***************************************************************************)
(* The disk spool of one client (spool.go): the mirror in memory, the      *)
(* append log spool.json, its two markers, the resend of what an earlier   *)
(* process left, capacity evictions, withdrawals, consent decisions with   *)
(* the floor off, write failures, crashes and restarts.                    *)
(*                                                                         *)
(* An event is an envelope; IdOf gives its event_id, and two events with   *)
(* one id are two generations of it.  The memory of the spool is the       *)
(* record mem, the directory the record disk; an operation of diskSpool is *)
(* an operator that yields the set of its possible results, a result being *)
(*   m, d   memory and directory afterwards,                               *)
(*   cap    the evictions reported as capacity dead-letters,               *)
(*   cnt    the events counted in Stats.Spooled,                           *)
(*   err    the failure the operation returns,                             *)
(*   cost   how many file operations failed.                               *)
(* A write that fails may have landed all the same: the rename went        *)
(* through and the directory sync failed.  The dead-letter callback runs   *)
(* with the operation.  Left out: the byte cap (the count cap stands for   *)
(* both), the limit of 4096 on settledIDs, other writers of the directory, *)
(* damaged files, a directory that cannot be made private at the start,    *)
(* the values of retry clocks (whether one changed is a choice), stored    *)
(* experiment applications and age holds, the actor check per envelope,    *)
(* and two SetConsent calls at once.                                       *)
(***************************************************************************)
EXTENDS Integers, Sequences, FiniteSets

CONSTANTS
    Events,        \* envelopes
    IdOf,          \* the event_id of each
    Facts,         \* the SDK's own experiment facts among them
    MaxEvents,     \* SpoolMaxEvents
    BatchSize,
    MaxFaults, MaxCrashes, MaxDecisions, MaxSweeps, MaxStale,   \* bounds
    NoFile

ASSUME SpoolAssumption ==
    /\ Facts \subseteq Events
    /\ DOMAIN IdOf = Events
    /\ {MaxEvents, BatchSize} \subseteq Nat \ {0}
    /\ {MaxFaults, MaxCrashes, MaxDecisions, MaxSweeps, MaxStale} \subseteq Nat

VARIABLES
    mem,           \* diskSpool
    disk,          \* spool.json, spool-wipe-owed, spool.withdrawn.json, consent.json
    up,            \* the process runs
    consent,       \* Client.consent
    batch,         \* the batch the worker retains
    pc,            \* what the worker is doing
    chunk,         \* the resend chunk it holds
    cut,           \* a denial cancelled the gate of its request
    dec,           \* where the current SetConsent call is
    fresh,         \* events not yet accepted
    stale,         \* events past their retry age
    old,           \* facts built before the last sentinel of this process
    faults, crashes, decisions, sweeps,
    \* History: counted in Stats.Spooled with no final outcome since; purged
    \* by a denial; held by the worker when a denial took effect; withdrawn with durable proof; a denial left no such proof.
    promised, condemned, inHand, withdrawn, residual

workVars  == <<batch, pc, chunk, cut, fresh, stale, old>>
boundVars == <<crashes, decisions, sweeps>>
proofVars == <<condemned, inHand, withdrawn, residual>>
vars == <<mem, disk, up, consent, workVars, dec, faults, boundVars, promised,
          proofVars>>

Ids == {IdOf[e] : e \in Events}
Elems(s) == {s[i] : i \in 1..Len(s)}
IdsOf(s) == {IdOf[e] : e \in Elems(s)}
Without(s, ids) == SelectSeq(s, LAMBDA e : IdOf[e] \notin ids)
Drop(s, n) == SubSeq(s, n + 1, Len(s))

\* How many entries the caps evict from the front (evictOverCapsLocked).
Over(s) == IF Len(s) > MaxEvents THEN Len(s) - MaxEvents ELSE 0

\* newDiskSpool, with the wipe marker read from the directory.
NewSpool(owed) ==
    [entries |-> <<>>, resend |-> <<>>, settled |-> {}, dirty |-> FALSE,
     appendable |-> FALSE, owed |-> owed, deferred |-> {}, uncounted |-> {},
     granted |-> FALSE, deadline |-> FALSE, marked |-> FALSE, markedIds |-> {}]

-----------------------------------------------------------------------------
(* The log and the rewrite.                                                *)

AddRecs(s)  == [i \in 1..Len(s) |-> [ev |-> s[i], drop |-> FALSE]]
DropRecs(s) == [i \in 1..Len(s) |-> [ev |-> s[i], drop |-> TRUE]]

\* spoolDocument.live: a record is live unless a later one names its id.
live(recs) ==
    LET LiveAt(i) == /\ ~recs[i].drop
                     /\ \A j \in (i + 1)..Len(recs) :
                            IdOf[recs[j].ev] # IdOf[recs[i].ev]
        at == SelectSeq([i \in 1..Len(recs) |-> i], LiveAt)
    IN  [k \in 1..Len(at) |-> recs[at[k]].ev]

OnFile(d) == IF d.file = NoFile THEN <<>> ELSE live(d.file.recs)

\* The file after records were written to its end: the first of them is lost
\* in the malformed line when the file ends in a tear.
Extended(f, recs, torn) ==
    [f EXCEPT !.recs = @ \o (IF f.torn THEN Drop(recs, 1) ELSE recs),
              !.torn = torn]

Result(m, d, cap, cnt, err, cost) ==
    [m |-> m, d |-> d, cap |-> cap, cnt |-> cnt, err |-> err, cost |-> cost]
Quiet(m, d) == Result(m, d, {}, {}, FALSE, 0)

\* Two operations in a row; the second decides the error.
Then(rs, Op(_, _)) ==
    UNION {{[q EXCEPT !.cap = @ \cup r.cap, !.cnt = @ \cup r.cnt,
                      !.cost = @ + r.cost] : q \in Op(r.m, r.d)} : r \in rs}

\* What a rewrite keeps of the file: neither settled nor withdrawn.
StillWanted(m, d) ==
    SelectSeq(OnFile(d), LAMBDA e :
        /\ IdOf[e] \notin m.settled \/ IdOf[e] \in IdsOf(m.entries)
        /\ IdOf[e] \notin m.markedIds)

\* The mirror's generation in place of the disk's.
Current(m, e) ==
    IF IdOf[e] \in IdsOf(m.entries)
      THEN CHOOSE x \in Elems(m.entries) : IdOf[x] = IdOf[e] ELSE e

\* The merge of saveLocked: the kept records, then the rest of the mirror.
MergeKept(m, keep) ==
    [i \in 1..Len(keep) |-> Current(m, keep[i])] \o Without(m.entries, IdsOf(keep))
Merged(m, d) == MergeKept(m, StillWanted(m, d))

\* The write of record new by memory m1, whose evictions out of mirror m are
\* ours.  A landed record releases the deferred evictions, counts what was
\* uncounted and spends the withdrawal marker; a spend that fails leaves the
\* record written and the save failed.
WriteRecord(m, m1, d, new, ours) ==
    LET bad   == [m1 EXCEPT !.dirty = TRUE, !.appendable = FALSE,
                            !.deferred = @ \cup ours]
        good  == [m1 EXCEPT !.dirty = FALSE, !.appendable = TRUE,
                            !.deferred = {}, !.uncounted = {}]
        cap   == ours \cup m.deferred
        cnt   == {e \in Elems(m1.entries) : IdOf[e] \in m.uncounted}
        spent == [good EXCEPT !.marked = FALSE, !.markedIds = {}]
    IN  {Result(bad, x, {}, {}, TRUE, 1) : x \in {d, new}}
        \cup IF m.marked
               THEN {Result(spent, [new EXCEPT !.withdrawn = {}], cap, cnt, FALSE, 0)}
                    \cup {Result([good EXCEPT !.dirty = TRUE],
                                 [new EXCEPT !.withdrawn = w], cap, cnt, TRUE, 1)
                            : w \in {{}, d.withdrawn}}
               ELSE {Result(good, new, cap, cnt, FALSE, 0)}

\* The rewrite of the file with kept, the caps having taken out.
Rewrite(m, d, out, kept) ==
    WriteRecord(m,
        [m EXCEPT !.settled = @ \cup IdsOf(out), !.entries = Without(@, IdsOf(out)),
                  !.deadline = @ /\ kept # <<>>],
        d,
        [d EXCEPT !.file = [recs |-> AddRecs(kept), torn |-> FALSE,
                            deadline |-> m.deadline /\ kept # <<>>]],
        {e \in Elems(out) : IdOf[e] \in IdsOf(m.entries)})
CappedRewrite(m, d, all) ==
    Rewrite(m, d, SubSeq(all, 1, Over(all)), Drop(all, Over(all)))
saveLocked(m, d) == CappedRewrite(m, d, Merged(m, d))

\* retryPersist, and the save of an append that adds nothing.
saveIfDirty(m, d) == IF m.dirty THEN saveLocked(m, d) ELSE {Quiet(m, d)}

\* clearRetryDeadline.
clearRetryDeadline(m, d) ==
    LET m1 == [m EXCEPT !.deadline = FALSE]
    IN  IF m.deadline /\ ~m.owed THEN saveLocked(m1, d) ELSE {Quiet(m1, d)}

\* storeRetryDeadline.
storeRetryDeadline(m, d) ==
    IF m.owed THEN {Quiet(m, d)} ELSE saveLocked([m EXCEPT !.deadline = TRUE], d)

\* persistDelivery while no wipe is owed: the record is rewritten when the
\* retry clock of a spooled envelope of the request changed on the way.
persistDelivery(m, d, b) ==
    {Quiet(m, d)}
    \cup IF ~m.owed /\ Elems(b) \cap Elems(m.entries) # {}
                    /\ IdsOf(b) \cap IdsOf(OnFile(d)) # {}
           THEN saveLocked(m, d) ELSE {}

-----------------------------------------------------------------------------
(* Append.                                                                 *)

\* The mirror after the batch: one entry per id, expired ones left out.
Inserted(s, b) ==
    LET New(i) == /\ b[i] \notin stale /\ IdOf[b[i]] \notin IdsOf(s)
                  /\ \A j \in 1..(i - 1) : b[j] \in stale \/ IdOf[b[j]] # IdOf[b[i]]
        at == SelectSeq([i \in 1..Len(b) |-> i], New)
    IN  [k \in 1..Len(at) |-> b[at[k]]]

\* appendRecordsLocked failed: nothing written, a torn end, or every byte
\* written and the sync refused.
FailedAppends(d, recs) ==
    {d} \cup {[d EXCEPT !.file = Extended(@, SubSeq(recs, 1, n), n < Len(recs))]
                : n \in 0..Len(recs)}

\* Mutant: additions are counted although the rewrite failed.
RewrittenCounted(m, d, new, added, evicted) ==
    {[r EXCEPT !.cap = @ \cup Elems(evicted), !.cnt = @ \cup Elems(added)]
        : r \in saveLocked(m, d)}

\* The rewrite of an append that could not extend the file.  When it fails,
\* an eviction without a durable copy is reported now and one with a copy
\* is deferred.
Rewritten(m, d, new, added, evicted) ==
    {LET unsaved == {e \in Elems(evicted) : e \in Elems(new) \/ IdOf[e] \in r.m.uncounted}
     IN  IF ~r.err
           THEN [r EXCEPT !.cap = @ \cup Elems(evicted), !.cnt = @ \cup Elems(added)]
           ELSE [r EXCEPT !.m.uncounted = (@ \cup IdsOf(added)) \ {IdOf[e] : e \in unsaved},
                          !.m.deferred = @ \cup (Elems(evicted) \ unsaved),
                          !.cap = @ \cup unsaved]
        : r \in saveLocked(m, d)}

\* The fast path: the records go to the end of the file, and a compaction
\* may follow whose failure is not the append's.
Extends(m, d, added, evicted) ==
    LET recs == AddRecs(added) \o DropRecs(evicted)
        d1   == [d EXCEPT !.file = Extended(@, recs, FALSE)]
        done == {Quiet(m, d1)} \cup saveLocked(m, d1)
    IN  {[r EXCEPT !.err = FALSE, !.cap = @ \cup Elems(evicted),
                   !.cnt = @ \cup Elems(added)] : r \in done}

\* appendExcept, once the write gate let it pass.  word is what the failure
\* said of the retry deadline: "hint", "none", or "same" when it said nothing.
append(m, d, b, word) ==
    LET new     == Inserted(m.entries, b)
        changed == word = "hint" \/ (word = "none" /\ m.deadline)
        all     == m.entries \o new
        evicted == SubSeq(all, 1, Over(all))
        added   == SelectSeq(new, LAMBDA e : e \notin Elems(evicted))
        m1 == [m EXCEPT !.entries = Drop(all, Over(all)),
                        !.settled = @ \cup IdsOf(evicted),
                        !.deadline = IF changed THEN word = "hint" ELSE @]
        fast == /\ ~changed /\ ~m.dirty /\ m.uncounted = {}
                /\ ~m.marked /\ m.deferred = {}
                /\ m.appendable /\ d.file # NoFile
        recs == AddRecs(added) \o DropRecs(evicted)
    IN  IF new = <<>> /\ ~changed
          THEN saveIfDirty(m, d)
          ELSE Rewritten(m1, d, new, added, evicted)
               \cup IF fast
                      THEN Extends(m1, d, added, evicted)
                           \cup UNION {{[r EXCEPT !.cost = @ + 1] :
                                          r \in Rewritten(m1, x, new, added, evicted)}
                                         : x \in FailedAppends(d, recs)}
                      ELSE {}

-----------------------------------------------------------------------------
(* Settlement, withdrawal and destruction.                                 *)

\* Mutant: a removed id is not remembered as settled.
RemovedUnsettled(m, ids) ==
    [m EXCEPT !.entries = Without(@, ids), !.resend = Without(@, ids)]

\* The mirror and the resend queue without the given ids.
Removed(m, ids) ==
    [m EXCEPT !.entries = Without(@, ids), !.resend = Without(@, ids),
              !.settled = @ \cup (IdsOf(m.entries) \cap ids)]

\* ack.
ack(m, d, ids) ==
    IF IdsOf(m.entries) \cap ids = {} THEN {Quiet(m, d)}
                                     ELSE saveLocked(Removed(m, ids), d)

\* Mutant: a withdrawal leaves no marker on disk.
removeMatchingUnmarked(m, d, ids) ==
    saveLocked([m EXCEPT !.entries = Without(@, ids), !.resend = Without(@, ids),
                         !.settled = @ \cup ids], d)

\* removeMatching: the marker first, whether or not it can be written, then
\* the mirror and the record.
removeMatching(m, d, ids) ==
    LET all == d.withdrawn \cup m.markedIds \cup ids
        m1  == [m EXCEPT !.entries = Without(@, ids), !.resend = Without(@, ids),
                         !.settled = @ \cup ids, !.marked = TRUE, !.markedIds = all]
        d1  == [d EXCEPT !.withdrawn = all]
    IN  saveLocked(m1, d1)
        \cup UNION {{[r EXCEPT !.cost = @ + 1] : r \in saveLocked(m1, x)} : x \in {d, d1}}

\* Mutant: the marker is removed before the record it condemns.
settleMarkerFirst(m, d) ==
    LET bare == [d EXCEPT !.wipe = FALSE, !.withdrawn = {}]
    IN  IF ~m.owed
          THEN {Quiet(m, d)}
          ELSE {Result([m EXCEPT !.owed = FALSE, !.marked = FALSE, !.markedIds = {},
                                 !.deferred = {}],
                       [bare EXCEPT !.file = NoFile], m.deferred, {}, FALSE, 0)}
               \cup {Result(m, x, {}, {}, TRUE, 1) : x \in {d, bare}}

\* settleOwedWipeLocked: the record, a sync, then the markers and a sync.
settleOwedWipe(m, d) ==
    LET gone == [d EXCEPT !.file = NoFile]
        done == [m EXCEPT !.owed = FALSE, !.marked = FALSE, !.markedIds = {},
                          !.deferred = {}]
    IN  IF ~m.owed
          THEN {Quiet(m, d)}
          ELSE {Result(done, [gone EXCEPT !.wipe = FALSE, !.withdrawn = {}],
                       m.deferred, {}, FALSE, 0)}
               \cup {Result(m, x, {}, {}, TRUE, 1) : x \in {d, gone}}
               \cup {Result(m, [gone EXCEPT !.wipe = w, !.withdrawn = v],
                            {}, {}, TRUE, 1)
                       : w \in {FALSE, d.wipe}, v \in {{}, d.withdrawn}}

\* condemnEntriesLocked.
condemnEntries(m) ==
    [m EXCEPT !.settled = @ \cup IdsOf(m.entries), !.entries = <<>>,
              !.resend = <<>>, !.uncounted = {}, !.deadline = FALSE, !.dirty = FALSE]

\* The best effort of a failed purge to leave the wipe marker.
OwedResults(m, d, cap) ==
    {Result([m EXCEPT !.owed = TRUE], [d EXCEPT !.wipe = TRUE], cap, {}, TRUE, 1),
     Result([m EXCEPT !.owed = TRUE], d, cap, {}, TRUE, 2)}

\* purge.
purge(m, d) ==
    LET m1    == condemnEntries(m)
        freed == [m1 EXCEPT !.deferred = {}]
        clean == [freed EXCEPT !.marked = FALSE, !.markedIds = {}]
        gone  == [d EXCEPT !.file = NoFile]
        bare  == [gone EXCEPT !.withdrawn = {}]
    IN  OwedResults(m1, d, {})
        \cup UNION {OwedResults(freed, [x EXCEPT !.withdrawn = v], m.deferred)
                      : x \in {d, gone}, v \in {{}, d.withdrawn}}
        \cup {Result([clean EXCEPT !.owed = FALSE],
                     [bare EXCEPT !.wipe = @ /\ ~m.owed], m.deferred, {}, FALSE, 0)}
        \cup IF m.owed THEN {Result(clean, bare, m.deferred, {}, FALSE, 1)} ELSE {}

\* load: the live records minus the withdrawn and the expired ones, capped;
\* a persisted deadline counts while it lies ahead and entries remain.
load(d, ahead) ==
    LET all   == OnFile(d)
        good  == SelectSeq(all, LAMBDA e : IdOf[e] \notin d.withdrawn /\ e \notin stale)
        kept  == Drop(good, Over(good))
        lost  == Elems(SubSeq(good, 1, Over(good)))
        m == [NewSpool(FALSE) EXCEPT
                !.entries = kept, !.resend = kept,
                !.settled = IdsOf(all) \ IdsOf(kept),
                !.deadline = ahead /\ kept # <<>>,
                !.marked = d.withdrawn # {}, !.markedIds = d.withdrawn]
    IN  IF d.file = NoFile
          THEN {Quiet(NewSpool(FALSE), d)}
          ELSE {IF r.err THEN [r EXCEPT !.m.deferred = @ \cup lost]
                         ELSE [r EXCEPT !.cap = @ \cup lost] : r \in saveLocked(m, d)}

-----------------------------------------------------------------------------
(* The worker.                                                             *)

Init ==
    /\ disk = [file |-> NoFile, wipe |-> FALSE, withdrawn |-> {}, record |-> "none"]
    /\ mem = NewSpool(FALSE)
    /\ up = TRUE /\ consent = "unknown"
    /\ batch = <<>> /\ pc = "idle" /\ chunk = <<>> /\ cut = FALSE
    /\ dec = "idle"
    /\ fresh = Events /\ stale = {} /\ old = {}
    /\ faults = 0 /\ crashes = 0 /\ decisions = 0 /\ sweeps = 0
    /\ promised = {}
    /\ condemned = {} /\ inHand = {} /\ withdrawn = {} /\ residual = FALSE

\* A step that ends with result r; outcomes are the events it settled or
\* dead-lettered besides the capacity drops.
Apply(r, outcomes) ==
    /\ faults + r.cost <= MaxFaults
    /\ faults' = faults + r.cost
    /\ mem' = r.m /\ disk' = r.d
    /\ promised' = (promised \cup r.cnt) \ (outcomes \cup r.cap)

spoolVars == <<mem, disk, faults, promised>>
restVars  == <<up, consent, dec, boundVars, proofVars>>

\* The process ends after a step with result r.  Deferred evictions are not
\* reported.
Exit(r, outcomes) ==
    /\ Apply([r EXCEPT !.m = NewSpool(FALSE)], outcomes \cup r.m.deferred)
    /\ up' = FALSE /\ crashes' = crashes + 1
    /\ batch' = <<>> /\ pc' = "idle" /\ chunk' = <<>> /\ cut' = FALSE /\ old' = {}

\* The worker admits an accepted event to its batch.
Intake(e) ==
    /\ up /\ pc = "idle" /\ consent # "denied"
    /\ e \in fresh /\ Len(batch) < BatchSize
    /\ batch' = Append(batch, e) /\ fresh' = fresh \ {e}
    /\ UNCHANGED <<spoolVars, restVars, pc, chunk, cut, stale, old>>

\* An event passes its retry age.
Expire(e) ==
    /\ e \notin fresh /\ e \notin stale /\ Cardinality(stale) < MaxStale
    /\ stale' = stale \cup {e}
    /\ UNCHANGED <<spoolVars, restVars, batch, pc, chunk, cut, fresh, old>>

\* pullResendChunk: up to BatchSize entries that are still mirrored; expired
\* ones on the way leave the mirror, those that are not mirrored are skipped.
PullChunk ==
    /\ up /\ pc = "idle" /\ ~mem.owed /\ mem.resend # <<>>
    /\ LET seen(k) == SelectSeq(SubSeq(mem.resend, 1, k), LAMBDA e : IdOf[e] \in IdsOf(mem.entries))
           got(k)  == SelectSeq(seen(k), LAMBDA e : e \notin stale)
           Ends(k) == k = Len(mem.resend) \/ Len(got(k)) = BatchSize
           n       == CHOOSE k \in 0..Len(mem.resend) : Ends(k) /\ \A j \in 0..(k - 1) : ~Ends(j)
           taken   == got(n)
           expired == Elems(seen(n)) \cap stale
           ids     == {IdOf[e] : e \in expired}
           m1      == [Removed(mem, ids) EXCEPT !.resend = Drop(mem.resend, n)]
       IN  /\ \E r \in IF expired = {} THEN {Quiet(m1, disk)} ELSE saveLocked(m1, disk) :
                 Apply(r, expired)
           /\ chunk' = taken
           /\ pc' = IF taken = <<>> THEN "idle" ELSE "pulled"
    /\ UNCHANGED <<restVars, batch, cut, fresh, stale, old>>

\* settleExpiredAnalytics of the expired members of a request.
settleExpired(s) == ack(mem, disk, {IdOf[e] : e \in Elems(s) \cap stale})

\* The request leaves after its expired members are settled and its clocks
\* are on file; it is refused under a denial or an owed wipe.
Refused == consent = "denied" \/ mem.owed
Handoff(kept, sent) ==
    LET Fence(m, d) == persistDelivery(m, d, sent)
    IN  IF sent = <<>> \/ Refused THEN settleExpired(kept)
                                  ELSE Then(settleExpired(kept), Fence)

\* The handoff of a chunk: withdrawn facts are withheld, and a fence that
\* fails keeps the request from the wire.
SendChunk ==
    /\ up /\ pc = "pulled"
    /\ LET kept == SelectSeq(chunk, LAMBDA e : e \notin old)
           sent == SelectSeq(kept, LAMBDA e : e \notin stale)
       IN  \E r \in Handoff(kept, sent) :
             /\ Apply(r, Elems(kept) \cap stale)
             /\ chunk' = IF Refused THEN <<>> ELSE sent
             /\ pc' = IF chunk' = <<>> THEN "idle"
                      ELSE IF r.err THEN "chunkUnsent" ELSE "chunk"
    /\ UNCHANGED <<restVars, batch, cut, fresh, stale, old>>

\* A request that certainly was not accepted: its clocks are taken back, and
\* a failure of that is not the request's.
TakenBack(b) == persistDelivery(mem, disk, b)

\* The chunk was answered: delivered or rejected event by event, or refused
\* as a whole.  Either way it comes off the spool.
ChunkSettled(delivered) ==
    /\ up /\ pc = "chunk"
    /\ LET Ack(m, d) == ack(m, d, IdsOf(chunk))
       IN  \E r \in IF delivered THEN Then(clearRetryDeadline(mem, disk), Ack)
                                 ELSE Then(TakenBack(chunk), Ack) :
               Apply(r, Elems(mem.entries) \ Elems(r.m.entries))
    /\ pc' = "idle" /\ chunk' = <<>> /\ cut' = FALSE
    /\ UNCHANGED <<restVars, batch, fresh, stale, old>>

\* Mutant: the failed chunk is not put back.
ChunkRetryableLost(word) ==
    /\ up /\ pc \in {"chunk", "chunkUnsent"} /\ word = "none"
    /\ pc' = "idle" /\ chunk' = <<>> /\ cut' = FALSE
    /\ UNCHANGED <<spoolVars, restVars, batch, fresh, stale, old>>

\* A retriable failure: the deadline is stored or withdrawn and the chunk
\* goes back to the front of the queue.
ChunkRetryable(word) ==
    /\ up /\ pc \in {"chunk", "chunkUnsent"}
    /\ pc = "chunkUnsent" => word = "none"
    /\ LET Pace(m, d) == CASE word = "hint" -> storeRetryDeadline(m, d)
                           [] word = "none" -> clearRetryDeadline(m, d)
                           [] word = "same" -> {Quiet(m, d)}
       IN  \E r \in IF pc = "chunk" THEN Then(TakenBack(chunk), Pace)
                                    ELSE Pace(mem, disk) :
          LET kept == SelectSeq(chunk, LAMBDA e : IdOf[e] \in IdsOf(r.m.entries))
          IN  Apply([r EXCEPT !.m.resend = kept \o @], {})
    /\ pc' = "idle" /\ chunk' = <<>> /\ cut' = FALSE
    /\ UNCHANGED <<restVars, batch, fresh, stale, old>>

\* A denial aborted the request: what the worker had in hand is dropped.  The
\* worker's own publish also settles the batch's spooled copies, a flush and
\* a resend leave them to the purge.
Aborted(settles) ==
    /\ up /\ pc \in {"chunk", "batch"} /\ cut
    /\ settles => pc = "batch"
    /\ \E r \in IF settles THEN ack(mem, disk, IdsOf(batch)) ELSE {Quiet(mem, disk)} :
          Apply(r, Elems(mem.entries) \ Elems(r.m.entries))
    /\ batch' = IF pc = "batch" THEN <<>> ELSE batch
    /\ pc' = "idle" /\ chunk' = <<>> /\ cut' = FALSE
    /\ UNCHANGED <<restVars, fresh, stale, old>>

\* publishWorkerBatch after the resend: withdrawn facts leave the batch,
\* expired members are settled, and the rest is sent.
SendBatch ==
    /\ up /\ pc = "idle" /\ batch # <<>>
    /\ mem.owed \/ mem.resend = <<>>
    /\ consent # "denied"
    /\ LET kept == SelectSeq(batch, LAMBDA e : e \notin old)
           sent == SelectSeq(kept, LAMBDA e : e \notin stale)
       IN  \E r \in Handoff(kept, sent) :
             /\ Apply(r, Elems(kept) \cap stale)
             /\ batch' = IF Refused THEN <<>> ELSE sent
             /\ pc' = IF batch' = <<>> THEN "idle"
                      ELSE IF r.err THEN "batchUnsent" ELSE "batch"
    /\ UNCHANGED <<restVars, chunk, cut, fresh, stale, old>>

\* The batch was delivered, or refused for good.
BatchSettled(delivered) ==
    /\ up /\ pc = "batch"
    /\ LET Ack(m, d) == ack(m, d, IdsOf(batch))
       IN  \E r \in IF delivered THEN Then(clearRetryDeadline(mem, disk), Ack)
                                 ELSE Then(TakenBack(batch), Ack) :
               Apply(r, Elems(batch) \cup (Elems(mem.entries) \ Elems(r.m.entries)))
    /\ pc' = "idle" /\ batch' = <<>> /\ cut' = FALSE
    /\ UNCHANGED <<restVars, chunk, fresh, stale, old>>

\* spoolFailedBatch: an owed wipe is retried, withdrawn facts are filtered,
\* and a closed write gate dead-letters the batch instead.
spoolFailedBatch(m, d, b, word) ==
    LET Write(m1, d1) == IF m1.owed \/ ~m1.granted \/ consent # "granted"
                           THEN {Quiet(m1, d1)}
                           ELSE append(m1, d1, b, word)
    IN  IF b = <<>> THEN {Quiet(m, d)} ELSE Then(settleOwedWipe(m, d), Write)

\* A retriable failure: the batch is spooled and stays with the worker.
BatchRetryable(word) ==
    /\ up /\ pc \in {"batch", "batchUnsent"}
    /\ pc = "batchUnsent" => word = "none"
    /\ LET b == SelectSeq(batch, LAMBDA e : e \notin old)
           Spool(m, d) == spoolFailedBatch(m, d, b, word)
       IN  \E r \in IF pc = "batch" THEN Then(TakenBack(batch), Spool)
                                    ELSE Spool(mem, disk) :
              Apply(r, Elems(b) \cap stale)
    /\ pc' = "idle" /\ cut' = FALSE
    /\ batch' = IF Elems(batch) \cap inHand = {} THEN batch ELSE <<>>
    /\ UNCHANGED <<restVars, chunk, fresh, stale, old>>

\* spoolMaintain on the flush cadence.
Upkeep(m, d) ==
    LET Persist(m1, d1) == IF m1.owed THEN {Quiet(m1, d1)} ELSE saveIfDirty(m1, d1)
    IN  Then(settleOwedWipe(m, d), Persist)

Tick ==
    /\ up /\ pc = "idle"
    /\ \E r \in Upkeep(mem, disk) : Apply(r, {})
    /\ UNCHANGED <<restVars, workVars>>

\* spoolCloseRemnant when the worker stops: what it holds is spooled.
CloseRemnant ==
    /\ up /\ pc = "idle" /\ crashes < MaxCrashes
    /\ LET b == SelectSeq(batch, LAMBDA e : e \notin old)
       IN  \E r \in spoolFailedBatch(mem, disk, b, "same") : Apply(r, Elems(b) \cap stale)
    /\ batch' = <<>> /\ pc' = "closing"
    /\ UNCHANGED <<restVars, chunk, cut, fresh, stale, old>>

\* The final upkeep, then the process exits.
CloseExit ==
    /\ up /\ pc = "closing" /\ dec = "idle" /\ crashes < MaxCrashes
    /\ \E r \in Upkeep(mem, disk) : Exit(r, {})
    /\ UNCHANGED <<consent, dec, decisions, sweeps, proofVars, fresh, stale>>

-----------------------------------------------------------------------------
(* The sentinel, decisions, crashes and restarts.                          *)

\* purgeWithdrawnExperimentFacts: every fact built so far is withdrawn.
Withdraw ==
    /\ up /\ sweeps < MaxSweeps
    /\ sweeps' = sweeps + 1
    /\ old' = Facts \ fresh
    /\ LET hit == Elems(mem.entries) \cap old'
       IN  \E r \in IF hit = {} THEN {Quiet(mem, disk)}
                                ELSE removeMatching(mem, disk, {IdOf[e] : e \in hit}) :
               /\ Apply(r, hit)
               /\ withdrawn' = IF r.err /\ r.cost > 1 THEN withdrawn
                                                      ELSE withdrawn \cup hit
    /\ UNCHANGED <<up, consent, dec, crashes, decisions, condemned, inHand,
                   residual, batch, pc, chunk, cut, fresh, stale>>

\* A denial takes effect: the request in flight is aborted, and the worker
\* drops its batch when it next looks at the epoch.
Deny ==
    /\ up /\ dec = "idle" /\ decisions < MaxDecisions
    /\ decisions' = decisions + 1
    /\ consent' = "denied" /\ dec' = "record"
    /\ cut' = (pc \in {"chunk", "batch"})
    /\ LET sending == pc \in {"batch", "batchUnsent"}
       IN  /\ inHand' = inHand \cup Elems(chunk) \cup (IF sending THEN Elems(batch) ELSE {})
           /\ batch' = IF sending THEN batch ELSE <<>>
    /\ UNCHANGED <<spoolVars, up, crashes, sweeps, condemned, withdrawn, residual,
                   pc, chunk, fresh, stale, old>>

decideVars == <<up, consent, boundVars, inHand, withdrawn, workVars>>

\* saveConsentRecord, which may fail with the old or the new record in place.
SaveRecord(decision, m) ==
    {Quiet(m, [disk EXCEPT !.record = decision])}
    \cup {Result(m, [disk EXCEPT !.record = x], {}, {}, TRUE, 1)
            : x \in {disk.record, decision}}

\* The denied record goes before the purge.
DenyRecord ==
    /\ up /\ dec = "record"
    /\ \E r \in SaveRecord("denied", [mem EXCEPT !.granted = FALSE]) :
          /\ Apply(r, {})
          /\ dec' = IF r.err THEN "owe" ELSE "purge"
    /\ UNCHANGED <<decideVars, condemned, residual>>

\* Without a record the mirror is condemned and the wipe marker left.
DenyOwe ==
    /\ up /\ dec = "owe"
    /\ LET m == [condemnEntries(mem) EXCEPT !.owed = TRUE]
           d == [disk EXCEPT !.wipe = TRUE]
       IN  \E r \in {Quiet(m, d)} \cup {Result(m, x, {}, {}, TRUE, 1) : x \in {disk, d}} :
             /\ Apply(r, Elems(mem.entries))
             /\ dec' = IF r.err THEN "retry" ELSE "idle"
    /\ condemned' = condemned \cup Elems(mem.entries)
    /\ UNCHANGED <<decideVars, residual>>

\* Without a marker the record is tried again, then the file is destroyed.
DenyRetry ==
    /\ up /\ dec = "retry"
    /\ \E r \in SaveRecord("denied", mem) :
          /\ Apply(r, {})
          /\ dec' = IF r.err THEN "destroy" ELSE "purge"
    /\ UNCHANGED <<decideVars, condemned, residual>>

DenyDestroy ==
    /\ up /\ dec = "destroy"
    /\ \E r \in settleOwedWipe(mem, disk) :
          Apply(r, {}) /\ residual' = (residual \/ r.err)
    /\ dec' = "idle"
    /\ UNCHANGED <<decideVars, condemned>>

DenyPurge ==
    /\ up /\ dec = "purge"
    /\ \E r \in purge(mem, disk) : Apply(r, Elems(mem.entries))
    /\ condemned' = condemned \cup Elems(mem.entries)
    /\ dec' = "idle"
    /\ UNCHANGED <<decideVars, residual>>

\* A grant settles an owed wipe first, and is refused while it is owed.
Grant ==
    /\ up /\ dec = "idle" /\ decisions < MaxDecisions
    /\ decisions' = decisions + 1
    /\ \E r \in settleOwedWipe(mem, disk) :
          /\ Apply(r, {})
          /\ dec' = IF r.err THEN "idle" ELSE "grant"
          /\ consent' = IF r.err THEN consent ELSE "granted"
    /\ UNCHANGED <<up, crashes, sweeps, proofVars, workVars>>

\* Only a persisted grant opens the spool.
GrantRecord ==
    /\ up /\ dec = "grant"
    /\ \E r \in SaveRecord("granted", mem) :
          Apply([r EXCEPT !.m.granted = ~r.err], {})
    /\ dec' = "idle"
    /\ UNCHANGED <<decideVars, condemned, residual>>

\* A crash loses the memory; a denial without proof on disk is forgotten.
Crash ==
    /\ up /\ crashes < MaxCrashes
    /\ Exit(Quiet(mem, disk), {})
    /\ residual' = (residual \/ dec \in {"retry", "destroy"})
    /\ dec' = "idle"
    /\ UNCHANGED <<consent, decisions, sweeps, condemned, inHand, withdrawn, fresh, stale>>

\* initSpool: an owed wipe first, then load under a persisted grant and
\* purge, reporting what is on file, under anything else.
initSpool(ahead) ==
    LET Start(m, d) ==
            IF m.owed THEN {Quiet(m, d)}
            ELSE IF d.record = "granted" THEN load(d, ahead)
            ELSE purge(m, d)
    IN  Then(settleOwedWipe(NewSpool(disk.wipe), disk), Start)

Restart ==
    /\ ~up /\ up' = TRUE
    /\ consent' = "unknown"
    /\ \E ahead \in {FALSE, disk.file # NoFile /\ disk.file.deadline} :
       \E r \in initSpool(ahead) :
          Apply(r, IF disk.record = "granted" THEN stale ELSE Elems(OnFile(disk)))
    /\ UNCHANGED <<dec, boundVars, proofVars, workVars>>

Worker ==
    \/ \E e \in Events : Intake(e)
    \/ PullChunk \/ SendChunk \/ SendBatch
    \/ \E ok \in BOOLEAN : ChunkSettled(ok) \/ BatchSettled(ok) \/ Aborted(ok)
    \/ \E word \in {"hint", "none", "same"} : ChunkRetryable(word) \/ BatchRetryable(word)
    \/ Tick \/ CloseRemnant \/ CloseExit

Decide ==
    \/ Deny \/ DenyRecord \/ DenyOwe \/ DenyRetry \/ DenyDestroy \/ DenyPurge
    \/ Grant \/ GrantRecord

Next ==
    \/ Worker \/ Decide \/ Withdraw \/ Crash \/ Restart
    \/ \E e \in Events : Expire(e)

Spec == Init /\ [][Next]_vars

\* The worker's loop and its timer run, a call of SetConsent proceeds, the
\* host starts the program again, and the service answers in the end.
FairSpec ==
    /\ Spec
    /\ WF_vars(PullChunk) /\ WF_vars(SendChunk) /\ WF_vars(SendBatch)
    /\ WF_vars(pc = "chunkUnsent" /\ ChunkRetryable("none"))
    /\ WF_vars(pc = "batchUnsent" /\ BatchRetryable("none"))
    /\ WF_vars(Aborted(FALSE)) /\ WF_vars(Tick) /\ WF_vars(CloseExit)
    /\ WF_vars(Restart)
    /\ WF_vars(\/ DenyRecord \/ DenyOwe \/ DenyRetry \/ DenyDestroy \/ DenyPurge
               \/ GrantRecord)
    /\ SF_vars(ChunkSettled(TRUE)) /\ SF_vars(BatchSettled(TRUE))

-----------------------------------------------------------------------------
(* Properties.                                                             *)

Distinct(s) == Cardinality(IdsOf(s)) = Len(s)

\* What the next start would put into the resend queue.
Loadable ==
    IF disk.record = "granted" /\ ~disk.wipe
      THEN {e \in Elems(OnFile(disk)) : IdOf[e] \notin disk.withdrawn}
      ELSE {}

\* Types; the mirror is within the caps (evictOverCapsLocked) and holds an
\* event_id once (ids).
TypeOK ==
    /\ Elems(mem.entries) \cup Elems(mem.resend) \cup Elems(chunk) \subseteq Events
    /\ Len(mem.entries) <= MaxEvents /\ Distinct(mem.entries)
    /\ Len(chunk) <= BatchSize /\ Len(batch) <= BatchSize
    /\ mem.settled \cup mem.markedIds \cup mem.uncounted \cup disk.withdrawn \subseteq Ids
    /\ mem.deferred \cup promised \cup condemned \cup withdrawn \subseteq Events
    /\ consent \in {"unknown", "granted", "denied"}
    /\ disk.record \in {"none", "granted", "denied"}
    /\ pc \in {"idle", "pulled", "chunk", "chunkUnsent", "batch", "batchUnsent", "closing"}
    /\ dec \in {"idle", "record", "owe", "retry", "destroy", "purge", "grant"}

\* Stats.Spooled counts durable events only (spoolFailedBatch, takeBecameDurable):
\* an event that was counted and has had no final outcome is on file, where a
\* crash at any instant leaves it to the next start.  An eviction that waits
\* for its removing rewrite is no longer promised, and neither is a second
\* generation of an id: the marker of a withdrawn first one may outlive it.
SpooledSurvives ==
    \A e \in promised \ mem.deferred :
        (\A x \in Events \ (fresh \cup {e}) : IdOf[x] # IdOf[e]) =>
            /\ e \in Elems(OnFile(disk))
            /\ ~disk.wipe /\ IdOf[e] \notin disk.withdrawn

\* The file and the mirror never disagree about an event's fate: with nothing
\* left to write, the next load finds the mirror's envelopes, in its order
\* unless a new generation took the place of its predecessor, and its retry
\* deadline.  Nothing settled, evicted or withdrawn is merged back.
SpoolInSync ==
    up /\ ~mem.dirty /\ ~mem.owed =>
        /\ Elems(OnFile(disk)) = Elems(mem.entries)
        /\ Cardinality(Ids) = Cardinality(Events) => OnFile(disk) = mem.entries
        /\ mem.deadline = (disk.file # NoFile /\ disk.file.deadline)

\* Events a denial condemned never load again, whatever writes fail and
\* whatever decision follows (applySpoolConsent): outside the denial that is
\* still looking for a durable proof, and the residual without any, they are
\* neither mirrored nor loadable.  What the worker had in hand is apart.
CondemnedNeverLoads ==
    residual \/ dec \in {"retry", "destroy"} \/
    (condemned \ inHand) \cap (Elems(mem.entries) \cup Loadable) = {}

\* A withdrawal whose marker or clean record landed is terminal: no crash,
\* failed write or later append brings the fact back (removeMatching, load).
WithdrawnNeverLoads ==
    withdrawn \cap (Elems(mem.entries) \cup Loadable) = {}

\* Every event counted as spooled gets its outcome: delivered, refused,
\* expired, evicted or purged, whatever crashes and failures come first.
\* What the worker held across a denial waits for the next start.
SpooledSettles ==
    \A e \in Events : e \in promised \ inHand ~> e \notin promised \ inHand

=============================================================================
