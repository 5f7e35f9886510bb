-------------------------- MODULE ExperimentStore ---------------------------
(***************************************************************************)
(* The durable side of the experiment assignments (experiments.go): the    *)
(* entries held in memory, the record file they are saved in, the writes   *)
(* and drops that are owed after a failed save, the owed clear with its    *)
(* tombstone file, the subject file, and the history of fact keys that a   *)
(* withdrawal has to know.  e.mu is held over every operation, the saves   *)
(* it makes included, so only a crash comes between a save and what        *)
(* follows it; a save that is under way is the job.                        *)
(*                                                                         *)
(* An entry is [id, at, hid]: id numbers the assignments (each has a fact  *)
(* key of its own, named by the id), at is FetchedAtMS, hid says that its  *)
(* unit is client_id and it declares no age, which a restart does not load.*)
(* A scope is a subject id, numbered as it is minted and never used twice. *)
(* The verdicts that cause the operations are the environment here and the *)
(* subject of ExperimentAssignments.                                       *)
(***************************************************************************)
EXTENDS Integers, FiniteSets

CONSTANTS
    Keys,          \* experiments
    Clocks,        \* what the wall clock may read
    None,
    MaxInstalls, MaxScopes, MaxTurns, MaxFaults   \* bounds

Scopes == 1..MaxScopes

Entries == [id : 1..MaxInstalls, at : Nat, hid : BOOLEAN]
Intents == [asOf : Nat, drop : BOOLEAN, capture : BOOLEAN]
Clears == [asOf : Nat, scope : Scopes]
Held == [Keys -> Entries \union {None}]
Owed == [Scopes \X Keys -> Intents \union {None}]
Histories == [Keys -> SUBSET Nat]
Records == [scope : Scopes, ents : Held, hist : Histories]
Mirrors == [keys : [Keys -> Nat], hist : Histories, durable : BOOLEAN]
Facts == [of : Scopes \X Keys \X Nat, filed : BOOLEAN]
Jobs == [rec : Records, onOK : Owed, onFail : Owed, without : Keys \union {None},
         emit : SUBSET Facts]
Disks == [rec : Records \union {None}, tomb : Scopes \union {None}, subj : Scopes]
Counts == [ids : 0..MaxInstalls, scopes : Scopes, faults : Nat, turns : Nat]

ASSUME ExperimentStoreAssumption ==
    /\ Clocks \subseteq Nat
    /\ {MaxInstalls, MaxFaults, MaxTurns} \subseteq Nat /\ MaxScopes \in Nat \ {0}
    /\ None \notin Keys /\ None \notin Scopes /\ None \notin Entries /\ None \notin Intents
    /\ None \notin Clears /\ None \notin Records /\ None \notin Mirrors /\ None \notin Jobs

VARIABLES
    mem, kept,   \* entries and latchRetained
    pend,        \* durablePending, by scope and experiment
    clear,       \* durableClearPending with its asOf and scope
    mir, ret,    \* factKeys and retiredFactKeys
    scope,       \* the scope of the current subject
    disk,        \* the record, the tombstone and the subject file
    job,         \* the save under way
    lane,        \* how far retryDurableSync has come
    used,        \* installs, subjects minted, faults and turns so far
    gone,        \* history: the last assignment a verdict has withdrawn, by key
    given,       \* the assignments that facts may still be built for
    emitted      \* the facts built, by scope, experiment and key, until they are
                 \* settled or a clear forgets every key

vol == <<mem, kept, pend, clear, mir, ret, scope, lane>>
vars == <<vol, disk, job, used, gone, given, emitted>>

Nothing == [k \in Keys |-> None]
NoPend == [x \in Scopes \X Keys |-> None]
NoKeys == [s \in Scopes |-> [k \in Keys |-> {}]]

\* durableRecordForLocked: the stored record of this scope, empty when it is
\* absent or condemned.
RecordFor(s) ==
    IF disk.rec # None /\ disk.rec.scope = s /\ disk.tomb # s THEN disk.rec
    ELSE [scope |-> s, ents |-> Nothing, hist |-> [k \in Keys |-> {}]]

\* newFactKeyMirror.
MirrorOf(r) ==
    [keys |-> [k \in Keys |-> IF r.ents[k] = None THEN 0 ELSE r.ents[k].id],
     hist |-> r.hist, durable |-> TRUE]

\* factKeyMirrorLocked: the mirror of the current scope, built on first use.
Mirror == IF mir # None THEN mir ELSE MirrorOf(RecordFor(scope))

\* preload: the record is loaded unless it is another scope's or condemned.
Loads == disk.rec # None /\ disk.rec.scope = disk.subj /\ disk.tomb # disk.rec.scope
Preloaded == [k \in Keys |->
    IF ~Loads \/ disk.rec.ents[k] = None THEN None
    ELSE IF disk.rec.ents[k].hid THEN None ELSE disk.rec.ents[k]]

Init ==
    /\ mem = Nothing /\ kept = Nothing /\ pend = NoPend /\ clear = None
    /\ mir = None /\ ret = NoKeys /\ scope = 1 /\ lane = "idle" /\ job = None
    /\ disk = [rec |-> None, tomb |-> None, subj |-> 1]
    /\ used = [ids |-> 0, scopes |-> 1, faults |-> 0, turns |-> 0]
    /\ gone = [k \in Keys |-> 0] /\ given = {} /\ emitted = {}

Idle == job = None /\ lane = "idle"
Turn == used.turns < MaxTurns /\ used' = [used EXCEPT !.turns = @ + 1]
Fault == used.faults < MaxFaults /\ used' = [used EXCEPT !.faults = @ + 1]

-----------------------------------------------------------------------------
(* Saving the record.                                                      *)

\* Mutant: the fact key of a replaced entry is forgotten.
RetireNone(keys, r, k) == {}

\* retireFactKeysLocked: the key that entry k no longer has in r.
Retire(keys, r, k) ==
    IF keys[k] = 0 \/ (r.ents[k] # None /\ r.ents[k].id = keys[k]) THEN {} ELSE {keys[k]}

\* saveDurableRecordLocked up to the write: the record takes over the key
\* history, and the mirror of the current scope follows.  onOK and onFail are
\* the intents owed afterwards; without names the experiment that a failed
\* save is repeated without.
StartSave(r, m, onOK, onFail, without) ==
    LET hist == [k \in Keys |-> m.hist[k] \union Retire(m.keys, r, k)]
    IN  /\ job' = [rec |-> [r EXCEPT !.hist = hist], onOK |-> onOK, onFail |-> onFail,
                   without |-> without, emit |-> {}]
        /\ mir' = IF r.scope # scope THEN mir
                  ELSE [MirrorOf([r EXCEPT !.hist = hist]) EXCEPT !.durable = FALSE]

\* writeDurableRecordLocked: the record and then the tombstone's removal.
SaveLands ==
    /\ job # None
    /\ disk' = [disk EXCEPT !.rec = job.rec, !.tomb = None]
    /\ pend' = job.onOK
    /\ mir' = IF job.rec.scope = scope /\ mir # None THEN [mir EXCEPT !.durable = TRUE] ELSE mir
    /\ emitted' = emitted \union job.emit
    /\ job' = None
    /\ UNCHANGED <<mem, kept, clear, ret, scope, lane, used, gone, given>>

\* The save fails: before the rename, after it, or at the tombstone's
\* removal, which may itself have happened.  A failed write of an entry that
\* the record had before is followed by an attempt to store the others.
SaveFails(landed, cleared) ==
    /\ job # None /\ Fault /\ (cleared => landed)
    /\ disk' = [disk EXCEPT !.rec = IF landed THEN job.rec ELSE @,
                            !.tomb = IF cleared THEN None ELSE @]
    /\ pend' = job.onFail
    /\ IF job.without = None
         THEN job' = None /\ UNCHANGED mir
         ELSE StartSave([job.rec EXCEPT !.ents[job.without] = None], Mirror,
                        job.onFail, job.onFail, None)
    /\ UNCHANGED <<mem, kept, clear, ret, scope, lane, gone, given, emitted>>

-----------------------------------------------------------------------------
(* syncDurableEntryLocked.                                                 *)

Captures(p, x) == p[x] # None /\ p[x].capture

\* What the owed intent q makes of the stored entry old when memory holds e.
FoldEntry(old, q, e) ==
    IF q = None THEN old
    ELSE IF q.capture THEN old
    ELSE IF q.drop THEN IF old # None /\ old.at > q.asOf THEN old ELSE None
    ELSE IF e = None \/ (old # None /\ old.at > e.at) THEN old ELSE e

\* foldOwedIntentsLocked: what the other owed intents of the scope make of r.
Fold(r, p, m, k) ==
    [r EXCEPT !.ents = [j \in Keys |->
        IF j = k THEN r.ents[j] ELSE FoldEntry(r.ents[j], p[<<r.scope, j>>], m[j])]]

\* The intents that such a fold settles are no longer owed.
Folded(p, s, k) ==
    [x \in DOMAIN p |->
        IF x[1] = s /\ x[2] # k /\ p[x] # None /\ ~Captures(p, x) THEN None ELSE p[x]]

\* The owed intent q, no longer held back by its capture.
Released(q) == IF q = None THEN None ELSE [q EXCEPT !.capture = FALSE]

\* The stamp of a new entry, above the stored one and above an owed intent.
Raised(at, stored, owed) ==
    LET a == IF stored # None /\ stored.at > at THEN stored.at + 1 ELSE at
    IN  IF owed # None /\ owed.asOf >= a THEN owed.asOf + 1 ELSE a

\* m holds the entry of k, p the intents; r is the record for the scope.
SyncEntry(k, m, p, r) ==
    LET x == <<scope, k>>
    IN  StartSave(Fold([r EXCEPT !.ents[k] = m[k]], p, m, k), Mirror,
                  [Folded(p, scope, k) EXCEPT ![x] = IF Captures(p, x) THEN @ ELSE None],
                  [p EXCEPT ![x] = [asOf |-> m[k].at, drop |-> FALSE, capture |-> Captures(p, x)]],
                  IF r.ents[k] = None THEN None ELSE k)

DropStamp(asOf, old) == IF old # None /\ old.at >= asOf THEN old.at + 1 ELSE asOf

\* k has no entry: it is removed from the record, or only its fact key is
\* moved to the history when the record lacks it already.
SyncDrop(k, asOf, m, p, r) ==
    LET x == <<scope, k>>
        settled == [p EXCEPT ![x] = IF Captures(p, x) THEN @ ELSE None]
    IN  \/ /\ r.ents[k] # None
           /\ StartSave(Fold([r EXCEPT !.ents[k] = None], p, m, k), Mirror,
                [Folded(p, scope, k) EXCEPT ![x] = IF Captures(p, x) THEN @ ELSE None],
                [p EXCEPT ![x] = [asOf |-> DropStamp(asOf, r.ents[k]), drop |-> TRUE,
                                  capture |-> Captures(p, x)]], None)
           /\ pend' = p
        \/ /\ r.ents[k] = None
           /\ pend' = settled
           /\ IF \E j \in Keys : Retire(Mirror.keys, r, j) # {}
                THEN StartSave(r, Mirror, settled, settled, None)
                ELSE UNCHANGED <<job, mir>>

-----------------------------------------------------------------------------
(* What the verdicts do (installLocked).                                   *)

\* liftAuthLatchLocked: the retained entries serve again.
Lifted == [k \in Keys |-> IF mem[k] = None THEN kept[k] ELSE mem[k]]

\* Mutant: an owed clear is dropped when an assignment is installed.
DemotedAway(p, m) == p

\* demoteOwedClearLocked: an owed clear becomes one owed drop for each stored
\* entry that memory does not hold.
Demoted(p, m) ==
    IF \/ clear = None \/ disk.rec = None
       \/ (clear # None /\ disk.rec # None /\ disk.rec.scope # clear.scope)
      THEN p
    ELSE [x \in DOMAIN p |->
            IF x[1] = disk.rec.scope /\ disk.rec.ents[x[2]] # None /\ m[x[2]] = None
              THEN [asOf |-> DropStamp(clear.asOf, disk.rec.ents[x[2]]), drop |-> TRUE,
                    capture |-> FALSE]
              ELSE p[x]]

\* A fresh assignment: the latch lifts, the entry is held, an owed clear is
\* demoted and the record is saved.
Install(k, now, hid) ==
    LET r == RecordFor(scope)
        new(p) == [id |-> used.ids + 1, hid |-> hid,
                   at |-> Raised(now, r.ents[k], p[<<scope, k>>])]
        owed == Demoted(pend, [Lifted EXCEPT ![k] = [id |-> 0]])
        held == [Lifted EXCEPT ![k] = new(owed)]
    IN  /\ Idle /\ used.ids < MaxInstalls
        /\ used' = [used EXCEPT !.ids = @ + 1]
        /\ mem' = held /\ kept' = Nothing /\ clear' = None
        /\ SyncEntry(k, held, owed, r)
        /\ pend' = owed
        /\ given' = given \union {<<scope, k, used.ids + 1>>}
        /\ UNCHANGED <<ret, scope, lane, disk, gone, emitted>>

\* Mutant: a drop leaves the entry that the auth latch retains.
DroppedServing(f, k) == f

Dropped(f, k) == [f EXCEPT ![k] = None]

\* The record's entry of k is stamped above asOf.
Outranked(k, asOf) ==
    LET e == RecordFor(scope).ents[k] IN (IF e = None THEN 0 ELSE e.at) > asOf

\* A verdict that ends an assignment (applyEntryDropLocked) or an age refusal
\* (applyAgeWithdrawalLocked).  A drop first captures the owed applications in
\* the spool; when that fails nothing is removed from the record yet.  An age
\* withdrawal may empty an earlier capture.  An owed drop is stamped above
\* the entry memory served, not above one the record alone still has: its
\* retry then yields to that entry (DropOutranks), which gone leaves out.
Drop(k, now, how, lifts) ==
    LET m    == IF lifts THEN Lifted ELSE mem
        kp   == IF lifts THEN Nothing ELSE kept
        left == [m EXCEPT ![k] = None]
        x    == <<scope, k>>
        asOf == DropStamp(now, m[k])
    IN  /\ Idle /\ Turn
        /\ mem' = left /\ kept' = Dropped(kp, k)
        /\ gone' = [gone EXCEPT ![k] =
              IF how = "uncaptured" /\ Outranked(k, asOf) THEN 0 ELSE used.ids]
        /\ \/ /\ how = "uncaptured"
              /\ pend' = [pend EXCEPT ![x] = [asOf |-> asOf, drop |-> TRUE, capture |-> TRUE]]
              /\ UNCHANGED <<job, mir>>
           \/ /\ how = "captured"
              /\ SyncDrop(k, asOf, left, pend, RecordFor(scope))
           \/ /\ how = "age"
              /\ SyncDrop(k, asOf, left, [pend EXCEPT ![x] = Released(@)], RecordFor(scope))
        /\ UNCHANGED <<clear, ret, scope, lane, disk, given, emitted>>

\* clearDurableRecordLocked by its outcomes: the record may be removed and
\* the tombstone with it although the call reports a failure.
ClearOutcomes ==
    {[rec |-> None, tomb |-> None, ok |-> TRUE],
     [rec |-> disk.rec, tomb |-> disk.tomb, ok |-> FALSE],
     [rec |-> None, tomb |-> disk.tomb, ok |-> FALSE],
     [rec |-> None, tomb |-> None, ok |-> FALSE]}

\* writeCondemnationTombstoneLocked, when its write lands.
Tombstone(s) == s

\* applySentinelWithdrawalLocked: everything goes, with the facts built so
\* far; a clear that fails is owed and marked by the tombstone.
Sentinel(now, out, marked) ==
    /\ Idle /\ used.turns < MaxTurns
    /\ used' = [used EXCEPT !.turns = @ + 1, !.faults = @ + (IF out.ok THEN 0 ELSE 1)
                                                + (IF marked THEN 0 ELSE 1)]
    /\ used'.faults <= MaxFaults /\ (out.ok => marked)
    /\ mem' = Nothing /\ kept' = Nothing /\ mir' = None /\ ret' = NoKeys
    /\ gone' = [k \in Keys |-> used.ids] /\ emitted' = {} /\ given' = {}
    /\ \/ /\ out.ok
          /\ disk' = [disk EXCEPT !.rec = out.rec, !.tomb = out.tomb]
          /\ pend' = NoPend /\ UNCHANGED clear
       \/ /\ ~out.ok
          /\ disk' = [disk EXCEPT !.rec = out.rec,
                                  !.tomb = IF marked THEN Tombstone(scope) ELSE out.tomb]
          /\ clear' = [asOf |-> now, scope |-> scope]
          /\ pend' = [x \in DOMAIN pend |->
                IF x[1] = scope THEN Released(pend[x]) ELSE pend[x]]
    /\ UNCHANGED <<scope, lane, job>>

\* What latchAuthLocked leaves in entries.
Latched(m) == Nothing

\* latchAuthLocked: nothing is served, everything is retained, owed writes
\* are cancelled and owed drops are kept.  The record then keeps whatever it
\* has for a cancelled write, a dropped entry included (gone forgets it).
Latch ==
    /\ Idle /\ Turn
    /\ kept' = Lifted /\ mem' = Latched(mem)
    /\ pend' = [x \in DOMAIN pend |-> IF pend[x] # None /\ ~pend[x].drop THEN None ELSE pend[x]]
    /\ gone' = [k \in Keys |->
          IF pend[<<scope, k>>] # None /\ ~pend[<<scope, k>>].drop THEN 0 ELSE gone[k]]
    /\ UNCHANGED <<clear, mir, ret, scope, lane, disk, job, given, emitted>>

\* adoptMintedSubjectIDLocked after a rejected subject id: the new subject
\* starts empty; the tombstone covers a subject file that was not written,
\* or whose write failed after it landed.
\* The mirror of the old scope is retired (retireStaleFactKeysLocked).
Remint(filed, landed, marked) ==
    /\ Idle /\ used.turns < MaxTurns /\ used.scopes < MaxScopes
    /\ used' = [used EXCEPT !.turns = @ + 1, !.scopes = @ + 1,
                             !.faults = @ + (IF filed THEN 0 ELSE 1)
                                          + (IF filed \/ marked THEN 0 ELSE 1)]
    /\ used'.faults <= MaxFaults /\ (filed => landed /\ ~marked)
    /\ scope' = used.scopes + 1
    /\ mem' = Nothing /\ kept' = Nothing
    /\ pend' = [x \in DOMAIN pend |-> IF pend[x] # None /\ ~pend[x].drop THEN None ELSE pend[x]]
    /\ mir' = None
    /\ ret' = IF mir = None THEN ret
              ELSE [ret EXCEPT ![scope] = [k \in Keys |->
                      @[k] \union mir.hist[k] \union ({mir.keys[k]} \ {0})]]
    /\ gone' = [k \in Keys |-> used.ids]
    /\ disk' = [disk EXCEPT !.subj = IF landed THEN used.scopes + 1 ELSE @,
                            !.tomb = IF marked THEN Tombstone(scope) ELSE @]
    /\ UNCHANGED <<clear, lane, job, given, emitted>>

\* ensureSubjectPersistedLocked, before an application is stored.
PersistSubject ==
    /\ Idle /\ disk.subj # scope
    /\ disk' = [disk EXCEPT !.subj = scope]
    /\ UNCHANGED <<mem, kept, pend, clear, mir, ret, scope, lane, job, used, gone, given, emitted>>

-----------------------------------------------------------------------------
(* Fact keys.                                                              *)

\* The key is in the record on file.
OnFile(r, k, f) == f \in r.hist[k] \/ (r.ents[k] # None /\ r.ents[k].id = f)

\* What recordFactKeyLocked takes for proof that the key is durable.
Witnessed(m, k, f) == m.durable /\ (m.keys[k] = f \/ f \in m.hist[k])

Built(s, k, f, filed) == emitted \union {[of |-> <<s, k, f>>, filed |-> filed]}

\* recordFactKeyLocked: the key of a fact joins the history, durably, before
\* the fact is kept; false, no fact, when the write fails.
RecordFactKey(s, k, f) ==
    LET m == Mirror
        r == RecordFor(scope)
        h == [m.hist EXCEPT ![k] = @ \union {f}]
    IN  /\ Idle /\ <<s, k, f>> \in given /\ \A t \in emitted : t.of # <<s, k, f>>
        /\ \/ /\ s # scope
              /\ ret' = [ret EXCEPT ![s][k] = @ \union {f}]
              /\ emitted' = Built(s, k, f, FALSE)
              /\ UNCHANGED <<mir, job>>
           \/ /\ s = scope /\ Witnessed(m, k, f)
              /\ mir' = m /\ emitted' = Built(s, k, f, OnFile(r, k, f))
              /\ UNCHANGED <<ret, job>>
           \/ /\ s = scope /\ ~Witnessed(m, k, f)
              /\ mir' = [m EXCEPT !.hist = h, !.durable = @ /\ h = m.hist]
              /\ IF OnFile(r, k, f)
                   THEN emitted' = Built(s, k, f, TRUE) /\ UNCHANGED job
                   ELSE /\ job' = [rec |-> [r EXCEPT !.hist = h], onOK |-> pend, onFail |-> pend,
                                   without |-> None, emit |-> {[of |-> <<s, k, f>>, filed |-> TRUE]}]
                        /\ UNCHANGED emitted
              /\ UNCHANGED ret
        /\ UNCHANGED <<mem, kept, pend, clear, scope, lane, disk, used, gone, given>>

\* The last copy of a fact is delivered or dropped.
FactSettles(t) ==
    /\ Idle /\ t \in emitted
    /\ emitted' = emitted \ {t} /\ given' = given \ {t.of}
    /\ UNCHANGED <<vol, disk, job, used, gone>>

\* liveFactKeys.
Prune(h, live) == [k \in Keys |-> {f \in h[k] : \E t \in live : t[2] = k /\ t[3] = f}]

\* pruneExperimentFactKeys: keys that no live fact and no owed application
\* carries leave the histories.
PruneFactKeys(owed) ==
    LET live == {t.of : t \in emitted} \union owed
    IN  /\ Idle
        /\ ret' = [s \in Scopes |-> Prune(ret[s], live)]
        /\ IF mir # None /\ Prune(mir.hist, live) # mir.hist
             THEN /\ mir' = [mir EXCEPT !.hist = Prune(@, live), !.durable = FALSE]
                  /\ job' = [rec |-> [RecordFor(scope) EXCEPT !.hist = Prune(mir.hist, live)],
                             onOK |-> pend, onFail |-> pend, without |-> None, emit |-> {}]
             ELSE ret' # ret /\ UNCHANGED <<mir, job>>
        /\ UNCHANGED <<mem, kept, pend, clear, scope, lane, disk, used, gone, given, emitted>>

-----------------------------------------------------------------------------
(* retryDurableSync, one phase at a time under the lock.                   *)

\* The owed clear.  The key history goes with the cleared record, that of the
\* retired subjects included, whether or not the clear lands.
RetryClear(out) ==
    /\ Idle /\ (clear # None \/ pend # NoPend)
    /\ lane' = "capture"
    /\ \/ /\ clear = None /\ out.ok
          /\ UNCHANGED <<pend, clear, mir, ret, disk, used, emitted>>
       \/ /\ clear # None /\ mem # Nothing /\ out.ok
          /\ pend' = Demoted(pend, mem) /\ clear' = None
          /\ UNCHANGED <<mir, ret, disk, used, emitted>>
       \/ /\ clear # None /\ mem = Nothing /\ out.ok
          /\ disk.rec # None /\ disk.rec.scope # clear.scope
          /\ clear' = None
          /\ UNCHANGED <<pend, mir, ret, disk, used, emitted>>
       \/ /\ clear # None /\ mem = Nothing
          /\ disk.rec # None => disk.rec.scope = clear.scope
          /\ mir' = None /\ ret' = NoKeys
          /\ emitted' = {}
          /\ disk' = [disk EXCEPT !.rec = out.rec, !.tomb = out.tomb]
          /\ IF out.ok
               THEN /\ clear' = None /\ pend' = IF disk.rec = None THEN pend ELSE NoPend
                    /\ UNCHANGED used
               ELSE Fault /\ UNCHANGED <<clear, pend>>
    /\ UNCHANGED <<mem, kept, scope, job, gone, given>>

\* The captures that held a drop back: those in done are spooled now.
RetryCapture(done) ==
    /\ lane = "capture" /\ lane' = "fold"
    /\ pend' = [x \in DOMAIN pend |-> IF x \in done THEN Released(pend[x]) ELSE pend[x]]
    /\ UNCHANGED <<mem, kept, clear, mir, ret, scope, disk, job, used, gone, given, emitted>>

\* The owed intents of the current scope, in one save.
RetryFold ==
    /\ lane = "fold" /\ job = None /\ lane' = "foreign"
    /\ IF \E k \in Keys : pend[<<scope, k>>] # None /\ ~Captures(pend, <<scope, k>>)
         THEN StartSave(Fold(RecordFor(scope), pend, mem, None), Mirror,
                        Folded(pend, scope, None), pend, None)
         ELSE UNCHANGED <<job, mir>>
    /\ UNCHANGED <<mem, kept, pend, clear, ret, scope, disk, used, gone, given, emitted>>

\* The owed drops of an earlier scope, when the record is still of that scope.
RetryForeign ==
    LET foreign == {x \in DOMAIN pend : x[1] # scope /\ pend[x] # None}
        ready   == {x \in foreign : pend[x].drop /\ ~pend[x].capture}
        stored(x) == disk.rec # None /\ disk.rec.scope = x[1]
        applies == {x \in ready : stored(x) /\ ~(disk.rec.ents[x[2]] # None
                                        /\ disk.rec.ents[x[2]].at > pend[x].asOf)}
        rest == [x \in DOMAIN pend |->
                   IF x \in foreign /\ (~pend[x].drop \/ x \in ready \ applies) THEN None
                   ELSE pend[x]]
    IN  /\ lane = "foreign" /\ job = None /\ lane' = "idle"
        /\ pend' = rest
        /\ IF applies = {} THEN UNCHANGED <<job, mir>>
           ELSE StartSave([disk.rec EXCEPT !.ents = [k \in Keys |->
                             IF <<disk.rec.scope, k>> \in applies THEN None ELSE @[k]]],
                          MirrorOf(disk.rec),
                          [x \in DOMAIN rest |-> IF x \in applies THEN None ELSE rest[x]],
                          rest, None)
        /\ UNCHANGED <<mem, kept, clear, ret, scope, disk, used, gone, given, emitted>>

-----------------------------------------------------------------------------
(* Crash and restart.                                                      *)

\* What was owed when the process ended is forgotten: a drop of k that has
\* not reached the record or the tombstone.
Unsettled(k) ==
    \/ job # None
    \/ pend[<<disk.subj, k>>] # None
    \/ clear # None /\ disk.tomb # disk.subj
    \/ scope # disk.subj /\ disk.tomb # disk.subj

\* preload.
Restart ==
    /\ Turn
    /\ mem' = Preloaded /\ kept' = Nothing /\ pend' = NoPend
    /\ clear' = IF disk.tomb = None THEN None ELSE [asOf |-> 0, scope |-> disk.tomb]
    /\ mir' = IF Loads THEN MirrorOf(disk.rec) ELSE None
    /\ ret' = NoKeys /\ scope' = disk.subj /\ lane' = "idle" /\ job' = None
    /\ gone' = [k \in Keys |-> IF Unsettled(k) THEN 0 ELSE gone[k]]
    /\ emitted' = {t \in emitted : /\ t.filed /\ t.of[1] = scope /\ scope = disk.subj
                                   /\ disk.tomb # disk.subj
                                   /\ disk.rec # None => disk.rec.scope = disk.subj}
    /\ given' = {t \in given : t[1] <= disk.subj}
    /\ UNCHANGED disk

Next ==
    \/ \E k \in Keys, now \in Clocks, hid \in BOOLEAN : Install(k, now, hid)
    \/ \E k \in Keys, now \in Clocks, how \in {"captured", "uncaptured", "age"},
          lifts \in BOOLEAN : Drop(k, now, how, lifts)
    \/ \E now \in Clocks, out \in ClearOutcomes, marked \in BOOLEAN : Sentinel(now, out, marked)
    \/ Latch
    \/ \E filed, landed, marked \in BOOLEAN : Remint(filed, landed, marked)
    \/ PersistSubject
    \/ \E t \in given : RecordFactKey(t[1], t[2], t[3])
    \/ \E t \in emitted : FactSettles(t)
    \/ \E owed \in {{}, given} : PruneFactKeys(owed)
    \/ SaveLands
    \/ \E landed, cleared \in BOOLEAN : SaveFails(landed, cleared)
    \/ \E out \in ClearOutcomes : RetryClear(out)
    \/ \E done \in SUBSET {x \in DOMAIN pend : Captures(pend, x)} : RetryCapture(done)
    \/ RetryFold \/ RetryForeign
    \/ Restart

Spec == Init /\ [][Next]_vars

-----------------------------------------------------------------------------
(* Properties.                                                             *)

\* Entries, intents, records and mirrors keep their shape; while the auth
\* latch retains entries none is served.
TypeOK ==
    /\ mem \in Held /\ kept \in Held /\ (kept # Nothing => mem = Nothing)
    /\ pend \in Owed /\ clear \in Clears \union {None}
    /\ mir \in Mirrors \union {None} /\ ret \in [Scopes -> Histories]
    /\ scope \in Scopes /\ lane \in {"idle", "capture", "fold", "foreign"}
    /\ disk \in Disks /\ job \in Jobs \union {None}
    /\ used \in Counts /\ gone \in [Keys -> Nat]
    /\ given \subseteq Scopes \X Keys \X Nat /\ emitted \subseteq Facts

\* An assignment that a verdict, an age refusal, the sentinel or a rejected
\* subject has ended is never served again: not by the latch's retained
\* entries, not after a restart, unless the process ended while the drop was
\* owed and nothing durable witnessed it.
DroppedStaysGone ==
    \A k \in Keys :
       /\ mem[k] # None => mem[k].id > gone[k]
       /\ kept[k] # None => kept[k].id > gone[k]

\* A withdrawn assignment that is still in the record is owed its removal
\* (durablePending, durableClearPending): no failed write and no later
\* operation loses that debt.
GhostIsOwed ==
    \A k \in Keys :
       LET e == RecordFor(scope).ents[k]
       IN  (job = None /\ e # None) =>
              (e.id > gone[k] \/ pend[<<scope, k>>] # None \/ clear # None)

\* knownFactKeysLocked.
Known(s, k) == IF s = scope THEN {Mirror.keys[k]} \union Mirror.hist[k] ELSE ret[s][k]

\* Every key that a fact was built with is known to a later withdrawal of its
\* experiment, after re-mints and failed writes, and after a restart when it
\* was on file, until the record is cleared (knownFactKeysLocked,
\* retireFactKeysLocked).
FactKeysKnown == \A t \in emitted : t.of[3] \in Known(t.of[1], t.of[2])

=============================================================================
