---------------------------- MODULE RemoteConfig ----------------------------
(***************************************************************************)
(* The remote-config client (remote_config.go): fetches of one or more     *)
(* processes that share a cache file.  A fetch captures its fallback       *)
(* records, chooses its scope when it is dispatched, is answered by the    *)
(* service some time later and settles later still, in any order.          *)
(*                                                                         *)
(* A published configuration is a version; its body also depends on the    *)
(* target (the attributes of the request, NoTarget without any), while the *)
(* ETag names the version only.  A cache record holds                      *)
(*   v, tgt   the body,                                                    *)
(*   etag     whether its ETag is known,                                   *)
(*   sig      AttributeSignature, which is never written to disk,          *)
(*   at       FetchedAtMS, and scope.                                      *)
(* rc.mu is held over a settlement, the write of the file included, but    *)
(* another process may write the file between its read and its rename.     *)
(* Retry windows end at any time; malformed bodies and status 0, 408, 429  *)
(* and 5xx are "failed", possibly with a retry hint; 401, 403 and the      *)
(* other permanent answers are "refused".                                  *)
(***************************************************************************)
EXTENDS Integers, FiniteSets

CONSTANTS
    Procs, Fetches, ProcOf,      \* each fetch slot belongs to a process
    Targets, NoTarget, None,
    Clocks,                      \* what the wall clock may read
    MaxFetches, MaxSeq, MaxVersion, MaxTurns   \* bounds

Scopes == {"identified", "anonymous"}

\* A record whose ETag is known carries the body made for its signature.
Records ==
    {r \in [scope : Scopes, v : Nat, tgt : Targets, etag : BOOLEAN, sig : Targets, at : Nat] :
        r.etag => r.tgt = r.sig}

ASSUME RemoteConfigAssumption ==
    /\ ProcOf \in [Fetches -> Procs] /\ NoTarget \in Targets
    /\ Clocks \subseteq Nat /\ None \notin Records
    /\ {MaxFetches, MaxSeq, MaxVersion, MaxTurns} \subseteq Nat

VARIABLES
    rc,        \* remoteConfigState of each process
    granted,   \* its consent
    file,      \* the cache file, None when absent or cleared
    slot,      \* the fetches
    server,    \* the published version and what the service answers
    used,      \* fetches begun, and changes of mode, consent, faults and restarts
    spoiled    \* whether a write failed, raced, replaced or cleared a record

vars == <<rc, granted, file, slot, server, used, spoiled>>

Idle == [pc |-> "idle"]

\* currentRemoteConfigScope.
Scope(p) == IF granted[p] THEN "identified" ELSE "anonymous"

\* durableRecord: the file, if it is of this scope.
Durable(s) == IF file # None /\ file.scope = s THEN file ELSE None
Held(p, s) == IF rc[p].held # None /\ rc[p].held.scope = s THEN rc[p].held ELSE None

\* loadCacheLocked: the fresher of the held and the durable record.
loadCache(p, s) ==
    IF rc[p].cleared[s].on THEN None
    ELSE IF Held(p, s) # None /\ (Durable(s) = None \/ Durable(s).at <= Held(p, s).at)
           THEN Held(p, s) ELSE Durable(s)

\* newRemoteConfigState and preload.
NewState(p) ==
    LET d == Durable(Scope(p))
    IN  [held |-> d,
         snap |-> IF d = None THEN None
                  ELSE [v |-> d.v, tgt |-> d.tgt, scope |-> d.scope, seq |-> 0],
         seq |-> 0, settled |-> [s \in Scopes |-> 0], closed |-> {},
         cleared |-> [s \in Scopes |-> [on |-> FALSE, rec |-> None]],
         window |-> {}, failed |-> [s \in Scopes |-> -1]]

Init ==
    /\ file = None
    /\ granted = [p \in Procs |-> TRUE]
    /\ rc = [p \in Procs |-> NewState(p)]
    /\ slot = [f \in Fetches |-> Idle]
    /\ server = [v |-> 1, mode |-> "up"]
    /\ used = [fetches |-> 0, turns |-> 0]
    /\ spoiled = FALSE

\* rc.mu of p is free.
Free(p) == \A f \in Fetches : ProcOf[f] = p => slot[f].pc # "writing"

-----------------------------------------------------------------------------
(* FetchRemoteConfig up to the request.                                    *)

\* The fetch is numbered and captures the records of both scopes.
Begin(f) ==
    LET p == ProcOf[f]
    IN  /\ slot[f].pc = "idle" /\ Free(p) /\ used.fetches < MaxFetches /\ rc[p].seq < MaxSeq
        /\ used' = [used EXCEPT !.fetches = @ + 1]
        /\ rc' = [rc EXCEPT ![p].seq = @ + 1]
        /\ slot' = [slot EXCEPT ![f] =
              [pc |-> "begun", seq |-> rc[p].seq + 1,
               caches |-> [s \in Scopes |-> loadCache(p, s)]]]
        /\ UNCHANGED <<granted, file, server, spoiled>>

\* Mutant: the validator is sent whatever the record was targeted at.
ValidatorBlind(cache, sig) == cache # None /\ cache.etag

\* A validator is sent only for a record of the same attributes.
Validator(cache, sig) == cache # None /\ cache.etag /\ cache.sig = sig

\* A cache-served outcome (installLocked, not authoritative): the served
\* record is adopted when it is fresher than the held one.
Adopts(f, s, cache) ==
    LET p == ProcOf[f]
    IN  /\ s = Scope(p) /\ slot[f].seq > rc[p].settled[s]
        /\ s \notin rc[p].closed /\ cache # None
        /\ Held(p, s) # None => cache.at > Held(p, s).at

Adopted(f, s, cache) ==
    IF ~Adopts(f, s, cache) THEN rc
    ELSE [rc EXCEPT ![ProcOf[f]].held = cache,
                    ![ProcOf[f]].snap = [v |-> cache.v, tgt |-> cache.tgt,
                                         scope |-> s, seq |-> slot[f].seq]]

\* Scope, record and validator are chosen under the lock, by the consent of
\* that moment; want are the attributes of SetRemoteConfigAttributes, NoTarget
\* when a grant receipt holds them back.
Dispatch(f, want) ==
    LET p     == ProcOf[f]
        s     == Scope(p)
        sig   == IF granted[p] THEN want ELSE NoTarget
        cache == slot[f].caches[s]
    IN  /\ slot[f].pc = "begun" /\ Free(p)
        /\ \/ /\ s \notin rc[p].window
              /\ slot' = [slot EXCEPT ![f] =
                    [pc |-> "sent", seq |-> slot[f].seq, scope |-> s, sig |-> sig,
                     cache |-> cache, cond |-> Validator(cache, sig)]]
              /\ UNCHANGED rc
           \/ /\ s \in rc[p].window          \* inside the retry window
              /\ rc' = Adopted(f, s, cache)
              /\ slot' = [slot EXCEPT ![f] = Idle]
        /\ UNCHANGED <<granted, file, server, used, spoiled>>

\* The caller's context ends: no fallback and no side effect.
Abandon(f) ==
    /\ slot[f].pc = "sent"
    /\ slot' = [slot EXCEPT ![f] = Idle]
    /\ UNCHANGED <<rc, granted, file, server, used, spoiled>>

-----------------------------------------------------------------------------
(* The service.                                                            *)

Answered(f, kind) ==
    slot' = [slot EXCEPT ![f] =
        [pc |-> "answered", seq |-> slot[f].seq, scope |-> slot[f].scope,
         sig |-> slot[f].sig, cache |-> slot[f].cache, kind |-> kind, v |-> server.v,
         tgt |-> IF kind = "same" THEN slot[f].cache.tgt ELSE slot[f].sig]]

\* The service answers by its present state, or fails.
Answer(f) ==
    /\ slot[f].pc = "sent"
    /\ \E kind \in {"failed",
                    CASE server.mode = "revoked" -> "refused"
                      [] server.mode = "unpublished" -> "absent"
                      [] server.mode = "up" ->
                           IF slot[f].cond /\ slot[f].cache.v = server.v
                             THEN "same" ELSE "fresh"} :
          Answered(f, kind)
    /\ UNCHANGED <<rc, granted, file, server, used, spoiled>>

Publish ==
    /\ server.v < MaxVersion
    /\ server' = [server EXCEPT !.v = @ + 1]
    /\ UNCHANGED <<rc, granted, file, slot, used, spoiled>>

ChangeMode(mode) ==
    /\ used.turns < MaxTurns /\ mode # server.mode
    /\ server' = [server EXCEPT !.mode = mode]
    /\ used' = [used EXCEPT !.turns = @ + 1]
    /\ UNCHANGED <<rc, granted, file, slot, spoiled>>

-----------------------------------------------------------------------------
(* settleRemoteConfigLocked.                                               *)

Settling(f) == slot[f].pc = "answered" /\ Free(ProcOf[f])

\* Mutant: the fence admits an outcome older than a settled one.
AppliesUnfenced(f) == slot[f].scope = Scope(ProcOf[f])

\* An outcome counts in the scope now in force, and when no later fetch of
\* that scope settled before it.
Applies(f) ==
    /\ slot[f].scope = Scope(ProcOf[f])
    /\ slot[f].seq > rc[ProcOf[f]].settled[slot[f].scope]

SettleIgnored(f) ==
    /\ Settling(f) /\ ~Applies(f)
    /\ slot' = [slot EXCEPT ![f] = Idle]
    /\ UNCHANGED <<rc, granted, file, server, used, spoiled>>

\* A transient failure: the captured record serves, unless the scope is
\* closed; armCooldownLocked opens a window for a hint.
SettleTransient(f, hint) ==
    LET p == ProcOf[f]
    IN  /\ Settling(f) /\ Applies(f) /\ slot[f].kind = "failed"
        /\ rc' = [Adopted(f, slot[f].scope, slot[f].cache) EXCEPT ![p].window =
                    IF hint THEN @ \union {slot[f].scope} ELSE @]
        /\ slot' = [slot EXCEPT ![f] = Idle]
        /\ UNCHANGED <<granted, file, server, used, spoiled>>

\* What an authoritative failure does to the state r of its process.
Shut(r, s, n) ==
    [r EXCEPT !.closed = @ \union {s}, !.settled[s] = n, !.failed[s] = n, !.snap = None]

\* 401, 403 and the other permanent answers close the scope and keep its cache.
SettleRefused(f) ==
    /\ Settling(f) /\ Applies(f) /\ slot[f].kind = "refused"
    /\ rc' = [rc EXCEPT ![ProcOf[f]] = Shut(rc[ProcOf[f]], slot[f].scope, slot[f].seq)]
    /\ slot' = [slot EXCEPT ![f] = Idle]
    /\ UNCHANGED <<granted, file, server, used, spoiled>>

\* The record that a fetch was dispatched against, or the one that an absent
\* publication cleared.
Served(f) ==
    IF slot[f].cache # None THEN slot[f].cache
    ELSE rc[ProcOf[f]].cleared[slot[f].scope].rec

\* The durable record goes when it is not newer than the one served.
ClearsDurable(d, served) == d # None /\ served # None /\ d.at <= served.at

HeldAfterClear(p, s) == IF Held(p, s) # None THEN None ELSE rc[p].held

\* clearPublicationLocked: an absent publication is dropped from memory, and
\* from the file when that is not newer; the tombstone's write may fail.
SettleAbsent(f) ==
    LET p == ProcOf[f]  s == slot[f].scope
    IN  /\ Settling(f) /\ Applies(f) /\ slot[f].kind = "absent"
        /\ rc' = [rc EXCEPT ![p] = [Shut(rc[p], s, slot[f].seq) EXCEPT
                    !.held = HeldAfterClear(p, s),
                    !.cleared[s] = [on |-> TRUE, rec |-> Served(f)]]]
        /\ \/ /\ ~ClearsDurable(Durable(s), Served(f))
              /\ UNCHANGED <<file, used, spoiled>>
           \/ /\ ClearsDurable(Durable(s), Served(f))
              /\ file' = None /\ spoiled' = TRUE
              /\ UNCHANGED used
           \/ /\ ClearsDurable(Durable(s), Served(f)) /\ used.turns < MaxTurns
              /\ used' = [used EXCEPT !.turns = @ + 1]
              /\ spoiled' = TRUE
              /\ UNCHANGED file
        /\ slot' = [slot EXCEPT ![f] = Idle]
        /\ UNCHANGED <<granted, server>>

-----------------------------------------------------------------------------
(* installLocked for a fresh body or a confirmed one.                      *)

Body(r) == <<r.v, r.tgt>>

\* Mutant: the file's advance past the served record goes unnoticed.
OvertakenNever(d, served, body) == FALSE

\* The durable record advanced past the one served, with another body.
Overtaken(d, served, body) ==
    /\ d # None /\ Body(d) # body
    /\ served # None => d.at > served.at

\* raiseStampAboveSuperseded: the stamps of what the record replaces.
Superseded(p, s, served) ==
    {r.at : r \in {served, Held(p, s), Durable(s)} \ {None}}

\* The record's stamp, above the wall clock where need be.
Stamp(now, stamps) ==
    IF \A t \in stamps : now > t THEN now
    ELSE 1 + CHOOSE t \in stamps : \A u \in stamps : u <= t

\* The answer is older than what another process saved meanwhile: it settles
\* its number, and neither the getters nor the records change.
SettleOvertaken(f) ==
    LET p == ProcOf[f]  s == slot[f].scope
    IN  /\ Settling(f) /\ Applies(f) /\ slot[f].kind \in {"fresh", "same"}
        /\ Overtaken(Durable(s), Served(f), Body(slot[f]))
        /\ rc' = [rc EXCEPT ![p].settled[s] = slot[f].seq]
        /\ slot' = [slot EXCEPT ![f] = Idle]
        /\ UNCHANGED <<granted, file, server, used, spoiled>>

\* The scope reopens, the record is held and the getters show it; the write
\* of the file follows, with the lock still held.
Install(f, now) ==
    LET p   == ProcOf[f]
        s   == slot[f].scope
        rec == [scope |-> s, v |-> slot[f].v, tgt |-> slot[f].tgt, etag |-> TRUE,
                sig |-> slot[f].sig, at |-> Stamp(now, Superseded(p, s, Served(f)))]
    IN  /\ Settling(f) /\ Applies(f) /\ slot[f].kind \in {"fresh", "same"}
        /\ ~Overtaken(Durable(s), Served(f), Body(slot[f]))
        /\ rc' = [rc EXCEPT ![p] = [rc[p] EXCEPT
                    !.settled[s] = slot[f].seq, !.closed = rc[p].closed \ {s},
                    !.cleared[s] = [on |-> FALSE, rec |-> None], !.held = rec,
                    !.snap = [v |-> rec.v, tgt |-> rec.tgt, scope |-> s, seq |-> slot[f].seq]]]
        /\ slot' = [slot EXCEPT ![f] =
              [pc |-> "writing", rec |-> rec, served |-> Served(f), read |-> file,
               fresh |-> slot[f].kind = "fresh"]]
        /\ UNCHANGED <<granted, file, server, used, spoiled>>

\* saveDurable: the signature is never on disk, and with one goes the ETag.
saveDurable(rec) == [rec EXCEPT !.sig = NoTarget, !.etag = @ /\ rec.sig = NoTarget]

\* The write lands on a file that changed since it was read, or that holds
\* the record of the other scope.
Tramples(f) == file # slot[f].read \/ (file # None /\ file.scope # slot[f].rec.scope)

WriteOK(f) ==
    /\ slot[f].pc = "writing"
    /\ file' = saveDurable(slot[f].rec)
    /\ spoiled' = (spoiled \/ Tramples(f))
    /\ slot' = [slot EXCEPT ![f] = Idle]
    /\ UNCHANGED <<rc, granted, server, used>>

\* The write failed, before or after its rename; a durable record that is not
\* newer than the one served is then cleared rather than left to come back, if
\* the tombstone can be written.
WriteFailed(f, landed, cleared) ==
    LET seen == IF landed THEN saveDurable(slot[f].rec) ELSE Durable(slot[f].rec.scope)
        old  == /\ ClearsDurable(seen, slot[f].served)
                /\ slot[f].fresh \/ Body(seen) # Body(slot[f].rec)
    IN  /\ slot[f].pc = "writing" /\ used.turns < MaxTurns
        /\ used' = [used EXCEPT !.turns = @ + 1]
        /\ file' = IF old /\ cleared THEN None ELSE IF landed THEN seen ELSE file
        /\ spoiled' = TRUE
        /\ slot' = [slot EXCEPT ![f] = Idle]
        /\ UNCHANGED <<rc, granted, server>>

-----------------------------------------------------------------------------
(* The surroundings.                                                       *)

WindowEnds(p, s) ==
    /\ s \in rc[p].window
    /\ rc' = [rc EXCEPT ![p].window = @ \ {s}]
    /\ UNCHANGED <<granted, file, slot, server, used, spoiled>>

SetConsent(p) ==
    /\ used.turns < MaxTurns
    /\ granted' = [granted EXCEPT ![p] = ~@]
    /\ used' = [used EXCEPT !.turns = @ + 1]
    /\ UNCHANGED <<rc, file, slot, server, spoiled>>

\* The process ends at any instant and starts again.
Restart(p) ==
    /\ used.turns < MaxTurns
    /\ used' = [used EXCEPT !.turns = @ + 1]
    /\ rc' = [rc EXCEPT ![p] = NewState(p)]
    /\ slot' = [f \in Fetches |-> IF ProcOf[f] = p THEN Idle ELSE slot[f]]
    /\ UNCHANGED <<granted, file, server, spoiled>>

Next ==
    \/ Publish
    \/ \E mode \in {"up", "revoked", "unpublished"} : ChangeMode(mode)
    \/ \E p \in Procs : SetConsent(p) \/ Restart(p)
    \/ \E p \in Procs, s \in Scopes : WindowEnds(p, s)
    \/ \E f \in Fetches :
          \/ Begin(f) \/ Abandon(f) \/ Answer(f)
          \/ \E want \in Targets : Dispatch(f, want)
          \/ SettleIgnored(f) \/ SettleRefused(f)
          \/ \E hint \in BOOLEAN : SettleTransient(f, hint)
          \/ SettleAbsent(f) \/ SettleOvertaken(f)
          \/ \E now \in Clocks : Install(f, now)
          \/ WriteOK(f)
          \/ \E landed, cleared \in BOOLEAN : WriteFailed(f, landed, cleared)

Spec == Init /\ [][Next]_vars

-----------------------------------------------------------------------------
(* Properties.                                                             *)

\* What the getters of p show, None while the scope in force is closed.
Shown(p) == IF Scope(p) \in rc[p].closed THEN None ELSE rc[p].snap

MaybeRecord == Records \union {None}

States ==
    [held : MaybeRecord,
     snap : [v : Nat, tgt : Targets, scope : Scopes, seq : Nat] \union {None},
     seq : Nat, settled : [Scopes -> Nat], failed : [Scopes -> Int],
     closed : SUBSET Scopes, window : SUBSET Scopes,
     cleared : [Scopes -> [on : BOOLEAN, rec : MaybeRecord]]]

BegunSlots == [pc : {"begun"}, seq : Nat, caches : [Scopes -> MaybeRecord]]
SentSlots ==
    {r \in [pc : {"sent"}, seq : Nat, scope : Scopes, sig : Targets, cache : MaybeRecord,
            cond : BOOLEAN] : r.cond => Validator(r.cache, r.sig)}
AnsweredSlots ==
    {r \in [pc : {"answered"}, seq : Nat, scope : Scopes, sig : Targets, cache : MaybeRecord,
            kind : {"failed", "refused", "absent", "same", "fresh"}, v : Nat, tgt : Targets] :
        r.tgt = r.sig}
WritingSlots ==
    [pc : {"writing"}, rec : Records, served : MaybeRecord, read : MaybeRecord, fresh : BOOLEAN]
Slots == {Idle} \union BegunSlots \union SentSlots \union AnsweredSlots \union WritingSlots

\* The state keeps its shape: in memory, in the file and in every fetch.
TypeOK ==
    /\ rc \in [Procs -> States] /\ granted \in [Procs -> BOOLEAN]
    /\ file \in MaybeRecord /\ slot \in [Fetches -> Slots]
    /\ server \in [v : Nat, mode : {"up", "revoked", "unpublished"}]
    /\ used \in [fetches : Nat, turns : Nat] /\ spoiled \in BOOLEAN

\* Fail-closed (settleRemoteConfigLocked): after the service refused a scope
\* or declared it unpublished, the getters show values of that scope only
\* when a fetch begun later than the refused one confirmed them; no delayed
\* answer and no cached record brings the older values back.
RevokedStaysClosed ==
    \A p \in Procs :
       (Shown(p) # None /\ Shown(p).scope = Scope(p)) => Shown(p).seq > rc[p].failed[Scope(p)]

\* installLocked: answers that arrive in any order, of overlapping fetches and
\* of other processes, never turn the getters of a running process back to an
\* older version, as long as no write of the file failed, raced with another
\* process's, or replaced or cleared a record.
NoGetterRollback ==
    [][\A p \in Procs :
         (/\ rc'[p].seq >= rc[p].seq
          /\ rc[p].snap # None /\ rc'[p].snap # None
          /\ rc[p].snap.scope = rc'[p].snap.scope
          /\ ~spoiled')
            => rc'[p].snap.v >= rc[p].snap.v]_vars

\* A 304 is served from a body that was made for the attributes of this very
\* request (AttributeSignature, saveDurable): the record of another target is
\* never revalidated, in the process that fetched it or after a restart.
TargetNotMixed ==
    \A f \in Fetches :
       (slot[f].pc = "answered" /\ slot[f].kind = "same") => slot[f].tgt = slot[f].sig
=============================================================================
