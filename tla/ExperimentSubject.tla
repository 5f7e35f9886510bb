--------------------------- MODULE ExperimentSubject -------------------------
(***************************************************************************)
(* One player's handle on the experiment plane (experiment_subject.go):    *)
(* its fetches and age declarations, the applications it owes, the pass    *)
(* that seals and hands them to the client's queue, and the worker that    *)
(* sends its facts.  A handle has locks of its own and shares the queue,   *)
(* the consent and the credential state of its client, whose other         *)
(* subjects move them at any time.  Nothing of a handle is stored: a fact  *)
(* is condemned where it waits, by comparing the number of withdrawals it  *)
(* was handed over under with the number of the last one that covers it.   *)
(***************************************************************************)
EXTENDS Integers, FiniteSets, Sequences

CONSTANTS
    Keys,       \* experiments
    Ids,        \* applications and outcomes
    Calls,      \* fetches of the host
    Passes,     \* who runs a delivery pass: the lane and Close
    None,
    QueueSize,  \* Config.BufferSize
    MaxOwed,    \* expMaxOwedExposures
    MaxSeq,     \* bound: fetches
    MaxTurns    \* bound: consent changes and events of the shared plane

ASSUME ExperimentSubjectAssumption ==
    {QueueSize, MaxOwed, MaxSeq} \subseteq Nat \ {0} /\ MaxTurns \in Nat

VARIABLES
    h,        \* the handle
    plane,    \* the shared plane: sentinel and purge generations, credential latch
    client,   \* the client's consent: [granted, epoch]
    calls,    \* the fetches under way
    pass,     \* the delivery passes
    queue, worker,
    turns, minted,
    dead,     \* history: ids withdrawn
    barred    \* history: calls a withdrawal has overtaken

vars == <<h, plane, client, calls, pass, queue, worker, turns, minted, dead, barred>>

Turn == turns < MaxTurns /\ turns' = turns + 1
Larger(a, b) == IF a > b THEN a ELSE b
Nothing == [k \in Keys |-> None]

IdsOf(s) == {x.id : x \in s}
Owed == {h.owed[i] : i \in DOMAIN h.owed}
InPipeline == queue \union worker.batch \union worker.held \union worker.req

\* Whatever is owed, being handed over or waiting.
InHand == {pass[p] : p \in {p \in Passes : pass[p] # None}}
OfKey(k) == {x \in Owed \union InHand \union InPipeline : x.key = k}
Pending == IdsOf(Owed \union InHand \union InPipeline)

OnWire(c) == IF calls[c] = None THEN FALSE ELSE calls[c].ph = "wire"
Underway == {c \in Calls : OnWire(c)}

\* The plane's mutex is held over the steps of another subject's sentinel.
PlaneFree == ~plane.landing

(***************************************************************************)
(* Withdrawals.                                                            *)

\* withdrawAllLocked.
WithdrawAll(x) == [x EXCEPT !.owed = <<>>, !.entries = Nothing, !.exposed = {}, !.last = {}]

\* withdrawAgeLocked.
WithdrawAge(x, k, dropEntry) ==
    [x EXCEPT !.entries[k] = IF dropEntry THEN None ELSE @, !.last = @ \ {k}, !.exposed = @ \ {k},
              !.owed = SelectSeq(@, LAMBDA r : r.key # k),
              !.wseq = @ + 1, !.ageAt[k] = x.wseq + 1]

\* syncSentinelLocked.
Sync(x) ==
    IF x.sentinel = plane.sentinel THEN x
    ELSE [WithdrawAll(x) EXCEPT !.declaring = Nothing, !.sentinel = plane.sentinel]

\* refusalLocked, of a handle that is in step with the sentinel.
Refuses(x) == x.closed \/ x.rejected \/ x.consent # "granted" \/ ~client.granted

\* SetConsent, under commitMu: no fact is between its check and the queue.
SetConsent(to) ==
    /\ IF to = "granted" /\ h.consent # to THEN UNCHANGED turns ELSE Turn
    /\ PlaneFree
    /\ \A p \in Passes : pass[p] # None => pass[p].ph # "enqueue"
    /\ h' = LET x == [h EXCEPT !.consent = to, !.cseq = @ + 1]
            IN  IF to = "granted" THEN x ELSE [WithdrawAll(x) EXCEPT !.wseq = @ + 1, !.deniedAt = h.wseq + 1]
    /\ dead' = IF to = "granted" THEN dead ELSE dead \union Pending
    /\ barred' = Underway
    /\ UNCHANGED <<plane, client, calls, pass, queue, worker, minted>>

\* The client's denial: purgeExperimentSubjects, and the drained queue.  A
\* fact past its check meets the client's consent again at the queue.
ClientDenies ==
    /\ client.granted /\ Turn /\ PlaneFree
    /\ client' = [granted |-> FALSE, epoch |-> client.epoch + 1]
    /\ h' = [h EXCEPT !.owed = <<>>, !.exposed = {}, !.last = {}]
    /\ queue' = {}
    /\ dead' = dead \union (Pending \ IdsOf(InHand))
    /\ barred' = Underway
    /\ UNCHANGED <<plane, calls, pass, worker, minted>>

ClientGrants ==
    /\ ~client.granted
    /\ client' = [client EXCEPT !.granted = TRUE]
    /\ UNCHANGED <<h, plane, calls, pass, queue, worker, turns, minted, dead, barred>>

(***************************************************************************)
(* The other subjects of the client.                                       *)

\* applySentinelWithdrawalLocked announces the sentinel to the handles
\* first; facts built under the old generation are condemned last.
SentinelBegins ==
    /\ Turn /\ PlaneFree
    /\ plane' = [plane EXCEPT !.sentinel = @ + 1, !.landing = TRUE]
    /\ UNCHANGED <<h, client, calls, pass, queue, worker, minted, dead, barred>>

Landed(p) == [p EXCEPT !.purge = @ + 1, !.auth = @ + 1, !.blocked = TRUE, !.landing = FALSE]

SentinelLands ==
    /\ plane.landing
    /\ plane' = Landed(plane)
    /\ dead' = dead \union Pending
    /\ barred' = Underway
    /\ UNCHANGED <<h, client, calls, pass, queue, worker, turns, minted>>

\* A 401 or 403 of another subject, and the answer that lifts the latch.
PlaneLatches ==
    /\ Turn /\ PlaneFree
    /\ plane' = [plane EXCEPT !.blocked = TRUE, !.auth = @ + 1]
    /\ barred' = Underway
    /\ UNCHANGED <<h, client, calls, pass, queue, worker, minted, dead>>

PlaneLifts ==
    /\ plane.blocked /\ PlaneFree
    /\ plane' = [plane EXCEPT !.blocked = FALSE]
    /\ UNCHANGED <<h, client, calls, pass, queue, worker, turns, minted, dead, barred>>

(***************************************************************************)
(* Fetch.                                                                  *)

\* beginDeclarationLocked.
Declared(x, k, band, n) ==
    CASE band = "none"  -> x
      [] band = "adult" -> [x EXCEPT !.declaring[k] = None, !.settled[k] = Larger(@, n - 1)]
      [] band = "minor" -> [x EXCEPT !.declaring[k] = [seq |-> n, decided |-> FALSE]]

\* A call that has only to return.
Done(call, told, installs) ==
    [ph |-> "done", key |-> call.key, seq |-> call.seq, told |-> told, installs |-> installs]

\* Fetch up to its request; a refused one ends where it is.
Begin(c, k, band) ==
    LET x == Sync(h)
        n == x.fseq + 1
    IN  /\ calls[c] = None /\ n <= MaxSeq /\ PlaneFree
        /\ h' = Declared([x EXCEPT !.fseq = n], k, band, n)
        /\ LET call == [ph |-> "wire", key |-> k, band |-> band, seq |-> n, cseq |-> x.cseq,
                        epoch |-> client.epoch, auth |-> plane.auth]
           IN  calls' = [calls EXCEPT ![c] = IF Refuses(x) THEN Done(call, None, FALSE) ELSE call]
        /\ UNCHANGED <<plane, client, pass, queue, worker, turns, minted, dead, barred>>

\* The context ends, or the client's denial cuts the request off.
Abandon(c) ==
    /\ OnWire(c)
    /\ calls' = [calls EXCEPT ![c] = Done(@, None, FALSE)]
    /\ barred' = barred \ {c}
    /\ UNCHANGED <<h, plane, client, pass, queue, worker, turns, minted, dead>>

\* A newer authoritative answer of the experiment has settled.
Fenced(x, call) == call.seq <= x.settled[call.key]

\* The consent of the answer's arrival alone is looked at.
AdmitsNow(x, call) == ~Refuses(x) /\ call.auth = plane.auth

\* An install needs the consents and the credential state of the dispatch.
Admits(x, call) ==
    ~Refuses(x) /\ x.cseq = call.cseq /\ client.epoch = call.epoch /\ call.auth = plane.auth

Authoritative(a) == a # "transient"
Denies(a) == a \in {"unauthorized", "sentinel"}
Assigned(a) == a \in {"client", "synthetic"}

\* What the answer does to the handle: subject is a refusal of the subject
\* itself, ended every not-assigned verdict but the age refusal.
Answered(x, call, a) ==
    LET k     == call.key
        stale == call.auth # plane.auth
        x1    == IF a = "subject" /\ ~x.rejected THEN [WithdrawAll(x) EXCEPT !.rejected = TRUE] ELSE x
        x2    == IF Authoritative(a) /\ ~stale THEN [x1 EXCEPT !.settled[k] = Larger(@, call.seq)] ELSE x1
    IN  IF Fenced(x, call) THEN IF a = "sentinel" THEN WithdrawAll(x1) ELSE x1
        ELSE CASE a = "sentinel" -> WithdrawAll(x2)
               [] a = "age" -> WithdrawAge(x2, k, TRUE)
               [] a \in {"ended", "refused"} -> [x2 EXCEPT !.entries[k] = None]
               [] Assigned(a) /\ Admits(x, call) -> [x2 EXCEPT !.entries[k] = [kind |-> a, band |-> call.band]]
               [] OTHER -> x2

Installs(x, call, a) == Assigned(a) /\ Admits(x, call) /\ ~Fenced(x, call)

\* The answer decides the declaration the call itself made.
Applied(x, call, a) ==
    a = "sentinel" \/ (~Fenced(x, call) /\ (a \in {"age", "ended", "refused"} \/ Installs(x, call, a)))

Decided(x, call, a) ==
    LET d == x.declaring[call.key]
    IN  IF d = None THEN x
        ELSE IF d.seq = call.seq /\ Applied(x, call, a)
        THEN [x EXCEPT !.declaring[call.key].decided = TRUE] ELSE x

\* A pending non-adult declaration hands out no age-gated variant, but for
\* the applied answer to the call that declared it.
Withheld(x, call, kind) ==
    LET d == x.declaring[call.key]
    IN  IF d = None THEN FALSE ELSE ~(d.seq = call.seq /\ d.decided) /\ kind = "client"

\* What the caller is told: the fresh verdict, the cached entry of the same
\* attributes after a transient answer, or the current one when overtaken.
Told(x, y, call, a) ==
    LET cached == IF x.entries[call.key] = None THEN None
                  ELSE IF x.entries[call.key].band = call.band THEN x.entries[call.key].kind ELSE None
        now    == IF y.entries[call.key] = None THEN None
                  ELSE IF y.entries[call.key].band = call.band /\ ~plane.blocked THEN y.entries[call.key].kind
                  ELSE None
        kind   == IF Fenced(x, call) /\ Authoritative(a) THEN now
                  ELSE IF a = "transient" THEN cached ELSE IF Assigned(a) THEN a ELSE None
    IN  IF Refuses(x) \/ ~Admits(x, call) \/ Denies(a) THEN None
        ELSE IF kind = None THEN None ELSE IF Withheld(y, call, kind) THEN None ELSE kind

\* The answer settles, under the handle's mutex and the plane's.
Settle(c, a) ==
    LET call == calls[c]
        x    == Sync(h)
        y    == Decided(Answered(x, call, a), call, a)
        admitted == Admits(x, call) /\ ~Fenced(x, call)
    IN  /\ OnWire(c) /\ PlaneFree
        /\ (a \in {"sentinel", "unauthorized", "age"}) => turns < MaxTurns
        /\ turns' = turns + IF a \in {"sentinel", "unauthorized", "age"} THEN 1 ELSE 0
        /\ h' = y
        /\ plane' = CASE a = "sentinel" -> [Landed(plane) EXCEPT !.sentinel = @ + 1]
                      [] a = "unauthorized" /\ call.auth = plane.auth /\ Admits(x, call) ->
                            [plane EXCEPT !.blocked = TRUE, !.auth = @ + 1]
                      [] ~Denies(a) /\ a \notin {"transient", "refused"} /\ admitted -> [plane EXCEPT !.blocked = FALSE]
                      [] OTHER -> plane
        /\ calls' = [calls EXCEPT ![c] = Done(call, Told(x, y, call, a), Installs(x, call, a))]
        /\ dead' = dead \union (CASE a = "sentinel" -> Pending
                                  [] a = "age" /\ ~Fenced(x, call) -> IdsOf(OfKey(call.key))
                                  [] OTHER -> {})
        /\ barred' = (barred \union
              {d \in Underway : \/ plane'.auth # plane.auth
                               \/ /\ a = "age" /\ call.auth = plane.auth /\ ~Fenced(x, call)
                                  /\ calls[d].key = call.key /\ calls[d].seq < call.seq}) \ {c}
        /\ UNCHANGED <<client, pass, queue, worker, minted>>

\* Fetch returns; endDeclaration: a declaration without the server's answer
\* is an age refusal, and fences off every fetch before it.
Return(c) ==
    /\ IF calls[c] = None THEN FALSE ELSE calls[c].ph = "done"
    /\ calls' = [calls EXCEPT ![c] = None]
    /\ LET call == calls[c]
           k == call.key
           d == h.declaring[k]
           mine == IF d = None THEN FALSE ELSE d.seq = call.seq
           lost == IF mine THEN ~d.decided ELSE FALSE
           x == IF mine THEN [h EXCEPT !.declaring[k] = None] ELSE h
           gated == IF h.entries[k] = None THEN TRUE ELSE h.entries[k].kind = "client"
       IN  /\ lost => PlaneFree
           /\ h' = IF lost THEN WithdrawAge([x EXCEPT !.settled[k] = Larger(@, call.seq - 1)], k, gated) ELSE x
           /\ dead' = IF lost THEN dead \union IdsOf(OfKey(k)) ELSE dead
           /\ barred' = IF lost
                        THEN barred \union {e \in Underway : calls[e].key = k /\ calls[e].seq < call.seq}
                        ELSE barred
    /\ UNCHANGED <<plane, client, pass, queue, worker, turns, minted>>

(***************************************************************************)
(* Apply and TrackOutcome.                                                 *)

\* servedEntryLocked, the entry's kind.
Served(x, k) ==
    IF Refuses(x) \/ plane.blocked \/ x.entries[k] = None THEN None
    ELSE IF x.declaring[k] # None /\ x.entries[k].kind = "client" THEN None ELSE x.entries[k].kind

\* appendOwedLocked: the oldest of the experiment makes room.
Append1(q, r) ==
    LET mine == {i \in DOMAIN q : q[i].key = r.key}
        old  == CHOOSE i \in mine : \A j \in mine : i <= j
    IN  Append(IF Cardinality(mine) >= MaxOwed THEN SubSeq(q, 1, old - 1) \o SubSeq(q, old + 1, Len(q)) ELSE q, r)

Mints(i) == i \notin minted /\ minted' = minted \union {i}

Apply(k, i) ==
    LET x == Sync(h)
    IN  /\ PlaneFree /\ Served(x, k) # None /\ k \notin x.exposed
        /\ IF Served(x, k) = "client"
           THEN /\ Mints(i)
                /\ h' = [x EXCEPT !.exposed = @ \union {k}, !.last = @ \union {k},
                                  !.owed = Append1(@, [id |-> i, key |-> k, sealed |-> FALSE])]
           ELSE h' = [x EXCEPT !.exposed = @ \union {k}] /\ UNCHANGED minted
        /\ UNCHANGED <<plane, client, calls, pass, queue, worker, turns, dead, barred>>

\* An outcome follows the last application of the experiment.
TrackOutcome(k, i) ==
    LET x == Sync(h)
    IN  /\ PlaneFree /\ ~Refuses(x) /\ k \in x.last /\ x.declaring[k] = None
        /\ Mints(i)
        /\ h' = [x EXCEPT !.owed = Append1(@, [id |-> i, key |-> k, sealed |-> FALSE])]
        /\ UNCHANGED <<plane, client, calls, pass, queue, worker, turns, dead, barred>>

(***************************************************************************)
(* deliver: one pass at a time, over the oldest application.               *)

In(p, ph) == IF pass[p] = None THEN FALSE ELSE pass[p].ph = ph
IsHead(x, p) == IF x.owed = <<>> THEN FALSE ELSE Head(x.owed).id = pass[p].id

\* The pass goes on with the next record or ends: one state for both.
Released(p) == [pass EXCEPT ![p] = None]
SlotFree == \A p \in Passes : pass[p] = None

\* The pass reads the head of the list.
Take(p) ==
    LET x == Sync(h)
    IN  /\ SlotFree /\ (p = "close" => h.closed)
        /\ x.owed # <<>> /\ x.consent = "granted" /\ client.granted
        /\ x.declaring[Head(x.owed).key] = None
        /\ h' = x
        /\ pass' = [pass EXCEPT ![p] = [ph |-> IF Head(x.owed).sealed THEN "build" ELSE "seal", id |-> Head(x.owed).id,
                                        key |-> Head(x.owed).key, purge |-> 0, stamp |-> 0]]
        /\ UNCHANGED <<plane, client, calls, queue, worker, turns, minted, dead, barred>>

\* The record stays owed: a transient answer, or the pass is paced, out of
\* budget or its context done.
SealKept(p) ==
    /\ In(p, "seal")
    /\ pass' = Released(p)
    /\ UNCHANGED <<h, plane, client, calls, queue, worker, turns, minted, dead, barred>>

\* seal: an answer counts only for the head, under the consents.
SealStands(x, p) == x.consent = "granted" /\ client.granted /\ IsHead(x, p)

Seal(p, a) ==
    LET x == Sync(h)
    IN  /\ In(p, "seal") /\ PlaneFree
        /\ a \in {"sentinel", "age"} => turns < MaxTurns
        /\ turns' = turns + IF a \in {"sentinel", "age"} THEN 1 ELSE 0
        /\ IF ~SealStands(x, p)
           THEN a = "sealed" /\ h' = x /\ pass' = Released(p) /\ UNCHANGED <<plane, dead, barred>>
           ELSE CASE a = "sealed" -> /\ h' = [x EXCEPT !.owed = <<[Head(@) EXCEPT !.sealed = TRUE]>> \o Tail(@)]
                                     /\ pass' = [pass EXCEPT ![p].ph = "build"]
                                     /\ UNCHANGED <<plane, dead, barred>>
                  [] a = "refused" -> /\ h' = [x EXCEPT !.owed = Tail(@)]
                                      /\ pass' = Released(p)
                                      /\ UNCHANGED <<plane, dead, barred>>
                  [] a = "age" -> /\ h' = WithdrawAge(x, pass[p].key, TRUE)
                                  /\ pass' = Released(p)
                                  /\ dead' = dead \union IdsOf(OfKey(pass[p].key))
                                  /\ UNCHANGED <<plane, barred>>
                  [] a = "sentinel" -> /\ h' = WithdrawAll(x)
                                       /\ plane' = [Landed(plane) EXCEPT !.sentinel = @ + 1]
                                       /\ pass' = Released(p)
                                       /\ dead' = dead \union Pending
                                       /\ barred' = Underway
        /\ UNCHANGED <<client, calls, queue, worker, minted>>

\* The fact is built under the purge generation of the moment.
BuildFact(p) ==
    /\ In(p, "build")
    /\ pass' = [pass EXCEPT ![p].ph = "commit", ![p].purge = plane.purge]
    /\ UNCHANGED <<h, plane, client, calls, queue, worker, turns, minted, dead, barred>>

Commits(x, p) == x.consent = "granted" /\ IsHead(x, p) /\ x.declaring[pass[p].key] = None

\* commit, its check: the stamp is read with it.
CommitCheck(p) ==
    LET x == Sync(h)
    IN  /\ In(p, "commit")
        /\ h' = x
        /\ pass' = IF Commits(x, p) THEN [pass EXCEPT ![p].ph = "enqueue", ![p].stamp = x.wseq] ELSE Released(p)
        /\ UNCHANGED <<plane, client, calls, queue, worker, turns, minted, dead, barred>>

\* The stamp is read when the fact is queued.
StampLate(p) == h.wseq

Stamp(p) == pass[p].stamp

\* The head leaves the list if it is still there.
HeadGone(p) == IF IsHead(h, p) THEN [h EXCEPT !.owed = Tail(@)] ELSE h

\* commit, its enqueueExperimentFact.
Enqueue(p) ==
    /\ In(p, "enqueue")
    /\ IF client.granted /\ Cardinality(queue) < QueueSize
       THEN /\ queue' = queue \union {[id |-> pass[p].id, key |-> pass[p].key, purge |-> pass[p].purge,
                                       stamp |-> Stamp(p), in |-> client.epoch]}
            /\ h' = HeadGone(p)
            /\ pass' = Released(p)
       ELSE pass' = Released(p) /\ UNCHANGED <<queue, h>>
    /\ UNCHANGED <<plane, client, calls, worker, turns, minted, dead, barred>>

\* Close, and the client's closeExperimentSubjects.
Close ==
    /\ ~h.closed
    /\ h' = [h EXCEPT !.closed = TRUE]
    /\ UNCHANGED <<plane, client, calls, pass, queue, worker, turns, minted, dead, barred>>

\* discardOwed.
Discard ==
    /\ h.closed /\ PlaneFree /\ pass["close"] = None
    /\ h.owed # <<>> \/ h.entries # Nothing
    /\ h' = [Sync(h) EXCEPT !.owed = <<>>, !.entries = Nothing]
    /\ UNCHANGED <<plane, client, calls, pass, queue, worker, turns, minted, dead, barred>>

(***************************************************************************)
(* The client's worker.                                                    *)

\* subjectFactWithdrawn.
Withdrawn(x) == x.stamp < h.deniedAt \/ x.stamp < h.ageAt[x.key]

\* The facts that a dispatch point leaves: the client's two generations and
\* the handle's withdrawals.
Live(s) == {x \in s : x.purge = plane.purge /\ x.in = client.epoch /\ ~Withdrawn(x)}

Work(w) == worker' = w /\ UNCHANGED <<h, plane, client, calls, pass, turns, minted, dead, barred>>

\* admitReceivedEvent: a handle's withdrawals are not looked at here.
Receive ==
    /\ worker.ph = "idle" /\ queue # {}
    /\ \E x \in queue : /\ queue' = queue \ {x}
                        /\ Work([worker EXCEPT !.batch =
                              IF x.in = client.epoch /\ x.purge = plane.purge THEN @ \union {x} ELSE @])

\* dropDeniedSubjectFacts among the worker's filters, then separateAgeHeld.
Build ==
    /\ worker.ph = "idle" /\ worker.batch # {} /\ client.granted
    /\ LET live == Live(worker.batch)
           hold == {x \in live : h.declaring[x.key] # None}
       IN  Work([ph |-> IF live \ hold = {} THEN "rejoin" ELSE "built", batch |-> live \ hold, held |-> hold,
                 req |-> live \ hold])
    /\ UNCHANGED queue

\* dropDeniedSubjectBuiltBatch, ageHeldRequest and the consent gate.
Send ==
    /\ worker.ph = "built"
    /\ LET live  == Live(worker.req)
           goes  == live # {} /\ client.granted /\ \A x \in live : h.declaring[x.key] = None
       IN  Work([worker EXCEPT !.batch = live, !.req = IF goes THEN live ELSE {},
                               !.ph = IF goes THEN "flight" ELSE "rejoin"])
    /\ UNCHANGED queue

\* A failed request is retried from memory: spoolActorEligible keeps a
\* handle's fact off the disk.
Answer ==
    /\ worker.ph = "flight"
    /\ \E kept \in {{}, worker.batch} : Work([worker EXCEPT !.ph = "rejoin", !.batch = kept, !.req = {}])
    /\ UNCHANGED queue

\* rejoinAgeHeld.
Rejoin ==
    /\ worker.ph = "rejoin"
    /\ Work([ph |-> "idle", batch |-> worker.batch \union Live(worker.held), held |-> {}, req |-> {}])
    /\ UNCHANGED queue

Init ==
    /\ h = [consent |-> "granted", cseq |-> 0, closed |-> FALSE, rejected |-> FALSE, fseq |-> 0,
            settled |-> [k \in Keys |-> 0], entries |-> Nothing, exposed |-> {}, owed |-> <<>>, last |-> {},
            declaring |-> Nothing, sentinel |-> 0, wseq |-> 0, deniedAt |-> 0, ageAt |-> [k \in Keys |-> 0]]
    /\ plane = [sentinel |-> 0, purge |-> 0, auth |-> 0, blocked |-> FALSE, landing |-> FALSE]
    /\ client = [granted |-> TRUE, epoch |-> 0]
    /\ calls = [c \in Calls |-> None] /\ pass = [p \in Passes |-> None]
    /\ queue = {} /\ worker = [ph |-> "idle", batch |-> {}, held |-> {}, req |-> {}]
    /\ turns = 0 /\ minted = {} /\ dead = {} /\ barred = {}

Next ==
    \/ \E to \in {"granted", "denied"} : SetConsent(to)
    \/ ClientDenies \/ ClientGrants \/ SentinelBegins \/ SentinelLands \/ PlaneLatches \/ PlaneLifts
    \/ \E c \in Calls : \/ \E k \in Keys, band \in {"none", "adult", "minor"} : Begin(c, k, band)
                        \/ \E a \in {"client", "synthetic", "ended", "refused", "age", "transient",
                                     "unauthorized", "sentinel", "subject"} : Settle(c, a)
                        \/ Abandon(c) \/ Return(c)
    \/ \E k \in Keys, i \in Ids : Apply(k, i) \/ TrackOutcome(k, i)
    \/ \E p \in Passes : \/ Take(p) \/ SealKept(p) \/ BuildFact(p) \/ CommitCheck(p) \/ Enqueue(p)
                         \/ \E a \in {"sealed", "refused", "age", "sentinel"} : Seal(p, a)
    \/ Close \/ Discard \/ Receive \/ Build \/ Send \/ Answer \/ Rejoin

Spec == Init /\ [][Next]_vars

(***************************************************************************)
(* Properties.                                                             *)

\* Types, the bounds of the list and the queue, and that every number a
\* fact, a declaration or a withdrawal carries has been issued.
TypeOK ==
    /\ \A k \in Keys : Cardinality({i \in DOMAIN h.owed : h.owed[i].key = k}) <= MaxOwed
    /\ Cardinality(queue) <= QueueSize
    /\ \A x \in InPipeline : x.stamp <= h.wseq /\ x.purge <= plane.purge /\ x.in <= client.epoch
    /\ h.deniedAt <= h.wseq /\ h.sentinel <= plane.sentinel
    /\ \A k \in Keys : h.ageAt[k] <= h.wseq /\ h.settled[k] <= h.fseq
    /\ dead \union IdsOf(Owed \union InPipeline) \subseteq minted

\* A fact that the player's denial, an age refusal of its experiment or the
\* real-subjects sentinel withdrew is never handed to the transport
\* afterwards, wherever the withdrawal met it: owed, sealed, between its
\* check and the queue, queued, batched, held, built or being retried.
NoWithdrawnFactSent ==
    [][(worker.ph # "flight" /\ worker'.ph = "flight") => IdsOf(worker'.req) \intersect dead = {}]_vars

\* A fetch that a consent change, a latch, a sentinel, an age refusal or an
\* unanswered non-adult declaration has overtaken installs nothing, and while
\* such a declaration has no answer no caller is handed an age-gated variant
\* of its experiment, the cached one included.
NoInstallAcrossWithdrawal ==
    [][\A c \in Underway : calls'[c].ph = "done" =>
          LET d == h'.declaring[calls[c].key]
          IN  /\ calls'[c].installs => c \notin barred
              /\ (calls'[c].told = "client" /\ d # None) => (d.seq = calls[c].seq /\ d.decided)]_vars

=============================================================================
