---------------------------- MODULE ConsentFloor ----------------------------
(***************************************************************************)
(* The opt-in consent floor with a SpoolDir: concurrent consent decisions, *)
(* the decision record, the durable trail of receipts, their serial        *)
(* delivery, crashes, damaged files and the restart that reads them back   *)
(* (consent.go, consent_outbox.go, consent_record.go, client.go).          *)
(*                                                                         *)
(* One client, one scope (one configured actor), floor-authored records.   *)
(* A decision's ticket is its key: it identifies the decision and its      *)
(* receipt (at most one receipt per decision; the key stands for the       *)
(* idempotency key).  A stamp (decidedAt) is a number.  A file write is    *)
(* atomic (write aside and rename) and may fail.  The memory of settled    *)
(* keys is not bounded here (256 in the code).                             *)
(*                                                                         *)
(* kind, wit and mine are history: which decision each key was, which keys *)
(* were ever on disk, and which were taken by the running process.         *)
(***************************************************************************)
EXTENDS Integers, Sequences, FiniteSets

CONSTANTS
    Callers,       \* goroutines that call SetConsent
    Dispatchers,   \* goroutines that run dispatch passes: worker, Track, Flush
    Kinds,         \* the decisions callers take
    Clocks,        \* what the wall clock may read when a stamp is made
    Cap,           \* maxConsentOutboxEntries
    Outcomes,      \* delivery outcomes besides "ack"
    MaxDecisions, MaxFaults, MaxCrashes, MaxDamage,   \* bounds
    None           \* nothing owed, no claim

ASSUME FloorAssumption ==
    /\ Kinds \subseteq {"granted", "denied", "minor"}
    /\ Outcomes \subseteq {"retry", "terminal", "lost", "abort"}
    /\ Clocks \subseteq Nat /\ Clocks # {}
    /\ Cap \in Nat \ {0}
    /\ {MaxDecisions, MaxFaults, MaxCrashes, MaxDamage} \subseteq Nat
    /\ None \notin Dispatchers /\ None \notin [key : Nat, at : Nat, dec : Kinds]

VARIABLES
    recFile,       \* the decision record on disk
    outFile,       \* the receipt trail on disk
    up,            \* the process runs
    live,          \* Client.consent
    epoch,         \* Client.consentEpoch
    lastStamp,     \* Client.lastConsentStamp
    trail,         \* consentOutbox.receipts, the mirror of outFile
    dirty,         \* a write of the trail is owed
    marks,         \* recordOwedKeys
    settled,       \* settledKeys
    unusable,      \* lastRead = unusable
    unprovable,    \* grantsUnprovable
    preserve,      \* preserveUnusable
    recOwed,       \* consentRecordOwed
    mintOwed,      \* consentMintOwed
    wipe,          \* diskSpool.owed
    call,          \* where each caller is in applyConsentDecision
    pass,          \* where each dispatch pass is
    claim,         \* holder of the dispatch claim
    parked,        \* the deferral of the consent plane is armed
    server,        \* receipts the consent service recorded, in order
    refused,       \* keys the consent service refused for good
    answered,      \* keys for which an HTTP response was seen
    kind, wit, mine,
    faults, crashes, damage

diskVars   == <<recFile, outFile>>
outboxVars == <<trail, dirty, marks, settled, unusable, unprovable, preserve>>
owedVars   == <<recOwed, mintOwed, wipe>>
passVars   == <<pass, claim, parked, server, refused, answered>>
histVars   == <<kind, mine>>
boundVars  == <<crashes, damage>>
vars == <<diskVars, up, live, epoch, lastStamp, outboxVars, owedVars, call,
          passVars, histVars, wit, faults, boundVars>>

IdleCall == [pc |-> "idle", dec |-> "denied", key |-> 0, snap |-> 0, at |-> 0,
             minted |-> FALSE, safe |-> FALSE]
IdlePass == [pc |-> "idle", r |-> None, handed |-> {}, verdict |-> "none"]

\* A file as its reader classifies it: absent, ok, or bad (unusable).  A bad
\* trail may still yield some receipts, a bad record yields no decision.
AbsentRecord == [st |-> "absent", dec |-> "denied", at |-> 0, key |-> 0,
                 unw |-> FALSE, unwAt |-> 0]
AbsentTrail  == [st |-> "absent", rs |-> <<>>]

Keys(s) == {s[i].key : i \in 1..Len(s)}
Last(s) == s[Len(s)]
Granted(r) == r.dec = "granted"

\* The newest decision that counts: taken by this process, or once on disk.
Latest == CHOOSE k \in wit \cup mine : \A j \in wit \cup mine : j <= k
HasLatest == wit \cup mine # {}

\* A write or a mint that fails uses up one of MaxFaults.
Attempt(ok) ==
    /\ ok \/ faults < MaxFaults
    /\ faults' = IF ok THEN faults ELSE faults + 1

-----------------------------------------------------------------------------
(* The outbox file and the record file.                                    *)

\* The receipts of s whose keys are not in ks, in their order: each stands at
\* the place that the number of those before it gives.
Without(s, ks) ==
    LET kept == {i \in 1..Len(s) : s[i].key \notin ks}
        Before(i) == Cardinality({j \in kept : j < i})
    IN  [n \in 1..Cardinality(kept) |-> s[CHOOSE i \in kept : Before(i) = n - 1]]

\* What saveLocked writes: the disk's receipts minus the settled ones, then
\* the mirror's, the newest Cap of them.  A fresh decision ignores what an
\* unusable file still holds.
Merged(fresh, mirror, done) ==
    LET disk == IF fresh /\ outFile.st = "bad" THEN <<>> ELSE outFile.rs
    IN  Without(disk, done) \o Without(mirror, Keys(disk) \ done)

Capped(s) == IF Len(s) > Cap THEN SubSeq(s, Len(s) - Cap + 1, Len(s)) ELSE s

\* saveLocked(fresh) over the given mirror, settled keys and marks.
saveLocked(fresh, mirror, done, owedMarks, ok) ==
    LET all     == Merged(fresh, mirror, done)
        new     == Capped(all)
        evicted == Keys(all) \ Keys(new)
        hold    == ~fresh /\ preserve /\ outFile.st = "bad"
    IN  /\ unusable' = (unusable /\ ~fresh)
        /\ unprovable' = (unprovable /\ ~fresh)
        /\ preserve' = (preserve /\ ~fresh)
        /\ hold => ok
        /\ IF hold \/ ~ok
             THEN /\ dirty' = TRUE /\ trail' = mirror
                  /\ settled' = done /\ marks' = owedMarks
                  /\ UNCHANGED <<outFile, wit>>
             ELSE /\ dirty' = FALSE /\ trail' = new
                  /\ settled' = done \cup evicted
                  /\ marks' = owedMarks \ evicted
                  /\ outFile' = [st |-> "ok", rs |-> new]
                  /\ wit' = wit \cup Keys(new)

\* consentOutbox.append of a receipt.
appendReceipt(r, ok) ==
    saveLocked(TRUE, Append(trail, r), settled, marks, ok)

\* consentOutbox.prune of the receipt with this key.
prune(key, ok) ==
    IF key \in Keys(trail)
      THEN saveLocked(FALSE, Without(trail, {key}),
                      settled \cup {key}, marks \ {key}, ok)
      ELSE ok /\ UNCHANGED <<outboxVars, outFile, wit>>

Record(dec, at, key) == [st |-> "ok", dec |-> dec, at |-> at, key |-> key,
                         unw |-> FALSE, unwAt |-> 0]

Owed(dec, at, key) == [dec |-> dec, at |-> at, key |-> key]

\* Faulty variant: a write that failed is not remembered as owed.
applyRecordForgotten(dec, at, key, ok, wiped) ==
    LET persisted == ok /\ (dec = "granted" => wiped)
    IN  /\ dec = "granted" /\ ~wipe => wiped
        /\ Attempt(ok /\ wiped)
        /\ recFile' = IF persisted THEN Record(dec, at, key) ELSE recFile
        /\ wipe' = IF dec = "granted" THEN wipe /\ ~wiped ELSE ~wiped
        /\ recOwed' = None
        /\ marks' = {}
        /\ wit' = IF persisted THEN wit \cup {key} ELSE wit
        /\ UNCHANGED <<outFile, mintOwed, trail, dirty, settled, unusable,
                       unprovable, preserve>>

\* applySpoolConsent, then setConsentRecordOwed.  A grant needs the owed wipe
\* settled first; a denial writes the record and then purges the spool (or,
\* when the record cannot be written, owes the purge).
applyRecord(dec, at, key, ok, wiped) ==
    LET persisted == ok /\ (dec = "granted" => wiped)
    IN  /\ dec = "granted" /\ ~wipe => wiped
        /\ Attempt(ok /\ wiped)
        /\ recFile' = IF persisted THEN Record(dec, at, key) ELSE recFile
        /\ wipe' = IF dec = "granted" THEN wipe /\ ~wiped ELSE ~wiped
        /\ recOwed' = IF persisted THEN None ELSE Owed(dec, at, key)
        /\ marks' = IF persisted THEN {} ELSE marks
        /\ wit' = IF persisted THEN wit \cup {key} ELSE wit
        /\ UNCHANGED <<outFile, mintOwed, trail, dirty, settled, unusable,
                       unprovable, preserve>>

-----------------------------------------------------------------------------
(* SetConsent.                                                             *)

\* consentRecordApplyMu is held by a decision's slow half.
Deciding == \E c \in Callers : call[c].pc \in {"mint", "record", "mark"}

\* consentGrantArming > 0.
Arming == \E c \in Callers : call[c].pc # "idle" /\ call[c].dec = "granted"

\* The ticket of c is the one served.
MyTurn(c) ==
    /\ call[c].pc = "turn"
    /\ \A o \in Callers \ {c} : call[o].pc # "idle" => call[c].key < call[o].key

\* Faulty variant: the wall clock as it is.
StampWallClock(now) == now

\* consentDecisionStamp: strictly after every stamp this process knows.
Stamp(now) == IF now > lastStamp THEN now ELSE lastStamp + 1

\* The fast half, under lifecycleMu.  A forced-minor denial cannot be left:
\* a grant is refused and a plain denial changes nothing.
Decide(c, dec) ==
    /\ up /\ call[c].pc = "idle" /\ Len(kind) < MaxDecisions
    /\ live = "minor" => dec = "minor"
    /\ kind' = Append(kind, dec)
    /\ mine' = mine \cup {Len(kind) + 1}
    /\ call' = [call EXCEPT ![c] =
                  [IdleCall EXCEPT !.pc = "turn", !.dec = dec,
                                   !.key = Len(kind) + 1, !.snap = epoch]]
    /\ live' = IF dec = "granted" THEN live ELSE dec
    /\ epoch' = IF dec = "granted" THEN epoch ELSE epoch + 1
    /\ UNCHANGED <<diskVars, up, lastStamp, outboxVars, owedVars, passVars,
                   wit, faults, boundVars>>

\* Faulty variant: the grant does not compare the epoch.
BeginGrantBlind(c) ==
    /\ MyTurn(c) /\ call[c].dec = "granted"
    /\ Attempt(TRUE)
    /\ wipe' = FALSE /\ live' = "granted"
    /\ call' = [call EXCEPT ![c].pc = "mint"]
    /\ UNCHANGED <<diskVars, up, epoch, lastStamp, outboxVars, recOwed,
                   mintOwed, passVars, histVars, wit, boundVars>>

\* A grant's slow half begins: the owed wipe must settle, and the live state
\* opens unless a denial came since.
BeginGrant(c) ==
    /\ MyTurn(c) /\ call[c].dec = "granted"
    /\ \/ /\ Attempt(TRUE)
          /\ wipe' = FALSE
          /\ live' = IF epoch = call[c].snap THEN "granted" ELSE live
          /\ call' = [call EXCEPT ![c].pc = "mint"]
          /\ UNCHANGED mine
       \/ /\ wipe /\ Attempt(FALSE)      \* ErrSpoolPurgeFailed
          /\ call' = [call EXCEPT ![c] = IdleCall]
          /\ mine' = mine \ {call[c].key}
          /\ UNCHANGED <<wipe, live>>
    /\ UNCHANGED <<diskVars, up, epoch, lastStamp, outboxVars, recOwed,
                   mintOwed, passVars, kind, wit, boundVars>>

\* A denial's slow half begins: the record goes first.
BeginDenial(c) ==
    /\ MyTurn(c) /\ call[c].dec # "granted"
    /\ \E now \in Clocks, ok, wiped \in BOOLEAN :
          /\ lastStamp' = Stamp(now)
          /\ applyRecord(call[c].dec, Stamp(now), call[c].key, ok, wiped)
          /\ call' = [call EXCEPT ![c].pc = "mint", ![c].at = Stamp(now)]
    /\ UNCHANGED <<up, live, epoch, passVars, histVars, boundVars>>

\* Faulty variant: an older decision's mint stays owed.
appendMintedKeepsOwed(r, ok) == appendReceipt(r, ok) /\ UNCHANGED mintOwed

\* A minted receipt joins the trail; an older decision's mint is no longer
\* owed, for its receipt would come after this one.
appendMinted(r, ok) == appendReceipt(r, ok) /\ mintOwed' = None

\* The receipt is minted and appended; a failed mint is owed.  A grant takes
\* its stamp here.
MintReceipt(c) ==
    /\ call[c].pc = "mint"
    /\ \E now \in Clocks, minted, ok \in BOOLEAN :
        LET me == call[c]
            at == IF me.dec = "granted" THEN Stamp(now) ELSE me.at
        IN  /\ lastStamp' = IF me.dec = "granted" THEN at ELSE lastStamp
            /\ Attempt(minted /\ ok)
            /\ IF minted
                 THEN appendMinted([key |-> me.key, at |-> at, dec |-> me.dec], ok)
                 ELSE /\ ok
                      /\ mintOwed' = Owed(me.dec, at, me.key)
                      /\ UNCHANGED <<outboxVars, outFile, wit>>
            /\ call' = [call EXCEPT
                  ![c].pc = IF me.dec = "granted" THEN "record" ELSE "mark",
                  ![c].at = at, ![c].minted = minted,
                  ![c].safe = minted /\ ok]
    /\ UNCHANGED <<recFile, up, live, epoch, recOwed, wipe, passVars,
                   histVars, boundVars>>

\* The granted record follows a receipt that is on disk, and is withheld
\* (owed) otherwise.
GrantRecord(c) ==
    /\ call[c].pc = "record"
    /\ call' = [call EXCEPT ![c].pc = "mark"]
    /\ IF call[c].safe
         THEN \E ok, wiped \in BOOLEAN :
                 applyRecord("granted", call[c].at, call[c].key, ok, wiped)
         ELSE /\ recOwed' = Owed("granted", call[c].at, call[c].key)
              /\ UNCHANGED <<diskVars, outboxVars, mintOwed, wipe, wit, faults>>
    /\ UNCHANGED <<up, live, epoch, lastStamp, passVars, histVars, boundVars>>

\* A receipt whose record is owed is marked, and the decision is finished.
FinishDecision(c) ==
    /\ call[c].pc = "mark"
    /\ marks' = IF call[c].minted /\ recOwed # None
                  THEN marks \cup {call[c].key} ELSE marks
    /\ call' = [call EXCEPT ![c] = IdleCall]
    /\ UNCHANGED <<diskVars, up, live, epoch, lastStamp, trail, dirty,
                   settled, unusable, unprovable, preserve, owedVars,
                   passVars, histVars, wit, faults, boundVars>>

-----------------------------------------------------------------------------
(* Dispatch passes (dispatchConsentReceiptsFrom).  Every pass first retries *)
(* what is owed: the mint, the trail, the record, in this order.           *)

PassTo(d, pc) == pass' = [pass EXCEPT ![d].pc = pc]

StartPass(d) ==
    /\ up /\ pass[d].pc = "idle"
    /\ PassTo(d, "retryMint")
    /\ UNCHANGED <<diskVars, up, live, epoch, lastStamp, outboxVars, owedVars,
                   call, claim, parked, server, refused, answered, histVars, wit,
                   faults, boundVars>>

\* retryOwedConsentMint: skipped while a decision holds the lock.
RetryMint(d) ==
    /\ pass[d].pc = "retryMint"
    /\ PassTo(d, "retryPersist")
    /\ IF mintOwed = None \/ Deciding
         THEN UNCHANGED <<outFile, outboxVars, mintOwed, wit, faults>>
         ELSE \E minted, ok \in BOOLEAN :
                /\ Attempt(minted /\ ok)
                /\ IF ~minted
                     THEN ok /\ UNCHANGED <<outFile, outboxVars, mintOwed, wit>>
                     ELSE LET own == recOwed # None /\ recOwed.at = mintOwed.at
                              owe == IF own THEN marks \cup {mintOwed.key} ELSE marks
                          IN  /\ mintOwed' = None
                              /\ saveLocked(TRUE,
                                   Append(trail, [key |-> mintOwed.key,
                                                  at |-> mintOwed.at,
                                                  dec |-> mintOwed.dec]),
                                   settled, owe, ok)
    /\ UNCHANGED <<recFile, up, live, epoch, lastStamp, recOwed, wipe, call,
                   claim, parked, server, refused, answered, histVars, boundVars>>

\* consentOutbox.retryPersist.
RetryPersist(d) ==
    /\ pass[d].pc = "retryPersist"
    /\ PassTo(d, "retryRecord")
    /\ IF dirty
         THEN \E ok \in BOOLEAN :
                 Attempt(ok) /\ saveLocked(FALSE, trail, settled, marks, ok)
         ELSE UNCHANGED <<outFile, outboxVars, wit, faults>>
    /\ UNCHANGED <<recFile, up, live, epoch, lastStamp, owedVars, call, claim,
                   parked, server, refused, answered, histVars, boundVars>>

\* Faulty variant: the owed record of a denial is not retried.
RetryRecordGrantsOnly(d) ==
    /\ pass[d].pc = "retryRecord"
    /\ PassTo(d, "claim")
    /\ IF \/ recOwed = None \/ Deciding
          \/ recOwed.dec # "granted"
          \/ dirty \/ (mintOwed # None /\ mintOwed.at = recOwed.at)
         THEN UNCHANGED <<diskVars, outboxVars, owedVars, wit, faults>>
         ELSE \E ok, wiped \in BOOLEAN :
                 applyRecord(recOwed.dec, recOwed.at, recOwed.key, ok, wiped)
    /\ UNCHANGED <<up, live, epoch, lastStamp, call, claim, parked, server,
                   refused, answered, histVars, boundVars>>

\* retryOwedConsentRecord: a grant's record waits for its receipt.
RetryRecord(d) ==
    /\ pass[d].pc = "retryRecord"
    /\ PassTo(d, "claim")
    /\ IF \/ recOwed = None \/ Deciding
          \/ /\ recOwed.dec = "granted"
             /\ dirty \/ (mintOwed # None /\ mintOwed.at = recOwed.at)
         THEN UNCHANGED <<diskVars, outboxVars, owedVars, wit, faults>>
         ELSE \E ok, wiped \in BOOLEAN :
                 applyRecord(recOwed.dec, recOwed.at, recOwed.key, ok, wiped)
    /\ UNCHANGED <<up, live, epoch, lastStamp, call, claim, parked, server,
                   refused, answered, histVars, boundVars>>

\* The serial claim; a pass that does not get it handed nothing over.
ClaimDispatch(d) ==
    /\ pass[d].pc = "claim"
    /\ IF claim = None THEN claim' = d /\ PassTo(d, "next")
                       ELSE UNCHANGED claim /\ PassTo(d, "gate")
    /\ UNCHANGED <<diskVars, up, live, epoch, lastStamp, outboxVars, owedVars,
                   call, parked, server, refused, answered, histVars, wit, faults,
                   boundVars>>

\* The pass ends and gives the claim back; what it handed over stays known
\* to the event leg behind it.
EndPass(d) ==
    /\ claim' = None
    /\ pass' = [pass EXCEPT ![d].pc = "gate", ![d].r = None, ![d].verdict = "none"]

\* Faulty variant: only the per-receipt marks hold a denial back.
DenyProofUnheld(r) == FALSE

\* consentDenyProofHeld: the newest receipt is the only durable trace of a
\* denial whose record is owed.
DenyProofHeld(r) ==
    /\ recOwed # None /\ recOwed.dec # "granted"
    /\ trail # <<>> /\ Last(trail).key = r.key

\* The denials behind grant g in the trail.
DenialsAfter(g) ==
    {r \in {trail[i] : i \in 1..Len(trail)} :
        /\ ~Granted(r)
        /\ \E i, j \in 1..Len(trail) :
              i < j /\ trail[i].key = g.key /\ trail[j].key = r.key}

\* newerInScopeDenialHeld.
NewerDenialHeld(g) ==
    \E r \in DenialsAfter(g) : r.key \in marks \/ DenyProofHeld(r)

DenialMintOwed == mintOwed # None /\ mintOwed.dec # "granted"

\* consentGrantPairIncomplete.
GrantPairIncomplete ==
    dirty \/ Arming \/ (recOwed # None /\ recOwed.dec = "granted")

\* nextDispatchable: the oldest receipt, but no grant while grants are not
\* provable.
Dispatchable == {i \in 1..Len(trail) : ~Granted(trail[i]) \/ ~(unusable \/ unprovable)}
Oldest == trail[CHOOSE i \in Dispatchable : \A j \in Dispatchable : i <= j]

\* The holds a receipt meets before it may leave.
Held(r) ==
    \/ r.key \in marks
    \/ Granted(r) /\ DenialMintOwed
    \/ Granted(r) /\ NewerDenialHeld(r)
    \/ DenyProofHeld(r)
    \/ Granted(r) /\ GrantPairIncomplete

\* Pick the next receipt, or stop.
NextReceipt(d) ==
    /\ pass[d].pc = "next"
    /\ IF parked \/ Dispatchable = {} \/ Held(Oldest)
         THEN EndPass(d)
         ELSE /\ pass' = [pass EXCEPT ![d].r = Oldest, ![d].pc =
                            IF Granted(Oldest) THEN "recheck" ELSE "post"]
              /\ UNCHANGED claim
    /\ UNCHANGED <<diskVars, up, live, epoch, lastStamp, outboxVars, owedVars,
                   call, parked, server, refused, answered, histVars, wit, faults,
                   boundVars>>

\* Faulty variant: a denial that has not reached the trail is overlooked.
HeldBehindTrailDenial(r) == DenialMintOwed \/ NewerDenialHeld(r)

\* What the last look at a grant looks for, under the decision lock.
HeldBehindDenial(r) ==
    \/ DenialMintOwed
    \/ NewerDenialHeld(r)
    \/ live \in {"denied", "minor"} /\ DenialsAfter(r) = {}

RecheckGrant(d) ==
    /\ pass[d].pc = "recheck"
    /\ IF Deciding \/ HeldBehindDenial(pass[d].r)
         THEN EndPass(d)
         ELSE PassTo(d, "post") /\ UNCHANGED claim
    /\ UNCHANGED <<diskVars, up, live, epoch, lastStamp, outboxVars, owedVars,
                   call, parked, server, refused, answered, histVars, wit, faults,
                   boundVars>>

\* The consent service answers a request, or none comes back.
Verdict(d, v) ==
    /\ pass[d].pc = "post"
    /\ pass' = [pass EXCEPT ![d].pc = "reply", ![d].verdict = v]
    /\ UNCHANGED <<diskVars, up, live, epoch, lastStamp, outboxVars, owedVars,
                   call, claim, parked, answered, histVars, wit, faults,
                   boundVars>>

\* It records the receipt, once per key.
ServiceRecords(d) ==
    /\ Verdict(d, "recorded")
    /\ pass[d].r.key \notin refused
    /\ server' = IF pass[d].r.key \in Keys(server) THEN server
                 ELSE Append(server, pass[d].r)
    /\ UNCHANGED refused

\* It refuses the receipt for good.
ServiceRefuses(d) ==
    /\ "terminal" \in Outcomes
    /\ Verdict(d, "refused")
    /\ pass[d].r.key \notin Keys(server)
    /\ refused' = refused \cup {pass[d].r.key}
    /\ UNCHANGED server

\* It does neither: the request is lost or meets a retryable status.
ServiceUnavailable(d) ==
    /\ Outcomes \cap {"retry", "lost", "abort"} # {}
    /\ Verdict(d, "none")
    /\ UNCHANGED <<server, refused>>

HandOver(d, pc) ==
    /\ pass' = [pass EXCEPT ![d].handed = @ \cup {pass[d].r.key}, ![d].pc = pc]
    /\ answered' = answered \cup {pass[d].r.key}

\* Acknowledged, or refused for good: the receipt is pruned and the pass
\* goes on.
ReceiptSettled(d) ==
    /\ pass[d].pc = "reply"
    /\ pass[d].verdict # "none"
    /\ HandOver(d, "next")
    /\ parked' = (parked /\ pass[d].verdict # "recorded")
    /\ \E ok \in BOOLEAN : Attempt(ok) /\ prune(pass[d].r.key, ok)
    /\ UNCHANGED <<recFile, up, live, epoch, lastStamp, owedVars, call, claim,
                   server, refused, histVars, boundVars>>

\* A retryable status: handed over, but parked.
ReceiptRetryable(d) ==
    /\ pass[d].pc = "reply" /\ "retry" \in Outcomes
    /\ parked' = TRUE
    /\ claim' = None
    /\ HandOver(d, "gate")
    /\ UNCHANGED <<diskVars, up, live, epoch, lastStamp, outboxVars, owedVars,
                   call, server, refused, histVars, wit, faults, boundVars>>

\* No response: parked ("lost"), or the caller's own context ended the
\* attempt, which is no outcome ("abort").
ReceiptUnanswered(d) ==
    /\ pass[d].pc = "reply"
    /\ \/ "lost" \in Outcomes /\ parked' = TRUE
       \/ "abort" \in Outcomes /\ UNCHANGED parked
    /\ EndPass(d)
    /\ UNCHANGED <<diskVars, up, live, epoch, lastStamp, outboxVars, owedVars,
                   call, server, refused, answered, histVars, wit, faults, boundVars>>

\* The deferral of the consent plane runs out.
DeferralElapses ==
    /\ up /\ parked
    /\ parked' = FALSE
    /\ UNCHANGED <<diskVars, up, live, epoch, lastStamp, outboxVars, owedVars,
                   call, pass, claim, server, refused, answered, histVars, wit, faults,
                   boundVars>>

\* Faulty variant: only receipts in the trail arm the gate.
GateArmedByTrail(handed) ==
    \E i \in 1..Len(trail) : Granted(trail[i]) /\ trail[i].key \notin handed

\* grantReceiptGateArmed after a pass.
GateArmed(handed) ==
    \/ Arming
    \/ mintOwed # None /\ mintOwed.dec = "granted"
    \/ \E i \in 1..Len(trail) : Granted(trail[i]) /\ trail[i].key \notin handed

\* The event leg behind the pass: it goes on only under an open gate and a
\* live grant (a denial discards the batch, and the undecided floor takes in
\* no events, so there is none to send).
EventLeg(d) ==
    /\ pass[d].pc = "gate"
    /\ \/ /\ GateArmed(pass[d].handed) \/ live # "granted"
          /\ pass' = [pass EXCEPT ![d] = IdlePass]
       \/ /\ ~GateArmed(pass[d].handed) /\ live = "granted"
          /\ PassTo(d, "events")
    /\ UNCHANGED <<diskVars, up, live, epoch, lastStamp, outboxVars, owedVars,
                   call, claim, parked, server, refused, answered, histVars, wit,
                   faults, boundVars>>

EventsSent(d) ==
    /\ pass[d].pc = "events"
    /\ pass' = [pass EXCEPT ![d] = IdlePass]
    /\ UNCHANGED <<diskVars, up, live, epoch, lastStamp, outboxVars, owedVars,
                   call, claim, parked, server, refused, answered, histVars, wit,
                   faults, boundVars>>

-----------------------------------------------------------------------------
(* Crash, damage and restart (initConsentFloor).                           *)

\* The process dies: everything but the files is gone, and a decision that
\* never reached them never happened.
Crash ==
    /\ up /\ crashes < MaxCrashes
    /\ crashes' = crashes + 1
    /\ up' = FALSE
    /\ live' = "undecided" /\ epoch' = 0 /\ lastStamp' = 0
    /\ trail' = <<>> /\ dirty' = FALSE /\ marks' = {} /\ settled' = {}
    /\ unusable' = FALSE /\ unprovable' = FALSE /\ preserve' = FALSE
    /\ recOwed' = None /\ mintOwed' = None /\ wipe' = FALSE
    /\ call' = [c \in Callers |-> IdleCall]
    /\ pass' = [d \in Dispatchers |-> IdlePass]
    /\ claim' = None /\ parked' = FALSE
    /\ mine' = {}
    /\ UNCHANGED <<diskVars, server, refused, answered, kind, wit, faults, damage>>

\* A file becomes unreadable: the trail as a whole or in one of its entries,
\* or the record.
DamageFile ==
    /\ ~up /\ damage < MaxDamage
    /\ damage' = damage + 1
    /\ \/ /\ outFile.st = "ok"
          /\ \E rs \in {<<>>} \cup
                {Without(outFile.rs, {k}) : k \in Keys(outFile.rs)} :
                outFile' = [st |-> "bad", rs |-> rs]
          /\ UNCHANGED recFile
       \/ /\ recFile.st = "ok"
          /\ recFile' = [AbsentRecord EXCEPT !.st = "bad"]
          /\ UNCHANGED outFile
    /\ UNCHANGED <<up, live, epoch, lastStamp, outboxVars, owedVars, call,
                   passVars, histVars, wit, faults, crashes>>

SeqMax(n, s) ==
    LET ns == {n} \cup {s[i].at : i \in 1..Len(s)}
    IN  CHOOSE m \in ns : \A k \in ns : k <= m

\* consentMarkSupersededBy.
MarkSupersededBy(rec, at) == rec.unw => at > rec.unwAt

\* The trail's tail decides when it is newer than the record, or there is no
\* record; a grant must be provable and forced-minor is never overridden.
TailHeals(rec, out) ==
    /\ out.rs # <<>>
    /\ ~(rec.st = "ok" /\ rec.dec = "minor")
    /\ Granted(Last(out.rs)) =>
          out.st = "ok" /\ rec.st # "bad" /\ MarkSupersededBy(rec, Last(out.rs).at)
    /\ rec.st # "ok" \/ Last(out.rs).at > rec.at

Resolved(rec, out) ==
    IF TailHeals(rec, out)
      THEN Record(Last(out.rs).dec, Last(out.rs).at, Last(out.rs).key)
      ELSE rec

\* The verdict on grants, from every signal.
GrantsUnprovable(rec, out) ==
    out.st = "bad" \/ Resolved(rec, out).st = "bad" \/ Resolved(rec, out).unw

\* The live state a start resolves from the two files.
RestoredState(rec, out) ==
    LET r == Resolved(rec, out)
    IN  IF r.st # "ok" \/ (r.dec = "granted" /\ GrantsUnprovable(rec, out))
          THEN "undecided" ELSE r.dec

\* markConsentRecordUnwitnessed.
Unwitnessed(rec, at) ==
    [rec EXCEPT !.unw = TRUE, !.unwAt = at,
                !.at = IF rec.dec = "granted" /\ at > rec.at THEN at ELSE rec.at]

\* initConsentFloor, then initSpool's attempt to settle an owed wipe.
Restart(healed, marked, wiped) ==
    LET heals == TailHeals(recFile, outFile)
        rec   == Resolved(recFile, outFile)
        unpr  == GrantsUnprovable(recFile, outFile)
        at    == IF outFile.rs = <<>> THEN rec.at ELSE SeqMax(0, outFile.rs)
        marks_needed == unpr /\ rec.st = "ok" /\ MarkSupersededBy(rec, at)
    IN  /\ ~up /\ up' = TRUE
        /\ heals \/ healed
        /\ marks_needed \/ marked
        /\ Attempt(healed /\ marked /\ wiped)
        /\ recFile' = CASE marks_needed /\ marked -> Unwitnessed(rec, at)
                        [] heals /\ healed /\ ~(marks_needed /\ marked) -> rec
                        [] OTHER -> recFile
        /\ wit' = IF recFile' = recFile THEN wit ELSE wit \cup {rec.key}
        /\ recOwed' = IF heals /\ ~healed THEN Owed(rec.dec, rec.at, rec.key) ELSE None
        /\ marks' = IF heals /\ ~healed
                      THEN {outFile.rs[i].key : i \in {j \in 1..Len(outFile.rs) :
                              recFile.st # "ok" \/ outFile.rs[j].at > recFile.at}}
                      ELSE {}
        /\ live' = RestoredState(recFile, outFile)
        /\ lastStamp' = SeqMax(recFile.at, outFile.rs)
        /\ trail' = outFile.rs
        /\ unusable' = (outFile.st = "bad")
        /\ unprovable' = unpr
        /\ preserve' = (unpr /\ (rec.st # "ok" \/ (marks_needed /\ ~marked)))
        /\ wipe' = ~wiped
        /\ UNCHANGED <<outFile, epoch, dirty, settled, mintOwed, call,
                       passVars, histVars, boundVars>>

\* Faulty variant: only the trail's own write is looked at.
CloseVerdictTrailOnly == ~dirty

\* consentOutboxCloseVerdict is nil: no mint is owed, the trail is on disk, and
\* a record may be owed only for a denial that the trail proves.
CloseVerdictClean ==
    /\ mintOwed = None /\ ~dirty
    /\ recOwed # None =>
          recOwed.dec # "granted" /\ trail # <<>> /\ ~Granted(Last(trail))

-----------------------------------------------------------------------------
Init ==
    /\ recFile = AbsentRecord /\ outFile = AbsentTrail
    /\ up = TRUE /\ live = "undecided" /\ epoch = 0 /\ lastStamp = 0
    /\ trail = <<>> /\ dirty = FALSE /\ marks = {} /\ settled = {}
    /\ unusable = FALSE /\ unprovable = FALSE /\ preserve = FALSE
    /\ recOwed = None /\ mintOwed = None /\ wipe = FALSE
    /\ call = [c \in Callers |-> IdleCall]
    /\ pass = [d \in Dispatchers |-> IdlePass]
    /\ claim = None /\ parked = FALSE /\ server = <<>>
    /\ refused = {} /\ answered = {}
    /\ kind = <<>> /\ wit = {} /\ mine = {}
    /\ faults = 0 /\ crashes = 0 /\ damage = 0

DecisionStep(c) ==
    \/ BeginGrant(c) \/ BeginDenial(c) \/ MintReceipt(c) \/ GrantRecord(c)
    \/ FinishDecision(c)

PassStep(d) ==
    \/ StartPass(d) \/ RetryMint(d) \/ RetryPersist(d) \/ RetryRecord(d)
    \/ ClaimDispatch(d) \/ NextReceipt(d) \/ RecheckGrant(d)
    \/ ServiceRecords(d) \/ ServiceRefuses(d) \/ ServiceUnavailable(d)
    \/ ReceiptSettled(d) \/ ReceiptRetryable(d) \/ ReceiptUnanswered(d)
    \/ EventLeg(d) \/ EventsSent(d)

Next ==
    \/ \E c \in Callers : DecisionStep(c) \/ \E dec \in Kinds : Decide(c, dec)
    \/ \E d \in Dispatchers : PassStep(d)
    \/ DeferralElapses
    \/ Crash
    \/ DamageFile
    \/ \E healed, marked, wiped \in BOOLEAN : Restart(healed, marked, wiped)

Spec == Init /\ [][Next]_vars

\* Decisions that were started finish, the worker's dispatch passes recur (its
\* ticker and the wake-ups), a deferral ends, and the service, asked again and
\* again, answers in the end.
Fairness ==
    /\ \A c \in Callers : WF_vars(DecisionStep(c))
    /\ \A d \in Dispatchers :
          /\ WF_vars(PassStep(d))
          /\ SF_vars(ServiceRecords(d) \/ ServiceRefuses(d))
          /\ SF_vars(ReceiptSettled(d))
    /\ WF_vars(DeferralElapses)

LiveSpec == Spec /\ Fairness

-----------------------------------------------------------------------------
(* Properties.                                                             *)

Receipt == [key : 1..MaxDecisions, at : Nat, dec : Kinds]
OwedWrite == [dec : Kinds, at : Nat, key : 1..MaxDecisions]

\* Type invariant of the floor's state.  The file never holds more than Cap
\* receipts; the mirror may, while a write is owed (saveLocked).
TypeOK ==
    /\ recFile.st \in {"absent", "ok", "bad"} /\ recFile.at \in Nat
    /\ recFile.st = "ok" => recFile.dec \in Kinds /\ recFile.key \in 1..MaxDecisions
    /\ outFile.st \in {"absent", "ok", "bad"} /\ outFile.rs \in Seq(Receipt)
    /\ Len(outFile.rs) <= Cap
    /\ trail \in Seq(Receipt) /\ (~dirty => Len(trail) <= Cap)
    /\ {up, dirty, unusable, unprovable, preserve, wipe, parked} \subseteq BOOLEAN
    /\ live \in {"undecided", "granted", "denied", "minor"}
    /\ epoch \in Nat /\ lastStamp \in Nat
    /\ marks \subseteq 1..MaxDecisions /\ settled \subseteq 1..MaxDecisions
    /\ recOwed \in OwedWrite \cup {None} /\ mintOwed \in OwedWrite \cup {None}
    /\ \A c \in Callers :
          call[c].pc \in {"idle", "turn", "mint", "record", "mark"}
    /\ \A d \in Dispatchers :
          /\ pass[d].pc \in {"idle", "retryMint", "retryPersist", "retryRecord",
                "claim", "next", "recheck", "post", "reply", "gate", "events"}
          /\ pass[d].handed \subseteq 1..MaxDecisions
    /\ claim \in Dispatchers \cup {None}
    /\ server \in Seq(Receipt)
    /\ refused \cup answered \cup wit \cup mine \subseteq 1..MaxDecisions
    /\ kind \in Seq(Kinds)

\* A grant in force is the newest decision of all that were taken by this
\* process or ever reached the disk: no crash, no failed write and no damaged
\* file brings back a grant that a denial superseded (initConsentFloor's
\* eight rules, the denialEpoch check, the tickets).
NoGrantPastDenial == live = "granted" => HasLatest /\ kind[Latest] = "granted"

\* A grant the consent service recorded is not forgotten: as long as it is the
\* newest decision, a crash at any instant restores it (the receipt-first
\* pair, consentGrantPairIncomplete).
RecordedGrantSurvives ==
    damage = 0 /\ HasLatest /\ kind[Latest] = "granted" /\ Latest \in Keys(server) =>
        RestoredState(recFile, outFile) = "granted"

\* A denial that reached the disk once is restored after a crash at any
\* instant, as long as it is the newest decision: its last durable proof is
\* never pruned (consentDenyProofHeld, markRecordOwed).
DurableDenialSurvives ==
    damage = 0 /\ HasLatest /\ Latest \in wit /\ kind[Latest] # "granted" =>
        RestoredState(recFile, outFile) = kind[Latest]

\* When Close would report success, the files restore the live decision; after
\* damage, they at least restore no grant in place of a denial
\* (consentOutboxCloseVerdict).
CleanCloseRestores ==
    up /\ CloseVerdictClean /\ (\A c \in Callers : call[c].pc = "idle") =>
        IF damage = 0 THEN RestoredState(recFile, outFile) = live
        ELSE live # "granted" => RestoredState(recFile, outFile) # "granted"

\* Receipts reach the consent service in decision order (consent_outbox.go
\* 37, README.md 526). After a file was damaged a grant may come late, held
\* back until a fresh decision vouches for the files; a denial never does.
DeliveryInDecisionOrder ==
    \A i, j \in 1..Len(server) :
        i < j => \/ server[i].key < server[j].key
                 \/ damage > 0 /\ kind[server[j].key] = "granted"

Ordered(s) == \A i, j \in 1..Len(s) : i < j => s[i].key < s[j].key /\ s[i].at < s[j].at

\* The trail is in decision order, on disk and in memory, with strictly
\* growing stamps: what the restart's reader demands, the writer keeps
\* (consentDecisionStamp, seedConsentStamp, the owed-mint slot).
TrailOrdered == Ordered(trail) /\ Ordered(outFile.rs)

\* A grant leaves for the service only when it cannot stay the last word over
\* a denial: if the newest decision is a denial, a denial that nothing holds
\* back follows the grant in the trail (the holds and the TOCTOU guard of
\* dispatchConsentReceiptsFrom).
NoGrantAheadOfHeldDenial ==
    [][ \A d \in Dispatchers :
          pass[d].pc = "recheck" /\ pass'[d].pc = "post" /\ kind[Latest] # "granted" =>
              \E r \in DenialsAfter(pass[d].r) :
                  r.key \notin marks /\ ~DenyProofHeld(r) ]_vars

\* The event leg opens under a live grant only after the service answered for
\* that grant's receipt (grantReceiptGateArmed).
EventsFollowGrant ==
    [][ \A d \in Dispatchers :
          pass[d].pc = "gate" /\ pass'[d].pc = "events" =>
            kind[Latest] = "granted" /\ Latest \in answered ]_vars

\* A denial's receipt does not stay in the client for ever: it is delivered,
\* refused, or the process ends; after a restart it is delivered again (the
\* holds of dispatchConsentReceiptsFrom all give way in the end).
DenialsDelivered ==
    \A k \in 1..MaxDecisions :
        (\E i \in 1..Len(trail) : trail[i].key = k /\ ~Granted(trail[i]))
            ~> (k \notin Keys(trail))

=============================================================================
