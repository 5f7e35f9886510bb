----------------------- MODULE ExperimentAssignments ------------------------
(***************************************************************************)
(* How experiment assignments are fetched and settled (experiments.go):    *)
(* host calls and the background lane fetch the same experiments at the    *)
(* same time, their answers settle in any order, and in between consent is *)
(* withdrawn, the key is refused, the platform disables real subjects, the *)
(* subject id is re-minted and the host declares another age.  e.mu is     *)
(* held over each step modelled here and released over the request.        *)
(*                                                                         *)
(* An entry is [seq, subj, gated, band]: the fetch it came from, its       *)
(* subject, whether its unit is a real subject (ageGated), and the age     *)
(* attribute it was fetched with.  The server answers freely.  What is     *)
(* saved on disk is ExperimentStore's, the applications and their facts    *)
(* ExperimentFacts'.                                                       *)
(***************************************************************************)
EXTENDS Integers, FiniteSets

CONSTANTS
    Keys,          \* experiments
    Calls,         \* host calls in progress at the same time
    Lane,          \* the background lane's call
    HostBands,     \* the ages that host calls declare
    None,
    MaxSeq, MaxTurns   \* bounds on fetches and on what happens in between

Bands == {"none", "adult", "minor"}
Declarations == [id : 1..MaxSeq, seq : 1..MaxSeq, decided : BOOLEAN]
Ages == [band : Bands, seq : 1..MaxSeq, lost : BOOLEAN]

ASSUME ExperimentAssignmentsAssumption ==
    /\ Lane \notin Calls /\ HostBands \subseteq Bands /\ {MaxSeq, MaxTurns} \subseteq Nat
    /\ None \notin Declarations /\ None \notin Ages

VARIABLES
    entries, retained,   \* entries and latchRetained
    settled,    \* the sequence fence, by subject and experiment
    auth,       \* authBlocked and authEpoch
    declaring,  \* the undecided non-adult declaration of each experiment
    confirmed,  \* ageConfirmed
    ticket,     \* refetchAfterApply
    subject,    \* [id, reminted]; id 0: not minted yet
    fetchSeq,
    consent,    \* [granted, epoch]; the epoch counts denials
    torn,       \* tornDown
    calls,
    told,       \* the assignment the last step returned to its caller
    turns,
    ended,      \* history: the subject's entries of k up to this fetch were withdrawn
    barred,     \* history: fetchSeq at the last sentinel
    age,        \* history: the last age the host declared for k
    denied      \* history: fetchSeq at the last denial

store == <<entries, retained, settled, auth, declaring, confirmed, ticket>>
hist == <<ended, barred, age, denied>>
vars == <<store, subject, fetchSeq, consent, torn, calls, told, turns, hist>>

Everyone == Calls \union {Lane}
Nothing == [k \in Keys |-> None]
Larger(a, b) == IF a >= b THEN a ELSE b

Answers ==
    [kind : {"assigned"}, gated : BOOLEAN]
    \union [kind : {"ended", "refused", "unauthorized", "sentinel", "subject", "transient"}]

\* applyExperimentAssignment and parseExperimentVerdict: what an answer means.
\* ended is every not-assigned verdict, the age
\* refusal included, 404 and the plain 400; refused a
\* permanent status that proves nothing about the key; subject a subject id
\* the server rejects.
Outcome(a) ==
    [transient |-> a.kind = "transient",
     blocked   |-> a.kind \in {"unauthorized", "sentinel"},
     all       |-> a.kind = "sentinel",
     drop      |-> a.kind \in {"ended", "refused"},
     keepLatch |-> a.kind = "refused",
     new       |-> a.kind = "assigned"]

Init ==
    /\ entries = Nothing /\ retained = Nothing
    /\ settled = [x \in (1..2) \X Keys |-> 0]
    /\ auth = [blocked |-> FALSE, epoch |-> 0]
    /\ declaring = Nothing /\ confirmed = {} /\ ticket = Nothing
    /\ subject = [id |-> 0, reminted |-> FALSE] /\ fetchSeq = 0
    /\ consent \in [granted : BOOLEAN, epoch : {0}] /\ torn = FALSE
    /\ calls = [c \in Everyone |-> None] /\ told = None /\ turns = 0
    /\ ended = [k \in Keys |-> 0] /\ barred = 0 /\ age = Nothing /\ denied = 0

Turn == turns < MaxTurns /\ turns' = turns + 1
Raise(f, s, k, n) == IF s = 0 THEN f ELSE [f EXCEPT ![<<s, k>>] = Larger(@, n)]

-----------------------------------------------------------------------------
(* Serving.                                                                *)

\* servedEntryLocked, what the getters return under consent.
Served(k) ==
    LET e == entries[k]
    IN  IF e # None
          THEN IF e.gated /\ (declaring[k] # None \/ k \notin confirmed) THEN None ELSE e
          ELSE None

Visible(k) == IF torn \/ ~consent.granted THEN None ELSE Served(k)

-----------------------------------------------------------------------------
(* A call up to its request.                                               *)

\* A non-adult declaration makes the age unconfirmed until an answer decides.
Unconfirmed(k) == confirmed \ {k}

\* fetchExperimentAssignment up to beginHostDeclaration: the call captures
\* the consent epoch, its sequence number and the auth epoch.
BeginHost(c, k, band) ==
    LET n == fetchSeq + 1
    IN  /\ ~torn /\ calls[c] = None /\ n <= MaxSeq
        /\ fetchSeq' = n
        /\ calls' = [calls EXCEPT ![c] =
              [pc |-> "begun", key |-> k, band |-> band, seq |-> n, auth |-> auth.epoch,
               epoch |-> consent.epoch, subj |-> 0, preset |-> FALSE, ticket |-> None,
               decl |-> IF band = "minor" THEN n ELSE 0]]
        /\ declaring' = [declaring EXCEPT ![k] =
              CASE band = "none"  -> @
                [] band = "adult" -> None
                [] band = "minor" -> [id |-> n, seq |-> n, decided |-> FALSE]]
        /\ confirmed' = IF band = "minor" THEN Unconfirmed(k) ELSE confirmed
        /\ settled' = IF band = "adult" THEN Raise(settled, subject.id, k, n - 1) ELSE settled
        /\ age' = IF band = "none" THEN age ELSE [age EXCEPT ![k] = [band |-> band, seq |-> n, lost |-> FALSE]]
        /\ told' = None
        /\ UNCHANGED <<entries, retained, auth, ticket, subject, consent, torn, turns,
                       ended, barred, denied>>

\* The ticket of an apply conflict asks for a refetch under its attributes.
TicketReady(k) == IF ticket[k] = None THEN FALSE ELSE ticket[k].subj = subject.id

\* revalidateDueExperiments for one key that is due.
BeginRevalidation(k) ==
    /\ calls[Lane] = None /\ consent.granted /\ ~auth.blocked /\ ~torn
    /\ declaring[k] = None /\ (entries[k] # None \/ TicketReady(k))
    /\ fetchSeq < MaxSeq
    /\ calls' = [calls EXCEPT ![Lane] =
          [pc |-> "begun", key |-> k, seq |-> 0, auth |-> 0, epoch |-> consent.epoch,
           subj |-> 0, decl |-> 0, preset |-> TicketReady(k),
           band |-> IF TicketReady(k) THEN ticket[k].band ELSE "none",
           ticket |-> IF TicketReady(k) THEN ticket[k] ELSE None]]
    /\ told' = None
    /\ UNCHANGED <<store, subject, fetchSeq, consent, torn, turns, hist>>

At(c, pc) == IF calls[c] = None THEN FALSE ELSE calls[c].pc = pc

\* The call returns; the deferred end of a declaration is still to come.
Return(c) ==
    calls' = [calls EXCEPT ![c] = IF @.decl = 0 THEN None ELSE [@ EXCEPT !.pc = "ending"]]

\* The early returns before the request: consent refused, torn down, or a
\* revalidation whose entry or ticket vanished.
Vanished(r) ==
    \/ r.ticket # None /\ (auth.blocked \/ ticket[r.key] # r.ticket \/ ~TicketReady(r.key))
    \/ ~r.preset /\ entries[r.key] = None
    \/ declaring[r.key] # None
    \/ IF entries[r.key] = None THEN FALSE
       ELSE entries[r.key].gated /\ r.key \notin confirmed

Refuse(c) ==
    /\ At(c, "begun")
    /\ ~consent.granted \/ torn \/ (c = Lane /\ Vanished(calls[c]))
    /\ Return(c) /\ told' = None
    /\ UNCHANGED <<store, subject, fetchSeq, consent, torn, turns, hist>>

\* The request goes out, for the current subject (minted when there is none).
\* A call that is not the host's first takes its sequence number and the auth
\* epoch now; the pending declaration learns the number of its request.
Dispatch(c) ==
    LET r == calls[c]
        n == IF r.seq = 0 THEN fetchSeq + 1 ELSE r.seq
        s == IF subject.id = 0 THEN 1 ELSE subject.id
        d == declaring[r.key]
    IN  /\ At(c, "begun")
        /\ consent.granted /\ ~torn /\ (c = Lane => ~Vanished(r)) /\ n <= MaxSeq
        /\ fetchSeq' = Larger(fetchSeq, n)
        /\ subject' = [subject EXCEPT !.id = s]
        /\ calls' = [calls EXCEPT ![c] =
              [r EXCEPT !.pc = "sent", !.seq = n, !.subj = s,
                        !.auth = IF r.seq = 0 THEN auth.epoch ELSE r.auth,
                        !.band = IF c = Lane /\ ~r.preset THEN entries[r.key].band ELSE r.band]]
        /\ declaring' = IF d = None THEN declaring
                        ELSE IF d.id = r.decl \/ (c # Lane /\ r.preset /\ r.band = "minor")
                          THEN [declaring EXCEPT ![r.key].seq = n]
                          ELSE declaring
        /\ told' = None
        /\ UNCHANGED <<entries, retained, settled, auth, confirmed, ticket, consent, torn,
                       turns, hist>>

\* The request ends without an answer to settle: the caller's context or the
\* consent gate cancelled it.
Abandon(c) ==
    /\ At(c, "sent")
    /\ Return(c) /\ told' = None
    /\ UNCHANGED <<store, subject, fetchSeq, consent, torn, turns, hist>>

-----------------------------------------------------------------------------
(* What an answer does (installLocked).                                    *)

\* liftAuthLatchLocked.
Lifted == [k \in Keys |-> IF entries[k] = None THEN retained[k] ELSE entries[k]]

Without(f, k) == [f EXCEPT ![k] = None]

\* applyEntryDropLocked and applyAgeWithdrawalLocked, in memory.
Withdraw(m, kp, k) ==
    /\ entries' = [m EXCEPT ![k] = None] /\ retained' = Without(kp, k)
    /\ ticket' = [ticket EXCEPT ![k] = None]
    /\ UNCHANGED auth

\* applySentinelWithdrawalLocked, in memory.
WithdrawAll ==
    /\ entries' = Nothing /\ retained' = Nothing /\ ticket' = Nothing
    /\ auth' = [blocked |-> TRUE, epoch |-> auth.epoch + 1]

\* latchAuthLocked and adoptMintedSubjectIDLocked start over without entries.
Emptied(m) == Nothing

\* latchAuthLocked.
Latch ==
    /\ entries' = Emptied(entries) /\ retained' = Lifted
    /\ auth' = [blocked |-> TRUE, epoch |-> auth.epoch + 1]

\* Mutant: only the consent of the moment counts.
RefusedNow(r) == ~consent.granted

\* settleExperimentFetch: consent is refused now, or was since the dispatch.
Refused(r) == ~consent.granted \/ consent.epoch # r.epoch

Current(r) == subject.id # 0 /\ subject.id = r.subj

\* Mutant: an answer of an earlier auth epoch is installed.
FreshAny(r) == TRUE

Fresh(r) == r.auth = auth.epoch

Fenced(r) == r.seq <= settled[<<r.subj, r.key>>]

\* The gates of installLocked; skip keeps a refused call's plain latch out.
Skips(r, o) == Refused(r) /\ o.blocked /\ ~o.all
Admitted(r, o) == ~Skips(r, o) /\ Current(r) /\ (~Fenced(r) \/ o.blocked)
Installs(r, o) == Admitted(r, o) /\ Fresh(r) /\ o.new /\ ~Refused(r)
WithdrawsAll(r, o) == Admitted(r, o) /\ o.all
WithdrawsOne(r, o) == Admitted(r, o) /\ o.drop

\* The ticket is used up by an answer to a later fetch.
TicketUsed(r) == IF ticket[r.key] = None THEN FALSE ELSE r.seq > ticket[r.key].after

Apply(r, o, new) ==
    LET lifts == Fresh(r) /\ ~o.keepLatch
        m     == IF lifts THEN Lifted ELSE entries
        kp    == IF lifts THEN Nothing ELSE retained
        open  == [auth EXCEPT !.blocked = IF lifts THEN FALSE ELSE @]
        left  == IF TicketUsed(r) THEN [ticket EXCEPT ![r.key] = None] ELSE ticket
    IN  CASE ~Admitted(r, o) \/ o.transient -> UNCHANGED <<entries, retained, ticket, auth>>
          [] Admitted(r, o) /\ o.all -> WithdrawAll
          [] Admitted(r, o) /\ o.blocked /\ ~o.all ->
               IF Fresh(r) THEN Latch /\ ticket' = left
               ELSE UNCHANGED <<entries, retained, ticket, auth>>
          [] Admitted(r, o) /\ o.drop ->
               /\ entries' = [m EXCEPT ![r.key] = None] /\ retained' = Without(kp, r.key)
               /\ ticket' = [ticket EXCEPT ![r.key] = None] /\ auth' = open
          [] OTHER ->
               IF ~Fresh(r) THEN UNCHANGED <<entries, retained, ticket, auth>>
               ELSE /\ entries' = IF Installs(r, o) THEN [m EXCEPT ![r.key] = new] ELSE m
                    /\ retained' = kp /\ ticket' = left /\ auth' = open

\* The fence rises with every authoritative answer of the current auth epoch.
Fence(r, o) ==
    IF Admitted(r, o) /\ Fresh(r) /\ ~o.transient
      THEN Raise(settled, r.subj, r.key, r.seq) ELSE settled

\* The age is confirmed by an answer that is not about the key's authority.
Confirmed(r, o) ==
    IF WithdrawsAll(r, o) THEN {}
    ELSE IF /\ ~Skips(r, o) /\ ~Fenced(r) /\ Current(r) /\ Fresh(r) /\ ~Refused(r)
            /\ ~o.transient /\ ~o.blocked
      THEN confirmed \union {r.key} ELSE confirmed

\* The answer decides the declaration: a withdrawal or an install.
Decides(r, o) ==
    ~Skips(r, o) /\ ~Fenced(r) /\ Current(r) /\ (o.all \/ o.drop \/ Installs(r, o))

Decided(r, o) ==
    IF declaring[r.key] = None THEN declaring
    ELSE IF declaring[r.key].seq = r.seq /\ Decides(r, o)
      THEN [declaring EXCEPT ![r.key].decided = TRUE] ELSE declaring

\* The cached entry that may stand in for a failed request.
Cached(r) ==
    LET e == IF Current(r) /\ Fresh(r) THEN entries[r.key] ELSE None
    IN  IF e = None THEN None
        ELSE IF (e.gated /\ r.key \notin confirmed) \/ e.band # r.band THEN None ELSE e

\* suppressAssigned: a pending declaration that this answer has not decided.
Withheld(r, o, source) ==
    LET d == Decided(r, o)[r.key]
    IN  IF d = None THEN FALSE
        ELSE /\ ~(d.seq = r.seq /\ d.decided)
             /\ (IF source = None THEN TRUE ELSE source.gated)

\* The assignment the call returns (None: an error or no assignment).
Told(r, o, new) ==
    LET served == IF entries'[r.key] = None THEN None
                  ELSE IF \/ entries'[r.key].band # r.band
                          \/ /\ entries'[r.key].gated
                             /\ (declaring'[r.key] # None \/ r.key \notin confirmed')
                    THEN None ELSE entries'[r.key]
        result == IF o.new THEN new ELSE IF o.transient THEN Cached(r) ELSE None
        source == IF Installs(r, o) THEN new ELSE Cached(r)
        answer == CASE Refused(r) \/ (r.auth # auth'.epoch /\ ~o.blocked) \/ ~Current(r) -> None
                    [] ~Refused(r) /\ Current(r) /\ Fenced(r) /\ ~o.transient /\ ~o.blocked -> served
                    [] OTHER -> IF Withheld(r, o, source) THEN None ELSE result
    IN  IF answer = None THEN None ELSE [key |-> r.key, entry |-> answer]

\* A rejected subject id is replaced once; after that it ends the entry.
Remints(r, a) == a.kind = "subject" /\ ~Refused(r) /\ ~Fenced(r) /\ Fresh(r) /\ Current(r)

\* settleExperimentFetch.
Settle(c, a) ==
    LET r == calls[c]
        o == IF Remints(r, a) THEN Outcome([kind |-> "ended"]) ELSE Outcome(a)
        new == IF o.new
                 THEN [seq |-> r.seq, subj |-> subject.id, gated |-> a.gated, band |-> r.band]
                 ELSE None
    IN  /\ At(c, "sent")
        /\ ~torn
        /\ Remints(r, a) => subject.reminted
        /\ Apply(r, o, new)
        /\ settled' = Fence(r, o)
        /\ confirmed' = Confirmed(r, o)
        /\ declaring' = Decided(r, o)
        /\ told' = Told(r, o, new)
        /\ ended' = IF WithdrawsOne(r, o) THEN [ended EXCEPT ![r.key] = Larger(@, r.seq)] ELSE ended
        /\ barred' = IF WithdrawsAll(r, o) THEN fetchSeq ELSE barred
        /\ Return(c)
        /\ UNCHANGED <<subject, fetchSeq, consent, torn, turns, age, denied>>

\* A declaration is decided or fenced for a subject; without one, and for the subject of
\* a later re-mint, nothing keeps it (see MinorNotServed).
Undecided(k) == IF declaring[k] = None THEN FALSE ELSE ~declaring[k].decided

Lost(k) == IF age[k] = None THEN None ELSE [age[k] EXCEPT !.lost = TRUE]

\* The subject is re-minted and the call starts over with its attributes.
Remint(c) ==
    LET r == calls[c]
    IN  /\ At(c, "sent")
        /\ ~torn /\ Remints(r, [kind |-> "subject"]) /\ ~subject.reminted
        /\ subject' = [id |-> subject.id + 1, reminted |-> TRUE]
        /\ entries' = Emptied(entries) /\ retained' = Nothing
        /\ calls' = [calls EXCEPT ![c] = [@ EXCEPT !.pc = "again", !.seq = 0, !.preset = TRUE,
                                                   !.ticket = None]]
        /\ told' = None
        /\ ended' = [k \in Keys |-> 0]
        /\ age' = [k \in Keys |-> IF Undecided(k) THEN age[k] ELSE Lost(k)]
        /\ UNCHANGED <<settled, auth, declaring, confirmed, ticket, fetchSeq, consent, torn,
                       turns, barred, denied>>

\* Consent is withdrawn while the id is re-minted: everything is put back.
RemintRevoked(c) ==
    LET r == calls[c]
    IN  /\ At(c, "sent")
        /\ ~torn /\ Turn /\ Remints(r, [kind |-> "subject"]) /\ ~subject.reminted
        /\ consent' = [granted |-> FALSE, epoch |-> consent.epoch + 1]
        /\ denied' = fetchSeq
        /\ Return(c) /\ told' = None
        /\ UNCHANGED <<store, subject, fetchSeq, torn, ended, barred, age>>

\* The call re-enters fetchExperimentAssignment.
Reenter(c) ==
    /\ At(c, "again")
    /\ told' = None
    /\ IF torn THEN Return(c)
       ELSE calls' = [calls EXCEPT ![c].pc = "begun", ![c].epoch = consent.epoch]
    /\ UNCHANGED <<store, subject, fetchSeq, consent, torn, turns, hist>>

\* Mutant: an undecided declaration ends without a withdrawal.
EndWithdrawsNever(d) == FALSE

\* An undecided declaration withdraws what it was declared against.
EndWithdraws(d) == ~d.decided /\ ~torn /\ subject.id # 0

\* endNonAdultDeclaration, when the call returns.
EndDeclaration(c) ==
    LET r == calls[c]
        k == r.key
        d == declaring[k]
        live == Lifted[k]
    IN  /\ At(c, "ending")
        /\ calls' = [calls EXCEPT ![c] = None]
        /\ told' = None
        /\ IF d = None THEN UNCHANGED <<store, age>>
           ELSE IF d.id # r.decl THEN UNCHANGED <<store, age>>
           ELSE /\ age' = IF subject.id = 0 THEN [age EXCEPT ![k] = Lost(k)] ELSE age
                /\ declaring' = [declaring EXCEPT ![k] = None]
                /\ UNCHANGED confirmed
                /\ IF ~EndWithdraws(d) THEN UNCHANGED <<entries, retained, settled, auth, ticket>>
                   ELSE /\ settled' = Raise(settled, subject.id, k, d.id - 1)
                        /\ IF live = None THEN Withdraw(entries, retained, k)
                           ELSE IF live.gated THEN Withdraw(entries, retained, k)
                           ELSE UNCHANGED <<entries, retained, auth, ticket>>
        /\ UNCHANGED <<subject, fetchSeq, consent, torn, turns, ended, barred, denied>>

-----------------------------------------------------------------------------
(* What happens in between.                                                *)

\* SetConsent; a denial opens a new consent epoch.
SetConsent(grant) ==
    /\ grant # consent.granted /\ (IF grant THEN UNCHANGED turns ELSE Turn)
    /\ consent' = [granted |-> grant, epoch |-> IF grant THEN consent.epoch ELSE consent.epoch + 1]
    /\ denied' = IF grant THEN denied ELSE fetchSeq
    /\ told' = None
    /\ UNCHANGED <<store, subject, fetchSeq, torn, calls, ended, barred, age>>

\* sealExperimentApplication: the apply route refuses the subject's age,
\* disables real subjects, or finds the assignment changed (the application
\* of an admitted adult).
ApplyAgeRefused(k) ==
    /\ Turn /\ subject.id # 0 /\ consent.granted
    /\ Withdraw(entries, retained, k) /\ told' = None
    /\ UNCHANGED <<settled, declaring, confirmed, subject, fetchSeq, consent, torn, calls, hist>>

ApplySentinel ==
    /\ Turn /\ subject.id # 0 /\ consent.granted
    /\ WithdrawAll /\ confirmed' = {} /\ told' = None
    /\ barred' = fetchSeq
    /\ UNCHANGED <<settled, declaring, subject, fetchSeq, consent, torn, calls, ended, age, denied>>

ApplyConflict(k) ==
    /\ Turn /\ subject.id # 0 /\ consent.granted /\ fetchSeq < MaxSeq
    /\ ticket' = [ticket EXCEPT ![k] = [subj |-> subject.id, band |-> "adult", after |-> fetchSeq]]
    /\ told' = None
    /\ UNCHANGED <<entries, retained, settled, auth, declaring, confirmed, subject, fetchSeq,
                   consent, torn, calls, hist>>

\* teardown, at Close.
Teardown ==
    /\ Turn /\ ~torn /\ torn' = TRUE /\ told' = None
    /\ UNCHANGED <<store, subject, fetchSeq, consent, calls, hist>>

\* A call that comes back after the teardown settles nothing.
SettleTorn(c) ==
    /\ At(c, "sent")
    /\ torn /\ Return(c) /\ told' = None
    /\ UNCHANGED <<store, subject, fetchSeq, consent, torn, turns, hist>>

Next ==
    \/ \E c \in Calls, k \in Keys, band \in HostBands : BeginHost(c, k, band)
    \/ \E k \in Keys : BeginRevalidation(k)
    \/ \E c \in Everyone : \/ Refuse(c) \/ Dispatch(c) \/ Abandon(c)
                           \/ Remint(c) \/ RemintRevoked(c) \/ Reenter(c)
                           \/ EndDeclaration(c) \/ SettleTorn(c)
    \/ \E c \in Everyone, a \in Answers : Settle(c, a)
    \/ \E grant \in BOOLEAN : SetConsent(grant)
    \/ \E k \in Keys : ApplyAgeRefused(k) \/ ApplyConflict(k)
    \/ ApplySentinel
    \/ Teardown

Spec == Init /\ [][Next]_vars

-----------------------------------------------------------------------------
(* Properties.                                                             *)

EntryShape == [seq : 1..MaxSeq, subj : 1..2, gated : BOOLEAN, band : Bands] \union {None}
DeclarationShape == Declarations \union {None}
TicketShape == [subj : 1..2, band : Bands, after : 0..MaxSeq] \union {None}
AgeShape == Ages \union {None}
CallRecord ==
    [pc : {"begun", "sent", "again", "ending"}, key : Keys, band : Bands, seq : 0..MaxSeq,
     auth : Nat, epoch : Nat, subj : 0..2, preset : BOOLEAN, ticket : TicketShape,
     decl : 0..MaxSeq]
CallShape == CallRecord \union {None}

StoreType ==
    /\ entries \in [Keys -> EntryShape] /\ retained \in [Keys -> EntryShape]
    /\ settled \in [(1..2) \X Keys -> 0..MaxSeq]
    /\ auth \in [blocked : BOOLEAN, epoch : Nat]
    /\ declaring \in [Keys -> DeclarationShape] /\ confirmed \in SUBSET Keys
    /\ ticket \in [Keys -> TicketShape]

CallType ==
    /\ subject \in [id : 0..2, reminted : BOOLEAN] /\ (subject.id = 2 => subject.reminted)
    /\ fetchSeq \in 0..MaxSeq
    /\ consent \in [granted : BOOLEAN, epoch : Nat] /\ torn \in BOOLEAN
    /\ calls \in [Everyone -> CallShape]
    /\ \A c \in Everyone : /\ At(c, "sent") => calls[c].seq > 0
                           /\ At(c, "again") => calls[c].seq = 0

HistType ==
    /\ turns \in 0..MaxTurns
    /\ ended \in [Keys -> 0..MaxSeq] /\ barred \in 0..MaxSeq /\ denied \in 0..MaxSeq
    /\ age \in [Keys -> AgeShape]

TypeOK == StoreType /\ CallType /\ HistType

\* An assignment withdrawn by a verdict never comes back from an answer to an
\* earlier request, from the entries the auth latch retains, or, after the
\* sentinel, from any request that was already under way (installLocked, the
\* sequence fence and the auth epoch together).
NoRevival ==
    \A k \in Keys : \A e \in {entries[k], retained[k]} \ {None} :
       e.seq > ended[k] /\ e.seq > barred

\* e is a real-subject assignment from before the host's last declaration,
\* and that was of a minor.
PredatesMinor(k, e) ==
    IF age[k] = None THEN FALSE
    ELSE age[k].band = "minor" /\ e.gated /\ e.seq < age[k].seq

AgeFits(k, e) == PredatesMinor(k, e) => age[k].lost

\* Once the host has declared a non-adult age, no getter and no fetch that
\* was under way, from the cache or superseded, returns an assignment
\* decided without that declaration, whatever becomes of the
\* request that carries it (beginHostDeclaration, endNonAdultDeclaration), as
\* long as the subject it was declared for is the current one.
MinorNotServed ==
    /\ \A k \in Keys : Visible(k) # None => AgeFits(k, Visible(k))
    /\ told # None => AgeFits(told.key, told.entry)

\* An answer to a request sent before consent was withdrawn is not installed
\* after consent is given again (settleExperimentFetch's consent epoch).
NoInstallAcrossDenial ==
    [][\A k \in Keys :
          (entries'[k] # None /\ entries'[k] \notin {entries[k], retained[k]})
             => entries'[k].seq > denied]_vars
=============================================================================
