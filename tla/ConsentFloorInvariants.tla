----------------------- MODULE ConsentFloorInvariants -----------------------
(***************************************************************************)
(* The inductive invariants of ConsentFloor. A decision's key is its place *)
(* in decision order; wit are the keys that a file has held, mine those    *)
(* this process took. ConsentFloorProofs shows that every step keeps them  *)
(* and what follows from them.                                             *)
(***************************************************************************)
EXTENDS ConsentFloor

Rcpt == [key : Nat, at : Nat, dec : Kinds]

\* The receipts of a trail, without their places.
Receipts(s) == {s[i] : i \in 1..Len(s)}

-----------------------------------------------------------------------------
(* The inductive invariant of decisions, stamps and files.                 *)

Decisions == {"granted", "denied", "minor"}
Middle == {"mint", "record", "mark"}
Rec == [st : {"absent", "ok", "bad"}, dec : Decisions, at : Nat, key : Nat, unw : BOOLEAN, unwAt : Nat]
Call == [pc : {"idle", "turn"} \cup Middle, dec : Decisions, key : Nat, snap : Nat, at : Nat,
         minted : BOOLEAN, safe : BOOLEAN]
Pass == [pc : {"idle", "retryMint", "retryPersist", "retryRecord", "claim", "next", "recheck", "post",
               "reply", "gate", "events"},
         r : Rcpt \cup {None}, handed : SUBSET Nat, verdict : {"none", "recorded", "refused"}]

\* A pass has a receipt in hand.
InHand(d) == pass[d].pc \in {"recheck", "post", "reply"}

OutboxTypes ==
    /\ outFile \in [st : {"absent", "ok", "bad"}, rs : Seq(Rcpt)]
    /\ trail \in Seq(Rcpt) /\ marks \in SUBSET Nat /\ settled \in SUBSET Nat
    /\ dirty \in BOOLEAN /\ unusable \in BOOLEAN /\ unprovable \in BOOLEAN /\ preserve \in BOOLEAN
    /\ wit \in SUBSET Nat

CoreTypes ==
    /\ recFile \in Rec
    /\ up \in BOOLEAN /\ live \in Decisions \cup {"undecided"} /\ epoch \in Nat /\ lastStamp \in Nat
    /\ recOwed \in Rcpt \cup {None} /\ mintOwed \in Rcpt \cup {None}
    /\ call \in [Callers -> Call]
    /\ kind \in Seq(Kinds) /\ mine \in SUBSET Nat
    /\ damage \in Nat

PassTypes ==
    /\ pass \in [Dispatchers -> Pass] /\ \A d \in Dispatchers : InHand(d) => pass[d].r \in Rcpt
    /\ claim \in Dispatchers \cup {None}
    /\ server \in Seq(Rcpt) /\ refused \in SUBSET Nat /\ answered \in SUBSET Nat

TypeInv == OutboxTypes /\ CoreTypes /\ PassTypes

\* The receipts in memory, on file, and in either.
Onhand == Receipts(trail)
Filed == Receipts(outFile.rs)
All == Onhand \cup Filed

\* A decision that was taken, and its key.
Taken(k) == k \in 1..Len(kind)
Is(k, dec) == Taken(k) /\ kind[k] = dec

KnownInv ==
    /\ \A k \in wit \cup mine \cup settled : Taken(k)
    /\ \A r \in All : Is(r.key, r.dec)
    /\ \A r \in Onhand : r.key \in wit \cup mine
    /\ \A r \in Filed : r.key \in wit
    /\ recFile.st = "ok" => recFile.key \in wit /\ Is(recFile.key, recFile.dec)
    /\ recOwed # None => recOwed.key \in wit \cup mine /\ Is(recOwed.key, recOwed.dec)
    /\ mintOwed # None => mintOwed.key \in mine /\ Is(mintOwed.key, mintOwed.dec)
    /\ \A c \in Callers : call[c].pc # "idle" => call[c].key \in mine /\ Is(call[c].key, call[c].dec)

\* The record is this decision's, or an older one's.
Agrees(k, at) ==
    recFile.st = "ok" =>
        (recFile.key = k /\ recFile.at = at) \/ (recFile.key < k /\ recFile.at < at)

\* Before its turn a decision is newer than everything that was handled.
TurnOK(q) ==
    q.pc = "turn" =>
        /\ \A k \in wit \cup settled : k < q.key
        /\ \A r \in All : r.key < q.key
        /\ mintOwed # None => mintOwed.key < q.key
        /\ recOwed # None => recOwed.key < q.key
        /\ \A c \in Callers : call[c].pc \in Middle => call[c].key < q.key

\* Before its receipt is minted; a denial has its stamp and its record.
MintOK(q) ==
    q.pc = "mint" =>
        /\ \A k \in wit : k <= q.key
        /\ \A k \in settled : k < q.key
        /\ \A r \in All : r.key < q.key
        /\ mintOwed # None => mintOwed.key < q.key
        /\ q.dec = "granted" =>
              (\A k \in wit : k < q.key) /\ (recOwed # None => recOwed.key < q.key)
        /\ q.dec # "granted" =>
              /\ \A r \in All : r.at < q.at
              /\ q.at <= lastStamp /\ Agrees(q.key, q.at)
              /\ recOwed # None => recOwed = Owed(q.dec, q.at, q.key)

\* After it.
MintedOK(q) ==
    q.pc \in {"record", "mark"} =>
        /\ \A k \in wit : k <= q.key
        /\ \A r \in All : r.key <= q.key /\ r.at <= q.at
        /\ q.at <= lastStamp /\ Agrees(q.key, q.at)
        /\ mintOwed # None => mintOwed = Owed(q.dec, q.at, q.key)
        /\ q.pc = "record" =>
              /\ q.dec = "granted" /\ (recOwed # None => recOwed.key < q.key)
              /\ recFile.st = "ok" => recFile.key < q.key
        /\ q.pc = "mark" => (recOwed # None => recOwed = Owed(q.dec, q.at, q.key))

CallInv ==
    /\ \A c \in Callers : TurnOK(call[c]) /\ MintOK(call[c]) /\ MintedOK(call[c])
    /\ \A c, o \in Callers : c # o /\ call[c].pc = "turn" /\ call[o].pc = "turn" => call[c].key # call[o].key
    /\ \A c, o \in Callers : call[c].pc \in Middle /\ call[o].pc \in Middle => c = o

\* What is owed belongs to the newest decision that was handled.
OwedInv ==
    /\ mintOwed # None =>
          /\ mintOwed.at <= lastStamp /\ \A k \in settled : k < mintOwed.key
          /\ \A r \in All : r.key < mintOwed.key /\ r.at < mintOwed.at
    /\ recOwed # None => recOwed.at <= lastStamp
    /\ ~Deciding =>
          /\ mintOwed # None => Agrees(mintOwed.key, mintOwed.at) /\ \A k \in wit : k <= mintOwed.key
          /\ recOwed # None => \A r \in All : r.key <= recOwed.key /\ r.at <= recOwed.at
          /\ recOwed # None /\ mintOwed # None => mintOwed = recOwed

\* No stamp is ahead of the clock; receipts newer than the record have later
\* stamps, unless the record's own was advanced by a mark.
StampInv ==
    /\ up => recFile.at <= lastStamp /\ \A r \in All : r.at <= lastStamp
    /\ recFile.st = "ok" => \A r \in All :
          /\ r.key > recFile.key => r.at > recFile.at \/ (recFile.unw /\ r.at <= recFile.unwAt)
          /\ r.key <= recFile.key => r.at <= recFile.at

\* Memory and file: what was not settled is in both, in the same order, and
\* what is only in memory is newer.
KeptInv ==
    /\ TrailOrdered
    /\ \A r \in Onhand : r.key \notin settled
    /\ up => \A r \in Filed : r.key \in settled \/ r \in Onhand
    /\ \A r \in Filed, t \in Onhand : r.key \in settled \/ t \in Filed \/ r.key < t.key
    /\ up /\ ~dirty => trail = outFile.rs

DownInv ==
    ~up => /\ trail = <<>> /\ mintOwed = None /\ recOwed = None /\ settled = {} /\ ~dirty
           /\ \A c \in Callers : call[c].pc = "idle"
           /\ \A d \in Dispatchers : pass[d].pc = "idle"

Base == TypeInv /\ KnownInv /\ CallInv /\ OwedInv /\ StampInv /\ KeptInv /\ DownInv

-----------------------------------------------------------------------------
(* The inductive invariant of denials: where the last proof of one stays.  *)

\* k is not older than anything that was ever on disk, or is.
Top(k) == \A j \in wit : j <= k
Passed(k) == \E j \in wit : j > k

\* A receipt that something on disk was not older than.
OnFile(r) == \E k \in wit : r.key <= k
FreshReceipt == \E r \in Onhand : ~OnFile(r)

RecordHas(k) == recFile.st = "ok" /\ recFile.key = k

\* After damage no file proves a grant, whatever its receipts say.
Lost ==
    /\ damage > 0
    /\ \/ recFile.st = "bad"
       \/ outFile.st = "bad" /\ (~up \/ preserve \/ FreshReceipt)
       \/ recFile.st = "ok" /\ recFile.dec # "granted" /\ \A r \in All : OnFile(r) => r.at <= recFile.at
       \/ recFile.st = "ok" /\ recFile.unw /\ \A r \in All : OnFile(r) => r.at <= recFile.unwAt

\* The files keep a start from taking up a grant older than the denial n,
\* whatever becomes of its receipt: the record is that denial, or says
\* forced-minor; or no grant can be proved.
Covered(n) == (recFile.st = "ok" /\ (recFile.key = n \/ recFile.dec = "minor")) \/ Lost

\* A receipt is held back as the only proof: it is marked, or about to be.
Proof(k) ==
    \/ k \in marks
    \/ \E c \in Callers : /\ call[c].pc = "mark" /\ call[c].key = k /\ call[c].minted
                          /\ recOwed # None /\ recOwed.dec # "granted" /\ Last(trail).key = k

ZeroInv == recFile.st = "bad" \/ outFile.st = "bad" \/ recFile.unw => damage > 0

\* Of a decision in its slow half, and of an owed mint: what the record has.
HeldInv ==
    /\ \A c \in Callers :
          /\ call[c].pc = "mint" /\ call[c].key \in wit => RecordHas(call[c].key)
          /\ call[c].pc \in {"record", "mark"} /\ mintOwed # None /\ call[c].key \in wit => RecordHas(call[c].key)
          /\ call[c].pc \in {"mint", "mark"} /\ call[c].dec # "granted" => recOwed # None \/ RecordHas(call[c].key)
    /\ ~Deciding /\ mintOwed # None =>
          /\ mintOwed.key \in wit => RecordHas(mintOwed.key)
          /\ mintOwed.dec # "granted" => recOwed # None \/ RecordHas(mintOwed.key)

\* An owed record is older than a denial on disk only after damage.
OwedTop ==
    ~Deciding /\ recOwed # None =>
        \A n \in wit : Top(n) /\ kind[n] # "granted" /\ n > recOwed.key => damage > 0 /\ recOwed.dec # "granted"

\* The newest decision on disk, when it is a denial, is in the trail or is
\* covered; a denial's receipt that is its last proof is held back.
DeniedInv ==
    /\ \A n \in wit : Top(n) /\ kind[n] # "granted" =>
          /\ n \in Keys(outFile.rs) \/ Covered(n)
          /\ up => n \in Keys(trail) \/ Covered(n)
    /\ \A r \in Onhand : ~Granted(r) /\ Top(r.key) /\ (r.key \in wit => ~Covered(r.key)) => Proof(r.key)

\* What a pass has in hand is not the last proof of a denial.
HandInv ==
    \A d \in Dispatchers : InHand(d) =>
        /\ Is(pass[d].r.key, pass[d].r.dec)
        /\ Granted(pass[d].r) => pass[d].r.key \in wit
        /\ ~Granted(pass[d].r) /\ Top(pass[d].r.key) => pass[d].r.key \in wit /\ Covered(pass[d].r.key)

\* A grant in force is newer than every denial; a grant in line may open the
\* live state only if it is.
LiveInv ==
    /\ live = "granted" => \E k \in wit \cup mine :
          /\ \A j \in wit \cup mine : j >= k => kind[j] = "granted"
          /\ \A c \in Callers : call[c].pc = "turn" => call[c].key # k
    /\ \A c \in Callers : call[c].pc = "turn" =>
          /\ call[c].snap <= epoch
          /\ call[c].dec = "granted" /\ epoch = call[c].snap =>
                \A j \in wit \cup mine : j >= call[c].key => kind[j] = "granted"

Denials == ZeroInv /\ HeldInv /\ OwedTop /\ DeniedInv /\ HandInv /\ LiveInv

\* A process that is gone has taken no decision.
GoneInv == ~up => mine = {}

Floor == Base /\ Denials /\ GoneInv

\* Forced-minor is the last word of a process and of its files.
MinorInv ==
    damage = 0 =>
        /\ up => \A k \in wit \cup mine : kind[k] = "minor" => live = "minor"
        /\ \A j, k \in wit \cup mine : kind[j] = "minor" /\ j < k => kind[k] = "minor"

-----------------------------------------------------------------------------
(* The inductive invariant of grants: receipt and record travel together.  *)

\* What a pass has in hand, and what the service has recorded.
SentKeys == Keys(server) \cup {pass[d].r.key : d \in {e \in Dispatchers : InHand(e)}}

\* The newest decision on disk, when it is a grant, is in the trail or has
\* the record.
PairOnFile ==
    \A n \in wit : Top(n) /\ kind[n] = "granted" =>
        /\ n \in Keys(outFile.rs) \/ RecordHas(n)
        /\ up => n \in Keys(trail) \/ RecordHas(n)

\* Its receipt waits for the record.
PairHeld ==
    \A r \in Onhand : Granted(r) /\ Top(r.key) =>
        \/ RecordHas(r.key) \/ r.key \in marks
        \/ \E c \in Callers : call[c].pc \in Middle /\ call[c].key = r.key

\* A record that is not written is owed, by the newest decision that was
\* handled.
PairOwed ==
    /\ \A c \in Callers : call[c].pc \in {"record", "mark"} /\ ~call[c].minted => mintOwed # None
    /\ \A c \in Callers : call[c].pc = "mark" => recOwed # None \/ RecordHas(call[c].key)
    /\ ~Deciding /\ mintOwed # None => recOwed # None \/ RecordHas(mintOwed.key)
    /\ ~Deciding /\ recOwed # None => Top(recOwed.key)

\* A grant leaves for the service only behind its record.
SentInv ==
    \A k \in SentKeys :
        /\ Taken(k)
        /\ kind[k] = "granted" => k \in wit /\ (Top(k) => RecordHas(k))

AbsentInv == outFile.st = "absent" => outFile.rs = <<>>

Pair == PairOnFile /\ PairHeld /\ PairOwed /\ SentInv /\ AbsentInv
PairInv == damage = 0 => Pair

-----------------------------------------------------------------------------
(* The inductive invariant of delivery: what left is older than what waits. *)

\* A pass that has the claim, one whose receipt is yet to be answered, and a
\* key that the service settled.
Holding(d) == pass[d].pc \in {"next", "recheck", "post", "reply"}
Leaving(d) == pass[d].pc \in {"recheck", "post"}
Heard(k) == k \in Keys(server) \cup refused

\* The receipt may still be recorded in its place; after damage this is said
\* of denials only.
InOrder(r) ==
    damage = 0 \/ ~Granted(r) => Heard(r.key) \/ \A k \in Keys(server) : k < r.key

\* k is newer than all that ever left this process.
Newer(k) == k \in Nat /\ \A j \in SentKeys : j < k

ClaimInv == \A d \in Dispatchers : Holding(d) => claim = d

QueueInv == \A r \in All : InOrder(r)

\* Nothing older waits behind what leaves, but grants that are not provable.
AheadInv ==
    \A d \in Dispatchers : Leaving(d) =>
        /\ InOrder(pass[d].r)
        /\ \A t \in Onhand : pass[d].r.key <= t.key \/ (Granted(t) /\ damage > 0)

\* Decisions without a receipt are newer than all that left.
SentOlder ==
    /\ \A k \in SentKeys : Taken(k)
    /\ mintOwed # None => Newer(mintOwed.key)
    /\ \A c \in Callers : call[c].pc \in {"turn", "mint"} => Newer(call[c].key)

\* A receipt left on file after it was settled has been heard, and so has one
\* whose answer is at hand.
HeardInv ==
    /\ \A r \in Filed : r.key \in settled => Heard(r.key)
    /\ \A d \in Dispatchers : pass[d].pc = "reply" /\ pass[d].verdict # "none" => Heard(pass[d].r.key)

VouchInv == unusable \/ unprovable => damage > 0

Deliver ==
    /\ DeliveryInDecisionOrder
    /\ ClaimInv /\ QueueInv /\ AheadInv /\ SentOlder /\ HeardInv /\ VouchInv

-----------------------------------------------------------------------------
(* The undecided floor: what a start leaves when it can tell no decision.  *)

\* Nothing on hand can leave as a grant.
NoGrantLeaves == unusable \/ unprovable \/ trail = <<>>

\* An undecided process has handled no decision of its own, and when the
\* newest on disk is a denial, no grant may leave.
UndecInv ==
    /\ ~up => epoch = 0
    /\ up /\ live = "undecided" =>
          /\ epoch = 0 /\ mintOwed = None /\ \A c \in Callers : call[c].pc \notin Middle
          /\ \A k \in mine : kind[k] = "granted"
          /\ \A n \in wit : Top(n) /\ kind[n] # "granted" =>
                NoGrantLeaves /\ \A d \in Dispatchers : pass[d].pc # "recheck"

\* Only a grant is looked at again.
RecheckInv == \A d \in Dispatchers : pass[d].pc = "recheck" => Granted(pass[d].r)

Undec == AbsentInv /\ UndecInv /\ RecheckInv

-----------------------------------------------------------------------------
(* The event leg: where the newest grant is until the service answers it.  *)

\* In memory: the decision waits to be answered, was answered, or is no longer
\* the newest.
Backed(k) ==
    \/ k \in Keys(trail) \/ k \in answered \/ Passed(k)
    \/ mintOwed # None /\ mintOwed.key = k

\* The same of the newest grant on disk; a damaged file may have lost it.
FiledInv ==
    \A n \in wit : Top(n) /\ kind[n] = "granted" => n \in Keys(outFile.rs) \/ n \in answered \/ Lost

HandedInv == \A d \in Dispatchers : pass[d].handed \subseteq answered

SettledInv == \A k \in settled : k \in answered \/ Passed(k)

\* A grant whose receipt is owed was never on disk.
MintedInv ==
    /\ mintOwed # None /\ mintOwed.dec = "granted" => mintOwed.key \notin wit
    /\ \A c \in Callers : call[c].pc = "record" /\ call[c].safe => mintOwed = None

\* A grant comes to its record, and its record is owed, with the receipt.
RecordInv ==
    \A c \in Callers, k \in Nat : call[c].pc = "record" /\ call[c].key = k =>
        /\ Backed(k)
        /\ call[c].safe => k \in Keys(outFile.rs) \/ k \in answered

OwedGrant ==
    \A k \in Nat : recOwed # None /\ recOwed.dec = "granted" /\ recOwed.key = k =>
        /\ Backed(k) \/ \E c \in Callers : call[c].pc \in Middle /\ k < call[c].key
        /\ ~Deciding => \A n \in wit : Top(n) /\ kind[n] = "granted" => n <= k \/ n \in answered

\* The decisions of which more than a ticket is known.
Waits(k) == \E c \in Callers : call[c].pc = "turn" /\ call[c].key = k
Handled == {k \in wit \cup mine : ~Waits(k)}

TurnNewest == \A c \in Callers : call[c].pc = "turn" => \A j \in mine : j < call[c].key \/ Waits(j)

GrantBacked ==
    up /\ live = "granted" =>
        \A n \in Handled : (\A j \in Handled : j <= n) =>
            Backed(n) \/ \E c \in Callers : call[c].pc = "mint" /\ call[c].key = n

Gate ==
    /\ FiledInv /\ SettledInv /\ MintedInv /\ RecordInv /\ OwedGrant /\ TurnNewest /\ GrantBacked

-----------------------------------------------------------------------------
(* The clean close: the live state is what the files restore.              *)

\* A denial that waits for its turn has shut the live state already.
DenialWaits == \E c \in Callers : call[c].pc = "turn" /\ call[c].dec # "granted"

\* A grant that may not open the live state is older than such a denial; the
\* newest of them is in force.
EpochInv ==
    /\ epoch > 0 => \E k \in mine : kind[k] # "granted"
    /\ \A c \in Callers : call[c].pc = "turn" /\ call[c].dec = "granted" /\ call[c].snap < epoch =>
          \E o \in Callers : call[o].pc = "turn" /\ call[o].dec # "granted" /\ call[c].key < call[o].key
    /\ \A c \in Callers : call[c].pc = "turn" /\ call[c].dec # "granted" =>
          \/ live = call[c].dec
          \/ \E o \in Callers : call[o].pc = "turn" /\ call[o].dec # "granted" /\ call[c].key < call[o].key

\* The decisions of this process are newer than what it found on disk.
OldInv == \A k \in wit \ mine, j \in mine : k < j

\* The newest decision handled is in force; of a decision that was found on
\* disk this is said only while no file was damaged.
Newest(n) == n \in Handled /\ \A j \in Handled : j <= n
InForce ==
    up => /\ \A n : Newest(n) /\ (n \in mine \/ damage = 0) => live = kind[n] \/ DenialWaits
          /\ Handled = {} => live = "undecided" \/ DenialWaits

\* It has been on disk, or is on its way there.
Carried(n) ==
    n \in wit \/ n \in Keys(trail) \/ (mintOwed # None /\ mintOwed.key = n) \/ Passed(n)

NewestCarried ==
    up => \A n : Newest(n) => Carried(n) \/ \E c \in Callers : call[c].pc = "mint" /\ call[c].key = n

\* A process that has taken no decision.
NoneTaken == up /\ epoch = 0 /\ \A k \in mine : Waits(k)

\* What the files can lose or settle leaves no grant that a start takes up.
HeldFile == outFile.st = "bad" /\ preserve
Blocked ==
    /\ recFile.st = "ok" /\ recFile.dec = "granted" => recFile.unw \/ HeldFile
    /\ \A t \in All : Granted(t) =>
          \/ recFile.st = "bad" \/ HeldFile \/ (recFile.unw /\ t.at <= recFile.unwAt)
          \/ recFile.st = "ok" /\ (recFile.dec = "minor" \/ t.at <= recFile.at)

\* Or the denial at the trail's tail heals the record, which is owed.
TailOwed ==
    /\ recOwed # None /\ recOwed.dec # "granted"
    /\ trail # <<>> /\ Last(trail).key = recOwed.key /\ ~Granted(Last(trail))
    /\ Last(outFile.rs) = Last(trail) /\ TailHeals(recFile, outFile)
    /\ \A d \in Dispatchers : InHand(d) => pass[d].r.key # recOwed.key

RestInv ==
    NoneTaken /\ live # "granted" =>
        /\ mintOwed = None /\ (recOwed # None => recOwed.dec # "granted")
        /\ Blocked \/ TailOwed

Clean == EpochInv /\ OldInv /\ InForce /\ NewestCarried /\ RestInv

-----------------------------------------------------------------------------
(* What kinds of steps do and keep: the terms the proofs speak in.          *)

\* The mirror that a save is to write fits the file: together with what is
\* settled it holds the file's receipts, and what it adds is newer.
Fits(mirror, done) ==
    /\ mirror \in Seq(Rcpt) /\ Ordered(mirror) /\ done \in SUBSET Nat
    /\ \A r \in Receipts(mirror) : r.key \notin done
    /\ \A r \in Filed : r.key \in done \/ r \in Receipts(mirror)
    /\ \A r \in Filed, t \in Receipts(mirror) : r.key \in done \/ t \in Filed \/ r.key < t.key

\* A save that did not reach the file, and one that did.
Unwritten(mirror, done, ms) ==
    /\ dirty' = TRUE /\ trail' = mirror /\ settled' = done /\ marks' = ms
    /\ outFile' = outFile /\ wit' = wit

Written(mirror, done, ms) ==
    /\ dirty' = FALSE
    /\ trail' \in Seq(Rcpt) /\ Ordered(trail') /\ Receipts(trail') \subseteq Receipts(mirror)
    /\ mirror # <<>> => trail' # <<>> /\ Last(trail') = Last(mirror)
    /\ outFile' = [st |-> "ok", rs |-> trail']
    /\ settled' = done \cup (Keys(mirror) \ Keys(trail'))
    /\ marks' = ms \ (Keys(mirror) \ Keys(trail'))
    /\ wit' = wit \cup Keys(trail')

CoreUnchanged ==
    UNCHANGED <<recFile, outFile, up, live, epoch, lastStamp, trail, dirty, marks, settled, unusable,
                unprovable, preserve, recOwed, mintOwed, call, kind, wit, mine, damage>>

QuietPass(d) ==
    \/ StartPass(d) \/ ClaimDispatch(d) \/ NextReceipt(d) \/ RecheckGrant(d)
    \/ ServiceRecords(d) \/ ServiceRefuses(d) \/ ServiceUnavailable(d)
    \/ ReceiptRetryable(d) \/ ReceiptUnanswered(d) \/ EventLeg(d) \/ EventsSent(d)

DecisionsUnchanged ==
    UNCHANGED <<recFile, up, live, epoch, lastStamp, recOwed, mintOwed, call, kind, mine, damage>>

Shrinks ==
    /\ OutboxTypes' /\ KeptInv' /\ DecisionsUnchanged
    /\ Onhand' \subseteq Onhand /\ Filed' \subseteq All
    /\ \A r \in Filed' : r.key \in wit'
    /\ wit \subseteq wit' /\ \A k \in wit' : k \in wit \/ \E r \in All : r.key = k
    /\ \A k \in settled' : k \in settled \/ \E r \in All : r.key = k

\* The newest receipt joins the trail; nothing newer was ever handled, unless
\* it is this decision's own record.
Appends(r) ==
    /\ OutboxTypes' /\ KeptInv'
    /\ Onhand' \subseteq Onhand \cup {r} /\ Filed' \subseteq All \cup {r}
    /\ \A t \in Filed' : t.key \in wit'
    /\ wit \subseteq wit' /\ \A k \in wit' : k \in wit \/ k = r.key \/ \E t \in All : t.key = k
    /\ \A k \in settled' : k \in settled \/ k = r.key \/ \E t \in All : t.key = k
    /\ trail' # <<>> /\ Last(trail') = r
    /\ ~unusable' /\ ~unprovable' /\ ~preserve'

\* What MintReceipt does, with the receipt r.
Mints(c, r, minted, ok) ==
    /\ up /\ r.key = call[c].key /\ r.dec = call[c].dec
    /\ IF call[c].dec = "granted"
         THEN r.at > lastStamp /\ lastStamp' = r.at ELSE r.at = call[c].at /\ lastStamp' = lastStamp
    /\ call'[c] \in Call
    /\ call'[c] = [call[c] EXCEPT !.pc = IF call[c].dec = "granted" THEN "record" ELSE "mark",
                                  !.at = r.at, !.minted = minted, !.safe = minted /\ ok]
    /\ call' \in [Callers -> Call] /\ \A o \in Callers : o # c => call'[o] = call[o]
    /\ UNCHANGED <<recFile, up, live, epoch, recOwed, wipe, passVars, kind, mine, damage>>
    /\ \A t \in All : t.key < r.key /\ t.at < r.at
    /\ \/ ~minted /\ ok /\ mintOwed' = r /\ UNCHANGED <<outFile, outboxVars, wit>>
       \/ /\ minted /\ mintOwed' = None /\ Appends(r)
          /\ \/ Unwritten(Append(trail, r), settled, marks) /\ ~ok
             \/ Written(Append(trail, r), settled, marks) /\ ok

\* The record of r is written, or owed.
Records(r, persisted) ==
    /\ IF persisted
         THEN recFile' = Record(r.dec, r.at, r.key) /\ recOwed' = None /\ marks' = {} /\ wit' = wit \cup {r.key}
         ELSE recFile' = recFile /\ recOwed' = r /\ marks' = marks /\ wit' = wit
    /\ UNCHANGED <<outFile, mintOwed, trail, dirty, settled, unusable, unprovable, preserve>>

\* What GrantRecord does.
GrantRecords(c, r, persisted) ==
    /\ up /\ call[c].pc = "record" /\ call[c].dec = "granted"
    /\ r = Owed("granted", call[c].at, call[c].key)
    /\ Records(r, persisted)
    /\ persisted => call[c].safe
    /\ call' \in [Callers -> Call] /\ call'[c] = [call[c] EXCEPT !.pc = "mark"]
    /\ \A o \in Callers : o # c => call'[o] = call[o]
    /\ UNCHANGED <<up, live, epoch, lastStamp, passVars, kind, mine, damage>>

\* What BeginDenial does.
DenialBegins(c, r, persisted) ==
    /\ up /\ call[c].pc = "turn" /\ call[c].dec # "granted"
    /\ r.key = call[c].key /\ r.dec = call[c].dec /\ r.at > lastStamp /\ lastStamp' = r.at
    /\ Records(r, persisted)
    /\ call' \in [Callers -> Call] /\ call'[c] = [call[c] EXCEPT !.pc = "mint", !.at = r.at]
    /\ \A o \in Callers : o # c => call'[o] = call[o]
    /\ UNCHANGED <<up, live, epoch, passVars, kind, mine, damage>>

FilesUnchanged ==
    UNCHANGED <<recFile, outFile, up, lastStamp, trail, dirty, settled, unusable, unprovable, preserve,
                recOwed, mintOwed, passVars, wit, damage>>

\* What DamageFile does.
Damages ==
    /\ ~up /\ damage' = damage + 1 /\ Filed' \subseteq Filed
    /\ outFile' \in [st : {"absent", "ok", "bad"}, rs : Seq(Rcpt)] /\ Ordered(outFile'.rs)
    /\ \/ recFile' = recFile /\ outFile'.st = "bad"
       \/ recFile' = [AbsentRecord EXCEPT !.st = "bad"] /\ outFile' = outFile
    /\ UNCHANGED <<up, live, epoch, lastStamp, outboxVars, recOwed, mintOwed, call, passVars, kind, mine, wit>>

\* What Restart does, with the record rec that the files resolve to.
Restarts(rec) ==
    /\ ~up /\ up' = TRUE
    /\ Onhand = {} /\ All = Filed /\ Onhand' = Filed /\ Filed' = Filed /\ All' = Filed
    /\ trail' = outFile.rs /\ lastStamp' \in Nat
    /\ recFile.at <= lastStamp' /\ rec.at <= lastStamp' /\ \A r \in Filed : r.at <= lastStamp'
    /\ \/ recFile' = recFile
       \/ recFile' = rec /\ TailHeals(recFile, outFile)
       \/ \E at \in Nat :
             /\ recFile' = Unwitnessed(rec, at) /\ rec.st = "ok" /\ (rec.unw => at > rec.unwAt)
             /\ \A r \in Filed : r.at <= at
             /\ at <= lastStamp'
    /\ wit' = wit
    /\ \/ recOwed' = None /\ marks' = {}
       \/ /\ TailHeals(recFile, outFile) /\ recOwed' = Owed(rec.dec, rec.at, rec.key) /\ recOwed' \in Rcpt
          /\ recFile.st = "ok" => rec.at > recFile.at
    /\ live' = RestoredState(recFile, outFile)
    /\ unusable' = (outFile.st = "bad") /\ unprovable' = GrantsUnprovable(recFile, outFile)
    /\ UNCHANGED <<outFile, epoch, dirty, settled, mintOwed, call, passVars, kind, mine, damage>>

\* What covered the newest denial on disk still does.
CoverKept ==
    \A n \in wit : Top(n)' /\ Covered(n) /\ kind[n] # "granted" => Covered(n)'

HandKept == \A d \in Dispatchers : InHand(d)' => InHand(d) /\ pass'[d].r = pass[d].r

HistoryKept == wit \subseteq wit' /\ \A k : Taken(k) => Taken(k)' /\ kind'[k] = kind[k]

\* What most steps leave of the decisions.
Settles == wit' \cup mine' = wit \cup mine /\ UNCHANGED <<kind, live, up, damage>>

\* The newest decision on disk keeps its record.
RecKept == \A n \in wit : Top(n)' /\ RecordHas(n) => RecordHas(n)'

\* A pass goes on with the receipt it has, or has none.
PassKept ==
    \A d \in Dispatchers :
        /\ Holding(d)' => Holding(d) /\ claim' = claim
        /\ InHand(d)' => pass'[d] = pass[d]

\* What leaves the file or the trail was answered, or is no longer the newest.
FileKept == \A k \in Keys(outFile.rs) : k \in Keys(outFile'.rs) \/ k \in answered' \/ Passed(k)'
TrailKept == \A k \in Keys(trail) : k \in Keys(trail') \/ k \in answered' \/ Passed(k)'
LostKept == \A n \in wit : Top(n)' /\ kind[n] = "granted" /\ n \notin answered' /\ Lost => Lost'

=============================================================================
