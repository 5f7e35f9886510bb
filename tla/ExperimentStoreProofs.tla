----------------------- MODULE ExperimentStoreProofs ------------------------
(***************************************************************************)
(* Proofs about ExperimentStore, for every set of experiments and every    *)
(* bound: the state keeps its shape, an assignment that was ended is not   *)
(* served again, what is left of it in the record is owed its removal, and *)
(* the key of every live fact is known to a later withdrawal.              *)
(*                                                                         *)
(* The record is not what memory believes: a save may fail before or after *)
(* the rename, and a crash may come between.  The argument follows one     *)
(* debt: an entry of the record of the current scope that a verdict has    *)
(* ended is answered for by an owed clear, by an owed drop stamped no      *)
(* lower than the entry, or by an owed write of an entry stamped no lower. *)
(* While a save is under way this has to hold for the record before it and *)
(* for the record after it, with the intents owed in either case.          *)
(***************************************************************************)
EXTENDS ExperimentStore, TLAPS

\* The clear that is owed is that of the current scope.
ClearOwed == IF clear = None THEN FALSE ELSE clear.scope = scope

\* A stored entry e of an experiment whose last ended assignment is g, with q
\* owed, h in memory and c for an owed clear: not ended, or answered for.
Answered(e, q, h, g, c) ==
    \/ e = None
    \/ e.id > g
    \/ c
    \/ q # None /\ q.drop /\ e.at <= q.asOf
    \/ q # None /\ ~q.drop /\ h # None /\ e.at <= h.at

AllAnswered(ents, p) ==
    \A k \in Keys : Answered(ents[k], p[<<scope, k>>], mem[k], gone[k], ClearOwed)

\* The record on file, and the record that a save under way may leave there.
DebtInv ==
    /\ job = None => AllAnswered(RecordFor(scope).ents, pend)
    /\ job # None =>
          /\ AllAnswered(RecordFor(scope).ents, job.onFail)
          /\ job.rec.scope = scope =>
                AllAnswered(job.rec.ents, job.onOK) /\ AllAnswered(job.rec.ents, job.onFail)

\* An owed clear of the current scope finds nothing in memory.
ClearInv == ClearOwed => mem = Nothing /\ kept = Nothing

\* The second phase of the retry finds no save under way; no number is used
\* twice, for an assignment or for a scope.
NumberInv ==
    /\ lane = "capture" => job = None
    /\ \A k \in Keys : gone[k] <= used.ids
    /\ scope <= used.scopes /\ disk.subj <= used.scopes
    /\ disk.rec # None => disk.rec.scope <= used.scopes
    /\ job # None => job.rec.scope <= used.scopes

StoreInv == NumberInv /\ ClearInv /\ DebtInv /\ DroppedStaysGone

LEMMA Bounds ==
    /\ Clocks \subseteq Nat /\ MaxInstalls \in Nat /\ MaxScopes \in Nat /\ MaxScopes >= 1
    /\ MaxFaults \in Nat /\ MaxTurns \in Nat
BY ExperimentStoreAssumption

LEMMA NoneIsApart ==
    /\ None \notin Keys /\ None \notin Scopes /\ None \notin Entries /\ None \notin Intents
    /\ None \notin Clears /\ None \notin Records /\ None \notin Mirrors /\ None \notin Jobs
BY ExperimentStoreAssumption

LEMMA ScopeNumbers == Scopes \subseteq Nat /\ 1 \in Scopes
BY Bounds DEF Scopes

-----------------------------------------------------------------------------
(* Shapes.                                                                 *)

LEMMA EntryShape ==
    ASSUME NEW e \in Entries
    PROVE  e.id \in Nat /\ e.id > 0 /\ e.at \in Nat /\ e.hid \in BOOLEAN
BY Bounds DEF Entries

LEMMA IntentShape ==
    ASSUME NEW q \in Intents
    PROVE  q.asOf \in Nat /\ q.drop \in BOOLEAN /\ q.capture \in BOOLEAN
BY DEF Intents

LEMMA NewIntent ==
    ASSUME NEW a \in Nat, NEW d \in BOOLEAN, NEW c \in BOOLEAN
    PROVE  [asOf |-> a, drop |-> d, capture |-> c] \in Intents
BY DEF Intents

\* A record field by field, and with one field replaced.
LEMMA RecordShape ==
    ASSUME NEW r \in Records
    PROVE  /\ r.scope \in Scopes /\ r.ents \in Held /\ r.hist \in Histories
           /\ \A h \in Histories :
                 /\ [r EXCEPT !.hist = h] \in Records /\ [r EXCEPT !.hist = h].hist = h
                 /\ [r EXCEPT !.hist = h].scope = r.scope /\ [r EXCEPT !.hist = h].ents = r.ents
           /\ \A m \in Held :
                 /\ [r EXCEPT !.ents = m] \in Records /\ [r EXCEPT !.ents = m].ents = m
                 /\ [r EXCEPT !.ents = m].scope = r.scope /\ [r EXCEPT !.ents = m].hist = r.hist
BY DEF Records

LEMMA NothingShape == Nothing \in Held /\ NoPend \in Owed /\ NoKeys \in [Scopes -> Histories]
BY DEF Nothing, Held, NoPend, Owed, NoKeys, Histories

LEMMA HeldShape ==
    ASSUME NEW m \in Held, NEW k \in Keys
    PROVE  /\ m[k] \in Entries \union {None}
           /\ \A e \in Entries \union {None} :
                 [m EXCEPT ![k] = e] \in Held /\ [m EXCEPT ![k] = e][k] = e
           /\ \A e : \A j \in Keys : j # k => [m EXCEPT ![k] = e][j] = m[j]
BY DEF Held

LEMMA OwedShape ==
    ASSUME NEW p \in Owed, NEW s \in Scopes, NEW k \in Keys
    PROVE  /\ p[<<s, k>>] \in Intents \union {None}
           /\ \A q \in Intents \union {None} :
                 [p EXCEPT ![<<s, k>>] = q] \in Owed /\ [p EXCEPT ![<<s, k>>] = q][<<s, k>>] = q
BY DEF Owed

LEMMA OwedOthers ==
    ASSUME NEW p \in Owed, NEW s \in Scopes, NEW k \in Keys, NEW q, NEW j \in Keys, j # k
    PROVE  [p EXCEPT ![<<s, k>>] = q][<<s, j>>] = p[<<s, j>>]
BY DEF Owed

\* A capture keeps its intent owed when its save settles the others.
LEMMA OwedSettled ==
    ASSUME NEW p \in Owed, NEW b \in BOOLEAN, NEW s \in Scopes, NEW k \in Keys
    PROVE  /\ [p EXCEPT ![<<s, k>>] = IF b THEN @ ELSE None] \in Owed
           /\ \A j \in Keys : j # k =>
                 [p EXCEPT ![<<s, k>>] = IF b THEN @ ELSE None][<<s, j>>] = p[<<s, j>>]
<1>1. p[<<s, k>>] \in Intents \union {None}
  BY OwedShape
<1> DEFINE q == IF b THEN p[<<s, k>>] ELSE None
<1>2. q \in Intents \union {None}
  BY <1>1
<1>3. [p EXCEPT ![<<s, k>>] = IF b THEN @ ELSE None] = [p EXCEPT ![<<s, k>>] = q]
  OBVIOUS
<1> HIDE DEF q
<1> QED
  BY <1>2, <1>3, OwedShape, OwedOthers

LEMMA ReleasedShape ==
    ASSUME NEW q \in Intents \union {None}
    PROVE  /\ Released(q) \in Intents \union {None} /\ (Released(q) = None <=> q = None)
           /\ q # None => Released(q).asOf = q.asOf /\ Released(q).drop = q.drop
BY NoneIsApart DEF Released, Intents

LEMMA RecordForShape ==
    ASSUME TypeOK, NEW s \in Scopes
    PROVE  /\ RecordFor(s) \in Records /\ RecordFor(s).scope = s
           /\ RecordFor(s) = disk.rec \/ RecordFor(s).ents = Nothing
           /\ (RecordFor(s).ents # Nothing) =>
                 /\ disk.rec # None /\ disk.rec.scope = s /\ disk.tomb # s
                 /\ RecordFor(s) = disk.rec
<1>1. disk.rec \in Records \union {None}
  BY DEF TypeOK, Disks
<1>2. [scope |-> s, ents |-> Nothing, hist |-> [k \in Keys |-> {}]] \in Records
  BY NothingShape DEF Records, Histories
<1> QED
  BY <1>1, <1>2 DEF RecordFor

LEMMA MirrorOfShape ==
    ASSUME NEW r \in Records
    PROVE  MirrorOf(r) \in Mirrors
<1>1. \A k \in Keys : (IF r.ents[k] = None THEN 0 ELSE r.ents[k].id) \in Nat
  BY RecordShape, HeldShape, EntryShape
<1> QED
  BY <1>1, RecordShape DEF MirrorOf, Mirrors

LEMMA MirrorShape ==
    ASSUME NEW m \in Mirrors
    PROVE  /\ m.keys \in [Keys -> Nat] /\ m.hist \in Histories /\ m.durable \in BOOLEAN
           /\ \A d \in BOOLEAN : [m EXCEPT !.durable = d] \in Mirrors
           /\ \A h \in Histories, d \in BOOLEAN : [m EXCEPT !.hist = h, !.durable = d] \in Mirrors
BY DEF Mirrors

LEMMA CurrentMirror ==
    ASSUME TypeOK
    PROVE  Mirror \in Mirrors
BY RecordForShape, MirrorOfShape DEF Mirror, TypeOK

LEMMA JobShape ==
    ASSUME NEW j \in Jobs
    PROVE  /\ j.rec \in Records /\ j.onOK \in Owed /\ j.onFail \in Owed
           /\ j.without \in Keys \union {None} /\ j.emit \subseteq Facts
BY DEF Jobs

LEMMA NewJob ==
    ASSUME NEW r \in Records, NEW a \in Owed, NEW b \in Owed, NEW w \in Keys \union {None},
           NEW t \in SUBSET Facts
    PROVE  [rec |-> r, onOK |-> a, onFail |-> b, without |-> w, emit |-> t] \in Jobs
BY DEF Jobs

-----------------------------------------------------------------------------
(* Saves and folds.                                                        *)

\* What a started save is, whatever it saves.
LEMMA SaveStarted ==
    ASSUME TypeOK, NEW r \in Records, NEW m \in Mirrors, NEW a \in Owed, NEW b \in Owed,
           NEW w \in Keys \union {None}, StartSave(r, m, a, b, w)
    PROVE  /\ job' \in Jobs /\ job' # None /\ mir' \in Mirrors \union {None}
           /\ job'.rec.scope = r.scope /\ job'.rec.ents = r.ents
           /\ job'.onOK = a /\ job'.onFail = b
<1> DEFINE hist == [k \in Keys |-> m.hist[k] \union Retire(m.keys, r, k)]
           rec  == [r EXCEPT !.hist = hist]
<1>1. hist \in Histories
  <2>1. \A k \in Keys : Retire(m.keys, r, k) \subseteq Nat /\ m.hist[k] \subseteq Nat
    BY MirrorShape DEF Retire, Histories
  <2> QED
    BY <2>1 DEF Histories
<1>2. rec \in Records /\ rec.scope = r.scope /\ rec.ents = r.ents
  BY <1>1, RecordShape
<1>3. /\ job' = [rec |-> rec, onOK |-> a, onFail |-> b, without |-> w, emit |-> {}]
      /\ mir' = IF r.scope # scope THEN mir ELSE [MirrorOf(rec) EXCEPT !.durable = FALSE]
  BY DEF StartSave
<1> HIDE DEF hist, rec
<1>4. job' \in Jobs /\ job'.rec = rec /\ job'.onOK = a /\ job'.onFail = b
  <2>1. {} \in SUBSET Facts
    OBVIOUS
  <2> QED
    BY <1>2, <1>3, <2>1, NewJob
<1>5. mir' \in Mirrors \union {None}
  BY <1>2, <1>3, MirrorOfShape, MirrorShape DEF TypeOK
<1> QED
  BY <1>2, <1>4, <1>5, NoneIsApart

LEMMA FoldEntryShape ==
    ASSUME NEW old \in Entries \union {None}, NEW q \in Intents \union {None},
           NEW e \in Entries \union {None}
    PROVE  FoldEntry(old, q, e) \in Entries \union {None}
BY DEF FoldEntry

LEMMA FoldShape ==
    ASSUME NEW r \in Records, NEW p \in Owed, NEW m \in Held, NEW k
    PROVE  /\ Fold(r, p, m, k) \in Records /\ Fold(r, p, m, k).scope = r.scope
           /\ \A j \in Keys : Fold(r, p, m, k).ents[j] =
                 IF j = k THEN r.ents[j] ELSE FoldEntry(r.ents[j], p[<<r.scope, j>>], m[j])
<1> DEFINE ents == [j \in Keys |-> IF j = k THEN r.ents[j]
                                   ELSE FoldEntry(r.ents[j], p[<<r.scope, j>>], m[j])]
<1>1. \A j \in Keys : /\ r.ents[j] \in Entries \union {None}
                      /\ FoldEntry(r.ents[j], p[<<r.scope, j>>], m[j]) \in Entries \union {None}
  BY RecordShape, HeldShape, OwedShape, FoldEntryShape
<1>2. ents \in Held
  BY <1>1 DEF Held
<1>3. Fold(r, p, m, k) = [r EXCEPT !.ents = ents]
  BY DEF Fold
<1>4. \A j \in Keys : ents[j] = IF j = k THEN r.ents[j]
                                ELSE FoldEntry(r.ents[j], p[<<r.scope, j>>], m[j])
  OBVIOUS
<1> HIDE DEF ents
<1> QED
  BY <1>2, <1>3, <1>4, RecordShape

LEMMA FoldedShape ==
    ASSUME NEW p \in Owed, NEW s \in Scopes, NEW k
    PROVE  /\ Folded(p, s, k) \in Owed
           /\ k \in Keys => Folded(p, s, k)[<<s, k>>] = p[<<s, k>>]
           /\ \A j \in Keys : j # k =>
                 Folded(p, s, k)[<<s, j>>] =
                    IF p[<<s, j>>] # None /\ ~p[<<s, j>>].capture THEN None ELSE p[<<s, j>>]
<1>1. DOMAIN p = Scopes \X Keys /\ \A x \in Scopes \X Keys : p[x] \in Intents \union {None}
  BY DEF Owed
<1>2. \A j \in Keys : <<s, j>> \in Scopes \X Keys /\ <<s, j>>[1] = s /\ <<s, j>>[2] = j
  OBVIOUS
<1> QED
  BY <1>1, <1>2 DEF Folded, Owed, Captures

\* An entry that is answered for stays so when the owed intents are folded
\* into the record: with the intents still owed, and with them settled.
LEMMA FoldAnswers ==
    ASSUME NEW e \in Entries \union {None}, NEW q \in Intents \union {None},
           NEW h \in Entries \union {None}, NEW g \in Nat, NEW c \in BOOLEAN,
           Answered(e, q, h, g, c), h # None => h.id > g
    PROVE  /\ Answered(FoldEntry(e, q, h), q, h, g, c)
           /\ Answered(FoldEntry(e, q, h), IF q # None /\ ~q.capture THEN None ELSE q, h, g, c)
<1>1. e # None => e.at \in Nat /\ e.id \in Nat
  BY EntryShape
<1>2. h # None => h.at \in Nat /\ h.id \in Nat
  BY EntryShape
<1>3. q # None => q.asOf \in Nat /\ q.drop \in BOOLEAN /\ q.capture \in BOOLEAN
  BY IntentShape
<1>4. CASE q = None
  BY <1>4 DEF FoldEntry, Answered
<1>5. CASE q # None /\ q.capture
  BY <1>5 DEF FoldEntry, Answered
<1>6. CASE q # None /\ ~q.capture /\ q.drop
  BY <1>1, <1>3, <1>6 DEF FoldEntry, Answered
<1>7. CASE q # None /\ ~q.capture /\ ~q.drop
  BY <1>1, <1>2, <1>3, <1>7 DEF FoldEntry, Answered
<1> QED
  BY <1>4, <1>5, <1>6, <1>7

LEMMA FoldedRecord ==
    ASSUME NEW r \in Records, NEW p \in Owed, NEW m \in Held, NEW g \in [Keys -> Nat],
           NEW c \in BOOLEAN, NEW k,
           \A j \in Keys : m[j] # None => m[j].id > g[j],
           \A j \in Keys : j # k => Answered(r.ents[j], p[<<r.scope, j>>], m[j], g[j], c)
    PROVE  \A j \in Keys : j # k =>
              /\ Answered(Fold(r, p, m, k).ents[j], p[<<r.scope, j>>], m[j], g[j], c)
              /\ Answered(Fold(r, p, m, k).ents[j], Folded(p, r.scope, k)[<<r.scope, j>>],
                          m[j], g[j], c)
<1> TAKE j \in Keys
<1> HAVE j # k
<1>1. /\ r.ents[j] \in Entries \union {None} /\ m[j] \in Entries \union {None}
      /\ p[<<r.scope, j>>] \in Intents \union {None} /\ g[j] \in Nat /\ r.scope \in Scopes
  BY RecordShape, HeldShape, OwedShape
<1>2. Fold(r, p, m, k).ents[j] = FoldEntry(r.ents[j], p[<<r.scope, j>>], m[j])
  BY FoldShape
<1>3. Folded(p, r.scope, k)[<<r.scope, j>>] =
        IF p[<<r.scope, j>>] # None /\ ~p[<<r.scope, j>>].capture THEN None ELSE p[<<r.scope, j>>]
  BY <1>1, FoldedShape
<1> QED
  BY <1>1, <1>2, <1>3, FoldAnswers

\* The save of a fresh entry: the record without it, the record with it, and
\* the intents owed in either case answer for everything.
LEMMA EntrySynced ==
    ASSUME TypeOK, NEW k \in Keys, NEW m \in Held, m[k] \in Entries, NEW p \in Owed,
           NEW r \in Records, r.scope = scope, NEW g \in [Keys -> Nat], NEW c \in BOOLEAN,
           \A j \in Keys : m[j] # None => m[j].id > g[j],
           \A j \in Keys : j # k => Answered(r.ents[j], p[<<scope, j>>], m[j], g[j], c),
           r.ents[k] # None => r.ents[k].at <= m[k].at,
           SyncEntry(k, m, p, r)
    PROVE  /\ job' \in Jobs /\ job' # None /\ mir' \in Mirrors \union {None}
           /\ job'.rec.scope = scope
           /\ \A j \in Keys :
                 /\ Answered(job'.rec.ents[j], job'.onOK[<<scope, j>>], m[j], g[j], c)
                 /\ Answered(job'.rec.ents[j], job'.onFail[<<scope, j>>], m[j], g[j], c)
                 /\ Answered(r.ents[j], job'.onFail[<<scope, j>>], m[j], g[j], c)
<1> DEFINE x == <<scope, k>>
           r1 == [r EXCEPT !.ents[k] = m[k]]
           owe == [asOf |-> m[k].at, drop |-> FALSE, capture |-> Captures(p, x)]
           ok == [Folded(p, scope, k) EXCEPT ![x] = IF Captures(p, x) THEN @ ELSE None]
           fail == [p EXCEPT ![x] = owe]
           w == IF r.ents[k] = None THEN None ELSE k
<1>1. scope \in Scopes /\ m[k].at \in Nat /\ Captures(p, x) \in BOOLEAN /\ m[k].id > g[k]
  BY EntryShape, OwedShape, NoneIsApart DEF TypeOK, Captures
<1>2. r1 \in Records /\ r1.scope = scope /\ r1.ents[k] = m[k]
      /\ \A j \in Keys : j # k => r1.ents[j] = r.ents[j]
  <2>1. r1 = [r EXCEPT !.ents = [r.ents EXCEPT ![k] = m[k]]]
    BY DEF Records
  <2> HIDE DEF r1
  <2>2. [r.ents EXCEPT ![k] = m[k]] \in Held
    BY RecordShape, HeldShape
  <2> QED
    BY <2>1, <2>2, RecordShape, HeldShape
<1>3. owe \in Intents /\ ~owe.drop /\ owe.asOf = m[k].at
  BY <1>1, NewIntent
<1>4. fail \in Owed /\ fail[x] = owe /\ \A j \in Keys : j # k => fail[<<scope, j>>] = p[<<scope, j>>]
  BY <1>1, <1>3, OwedShape, OwedOthers
<1>5. ok \in Owed /\ \A j \in Keys : j # k => ok[<<scope, j>>] = Folded(p, scope, k)[<<scope, j>>]
  <2>1. Folded(p, scope, k) \in Owed
    BY <1>1, FoldedShape
  <2> QED
    BY <1>1, <2>1, OwedSettled
<1>6. StartSave(Fold(r1, p, m, k), Mirror, ok, fail, w)
  BY DEF SyncEntry
<1>7. w \in Keys \union {None}
  OBVIOUS
<1> HIDE DEF x, r1, owe, ok, fail, w
<1>8. /\ Fold(r1, p, m, k) \in Records /\ Fold(r1, p, m, k).scope = scope
      /\ Fold(r1, p, m, k).ents[k] = m[k] /\ Mirror \in Mirrors
  <2>1. Mirror \in Mirrors
    BY CurrentMirror
  <2>2. Fold(r1, p, m, k).ents[k] = r1.ents[k]
    BY <1>2, FoldShape
  <2> QED
    BY <1>2, <2>1, <2>2, FoldShape
<1>9. /\ job' \in Jobs /\ job' # None /\ mir' \in Mirrors \union {None}
      /\ job'.rec.scope = scope /\ job'.rec.ents = Fold(r1, p, m, k).ents
      /\ job'.onOK = ok /\ job'.onFail = fail
  BY <1>4, <1>5, <1>6, <1>7, <1>8, SaveStarted
<1>10. \A j \in Keys : j # k =>
          /\ Answered(Fold(r1, p, m, k).ents[j], p[<<scope, j>>], m[j], g[j], c)
          /\ Answered(Fold(r1, p, m, k).ents[j], Folded(p, scope, k)[<<scope, j>>], m[j], g[j], c)
  BY <1>2, FoldedRecord
<1>11. /\ Answered(m[k], ok[x], m[k], g[k], c) /\ Answered(m[k], fail[x], m[k], g[k], c)
       /\ Answered(r.ents[k], fail[x], m[k], g[k], c)
  BY <1>1, <1>3, <1>4, NoneIsApart DEF Answered
<1> QED
  BY <1>4, <1>5, <1>8, <1>9, <1>10, <1>11 DEF x

LEMMA DropStampAbove ==
    ASSUME NEW a \in Nat, NEW e \in Entries \union {None}
    PROVE  DropStamp(a, e) \in Nat /\ DropStamp(a, e) >= a /\ (e # None => DropStamp(a, e) > e.at)
BY EntryShape DEF DropStamp

\* The save that a drop makes, or the settlement when the record has no entry
\* to remove.
LEMMA DropSynced ==
    ASSUME TypeOK, job = None, NEW k \in Keys, NEW a \in Nat, NEW m \in Held, m[k] = None,
           NEW p \in Owed, NEW r \in Records, r.scope = scope, NEW g \in [Keys -> Nat],
           NEW c \in BOOLEAN,
           \A j \in Keys : m[j] # None => m[j].id > g[j],
           \A j \in Keys : j # k => Answered(r.ents[j], p[<<scope, j>>], m[j], g[j], c),
           SyncDrop(k, a, m, p, r)
    PROVE  /\ pend' \in Owed /\ job' \in Jobs \union {None} /\ mir' \in Mirrors \union {None}
           /\ job' = None =>
                 \A j \in Keys : Answered(r.ents[j], pend'[<<scope, j>>], m[j], g[j], c)
           /\ job' # None =>
                 /\ job'.rec.scope = scope
                 /\ \A j \in Keys :
                       /\ Answered(job'.rec.ents[j], job'.onOK[<<scope, j>>], m[j], g[j], c)
                       /\ Answered(job'.rec.ents[j], job'.onFail[<<scope, j>>], m[j], g[j], c)
                       /\ Answered(r.ents[j], job'.onFail[<<scope, j>>], m[j], g[j], c)
<1> DEFINE x == <<scope, k>>
           settled == [p EXCEPT ![x] = IF Captures(p, x) THEN @ ELSE None]
           r1 == [r EXCEPT !.ents[k] = None]
           owe == [asOf |-> DropStamp(a, r.ents[k]), drop |-> TRUE, capture |-> Captures(p, x)]
           ok == [Folded(p, scope, k) EXCEPT ![x] = IF Captures(p, x) THEN @ ELSE None]
           fail == [p EXCEPT ![x] = owe]
<1>1. scope \in Scopes /\ Captures(p, x) \in BOOLEAN /\ r.ents[k] \in Entries \union {None}
  BY IntentShape, OwedShape, RecordShape, HeldShape DEF TypeOK, Captures
<1>2. /\ settled \in Owed
      /\ \A j \in Keys : j # k => settled[<<scope, j>>] = p[<<scope, j>>]
  BY <1>1, OwedSettled
<1>3. CASE /\ r.ents[k] # None /\ pend' = p
           /\ StartSave(Fold(r1, p, m, k), Mirror, ok, fail, None)
  <2>1. r1 \in Records /\ r1.scope = scope /\ r1.ents[k] = None
        /\ \A j \in Keys : j # k => r1.ents[j] = r.ents[j]
    <3>1. r1 = [r EXCEPT !.ents = [r.ents EXCEPT ![k] = None]]
      BY DEF Records
    <3> HIDE DEF r1
    <3>2. [r.ents EXCEPT ![k] = None] \in Held
      BY RecordShape, HeldShape
    <3> QED
      BY <3>1, <3>2, RecordShape, HeldShape
  <2>2. owe \in Intents /\ owe.drop /\ owe.asOf >= r.ents[k].at
    <3>1. DropStamp(a, r.ents[k]) \in Nat /\ DropStamp(a, r.ents[k]) >= r.ents[k].at
      BY <1>1, <1>3, DropStampAbove, EntryShape
    <3> QED
      BY <1>1, <3>1, NewIntent
  <2>3. fail \in Owed /\ fail[x] = owe /\ \A j \in Keys : j # k => fail[<<scope, j>>] = p[<<scope, j>>]
    BY <1>1, <2>2, OwedShape, OwedOthers
  <2>4. ok \in Owed /\ \A j \in Keys : j # k => ok[<<scope, j>>] = Folded(p, scope, k)[<<scope, j>>]
    <3>1. Folded(p, scope, k) \in Owed
      BY <1>1, FoldedShape
    <3> QED
      BY <1>1, <3>1, OwedSettled
  <2> HIDE DEF x, r1, owe, ok, fail
  <2>5. /\ Fold(r1, p, m, k) \in Records /\ Fold(r1, p, m, k).scope = scope
        /\ Fold(r1, p, m, k).ents[k] = None /\ Mirror \in Mirrors
    <3>1. Mirror \in Mirrors
      BY CurrentMirror
    <3>2. Fold(r1, p, m, k).ents[k] = r1.ents[k]
      BY <2>1, FoldShape
    <3> QED
      BY <2>1, <3>1, <3>2, FoldShape
  <2>6. /\ job' \in Jobs /\ job' # None /\ mir' \in Mirrors \union {None}
        /\ job'.rec.scope = scope /\ job'.rec.ents = Fold(r1, p, m, k).ents
        /\ job'.onOK = ok /\ job'.onFail = fail
    BY <1>3, <2>3, <2>4, <2>5, SaveStarted
  <2>7. \A j \in Keys : j # k =>
            /\ Answered(Fold(r1, p, m, k).ents[j], p[<<scope, j>>], m[j], g[j], c)
            /\ Answered(Fold(r1, p, m, k).ents[j], Folded(p, scope, k)[<<scope, j>>], m[j], g[j], c)
    BY <2>1, FoldedRecord
  <2>8. /\ Answered(None, ok[x], m[k], g[k], c) /\ Answered(None, fail[x], m[k], g[k], c)
        /\ Answered(r.ents[k], fail[x], m[k], g[k], c)
    BY <2>2, <2>3, NoneIsApart DEF Answered
  <2> QED
    BY <1>3, <2>3, <2>4, <2>5, <2>6, <2>7, <2>8 DEF x
<1>4. CASE /\ r.ents[k] = None /\ pend' = settled
           /\ StartSave(r, Mirror, settled, settled, None) \/ UNCHANGED <<job, mir>>
  <2>1. \A j \in Keys : Answered(r.ents[j], settled[<<scope, j>>], m[j], g[j], c)
    BY <1>2, <1>4 DEF Answered
  <2> HIDE DEF settled
  <2>2. CASE StartSave(r, Mirror, settled, settled, None)
    <3>1. /\ job' \in Jobs /\ job' # None /\ mir' \in Mirrors \union {None}
          /\ job'.rec.scope = scope /\ job'.rec.ents = r.ents
          /\ job'.onOK = settled /\ job'.onFail = settled
      BY <1>2, <2>2, SaveStarted, CurrentMirror
    <3> QED
      BY <1>2, <1>4, <2>1, <3>1
  <2>3. CASE UNCHANGED <<job, mir>>
    BY <1>2, <1>4, <2>1, <2>3 DEF TypeOK
  <2> QED
    BY <1>4, <2>2, <2>3
<1> QED
  BY <1>3, <1>4 DEF SyncDrop

LEMMA DiskShape ==
    ASSUME NEW d \in Disks
    PROVE  /\ d.rec \in Records \union {None} /\ d.tomb \in Scopes \union {None}
           /\ d.subj \in Scopes
           /\ \A a \in Records \union {None}, b \in Scopes \union {None} :
                 /\ [d EXCEPT !.rec = a, !.tomb = b] \in Disks
                 /\ [d EXCEPT !.rec = a, !.tomb = b].rec = a
                 /\ [d EXCEPT !.rec = a, !.tomb = b].tomb = b
                 /\ [d EXCEPT !.rec = a, !.tomb = b].subj = d.subj
BY DEF Disks

LEMMA CountShape ==
    ASSUME NEW u \in Counts
    PROVE  /\ u.ids \in Nat /\ u.ids <= MaxInstalls /\ u.scopes \in Nat /\ u.scopes \in Scopes
           /\ u.faults \in Nat /\ u.turns \in Nat
<1>1. u.ids \in 0..MaxInstalls /\ u.scopes \in Scopes /\ u.faults \in Nat /\ u.turns \in Nat
  BY DEF Counts
<1>2. u.ids \in Nat /\ u.ids <= MaxInstalls
  BY <1>1, Bounds
<1> QED
  BY <1>1, <1>2, ScopeNumbers

LEMMA CountUpdates ==
    ASSUME NEW u \in Counts
    PROVE  /\ \A n \in 0..MaxInstalls : [u EXCEPT !.ids = n] \in Counts
           /\ \A t \in Nat : [u EXCEPT !.turns = t] \in Counts
           /\ \A f \in Nat : [u EXCEPT !.faults = f] \in Counts
           /\ \A t, f \in Nat : [u EXCEPT !.turns = t, !.faults = f] \in Counts
           /\ \A t, f \in Nat, s \in Scopes :
                 [u EXCEPT !.turns = t, !.scopes = s, !.faults = f] \in Counts
BY DEF Counts

\* A turn and a fault count and nothing more.
LEMMA TurnCounts ==
    ASSUME TypeOK, Turn
    PROVE  used' \in Counts /\ used'.ids = used.ids /\ used'.scopes = used.scopes
<1>1. used \in Counts /\ used.turns + 1 \in Nat
  BY CountShape DEF TypeOK
<1>2. used' = [used EXCEPT !.turns = used.turns + 1]
  BY <1>1 DEF Turn
<1> QED
  BY <1>1, <1>2, CountUpdates DEF Counts

LEMMA FaultCounts ==
    ASSUME TypeOK, Fault
    PROVE  used' \in Counts /\ used'.ids = used.ids /\ used'.scopes = used.scopes
<1>1. used \in Counts /\ used.faults + 1 \in Nat
  BY CountShape DEF TypeOK
<1>2. used' = [used EXCEPT !.faults = used.faults + 1]
  BY <1>1 DEF Fault
<1> QED
  BY <1>1, <1>2, CountUpdates DEF Counts

\* What durableRecordForLocked returns after a step.
LEMMA NextRecord ==
    \/ RecordFor(scope)'.ents = Nothing
    \/ /\ disk'.rec # None /\ disk'.rec.scope = scope' /\ disk'.tomb # scope'
       /\ RecordFor(scope)' = disk'.rec
BY DEF RecordFor, Nothing

LEMMA SameRecord ==
    ASSUME UNCHANGED <<disk, scope>>
    PROVE  RecordFor(scope)' = RecordFor(scope)
BY DEF RecordFor, Nothing

LEMMA LiftedShape ==
    ASSUME TypeOK, StoreInv
    PROVE  /\ Lifted \in Held
           /\ \A k \in Keys : /\ mem[k] # None => Lifted[k] = mem[k]
                              /\ Lifted[k] # None => Lifted[k].id > gone[k]
           /\ ClearOwed => Lifted = Nothing
<1>1. mem \in Held /\ kept \in Held
  BY DEF TypeOK
<1>2. \A k \in Keys : mem[k] \in Entries \union {None} /\ kept[k] \in Entries \union {None}
  BY <1>1, HeldShape
<1>3. Lifted \in Held
  BY <1>2 DEF Lifted, Held
<1>4. \A k \in Keys : /\ mem[k] # None => Lifted[k] = mem[k]
                      /\ Lifted[k] # None => Lifted[k].id > gone[k]
  BY DEF Lifted, StoreInv, DroppedStaysGone
<1>5. ClearOwed => Lifted = Nothing
  BY DEF StoreInv, ClearInv, Lifted, Nothing
<1> QED
  BY <1>3, <1>4, <1>5

LEMMA ClearShape ==
    ASSUME TypeOK
    PROVE  /\ ClearOwed \in BOOLEAN
           /\ clear # None => clear.asOf \in Nat /\ clear.scope \in Scopes
           /\ ClearOwed <=> clear # None /\ clear.scope = scope
BY DEF TypeOK, Clears, ClearOwed

\* An owed clear that becomes owed drops still answers for the record.
LEMMA DemotedAnswers ==
    ASSUME TypeOK, NEW p \in Owed, NEW m
    PROVE  /\ Demoted(p, m) \in Owed
           /\ \A j \in Keys, g \in Nat, h0, h \in Entries \union {None} :
                 /\ Answered(RecordFor(scope).ents[j], p[<<scope, j>>], h0, g, ClearOwed)
                 /\ h0 # None => h = h0
                 /\ ClearOwed => m[j] = None
                 => Answered(RecordFor(scope).ents[j], Demoted(p, m)[<<scope, j>>], h, g, FALSE)
<1> DEFINE turns == clear # None /\ disk.rec # None /\ disk.rec.scope = clear.scope
           hit(x) == x[1] = disk.rec.scope /\ disk.rec.ents[x[2]] # None /\ m[x[2]] = None
           owe(x) == [asOf |-> DropStamp(clear.asOf, disk.rec.ents[x[2]]), drop |-> TRUE,
                      capture |-> FALSE]
<1>1. disk.rec \in Records \union {None} /\ scope \in Scopes
  BY DiskShape DEF TypeOK
<1>2. DOMAIN p = Scopes \X Keys /\ \A x \in Scopes \X Keys : p[x] \in Intents \union {None}
  BY DEF Owed
<1>3. CASE ~turns
  <2>1. Demoted(p, m) = p
    BY <1>3 DEF Demoted
  <2>2. ClearOwed => RecordFor(scope).ents = Nothing
    BY <1>1, <1>3, ClearShape, RecordForShape
  <2> QED
    BY <2>1, <2>2, ClearShape DEF Answered, Nothing
<1>4. CASE turns
  <2>1. \A x \in Scopes \X Keys : hit(x) =>
           /\ owe(x) \in Intents /\ owe(x).drop
           /\ owe(x).asOf > disk.rec.ents[x[2]].at
    <3> TAKE x \in Scopes \X Keys
    <3> HAVE hit(x)
    <3>1. disk.rec.ents[x[2]] \in Entries /\ clear.asOf \in Nat
      BY <1>1, <1>4, RecordShape, HeldShape, ClearShape
    <3>2. /\ DropStamp(clear.asOf, disk.rec.ents[x[2]]) \in Nat
          /\ DropStamp(clear.asOf, disk.rec.ents[x[2]]) > disk.rec.ents[x[2]].at
      BY <3>1, DropStampAbove, NoneIsApart
    <3> QED
      BY <3>2, NewIntent
  <2>2. Demoted(p, m) = [x \in Scopes \X Keys |-> IF hit(x) THEN owe(x) ELSE p[x]]
    BY <1>2, <1>4 DEF Demoted
  <2>3. Demoted(p, m) \in Owed
    BY <1>2, <2>1, <2>2 DEF Owed
  <2> SUFFICES ASSUME NEW j \in Keys, NEW g \in Nat, NEW h0 \in Entries \union {None},
                      NEW h \in Entries \union {None},
                      Answered(RecordFor(scope).ents[j], p[<<scope, j>>], h0, g, ClearOwed),
                      h0 # None => h = h0, ClearOwed => m[j] = None
               PROVE  Answered(RecordFor(scope).ents[j], Demoted(p, m)[<<scope, j>>], h, g, FALSE)
    BY <2>3
  <2>4. Demoted(p, m)[<<scope, j>>] = IF hit(<<scope, j>>) THEN owe(<<scope, j>>) ELSE p[<<scope, j>>]
    BY <1>1, <2>2
  <2>5. <<scope, j>> \in Scopes \X Keys /\ <<scope, j>>[1] = scope /\ <<scope, j>>[2] = j
    BY <1>1
  <2>6. RecordFor(scope).ents[j] # None =>
           /\ disk.rec.scope = scope /\ RecordFor(scope).ents[j] = disk.rec.ents[j]
           /\ disk.rec.ents[j] \in Entries
    BY <1>1, RecordForShape, RecordShape, HeldShape DEF Nothing
  <2>7. CASE ClearOwed
    <3>1. CASE RecordFor(scope).ents[j] = None
      BY <3>1 DEF Answered
    <3>2. CASE RecordFor(scope).ents[j] # None
      <4>1. hit(<<scope, j>>)
        BY <2>5, <2>6, <2>7, <3>2
      <4>2. /\ owe(<<scope, j>>) \in Intents /\ owe(<<scope, j>>).drop
            /\ owe(<<scope, j>>).asOf > RecordFor(scope).ents[j].at
        BY <2>1, <2>5, <2>6, <3>2, <4>1
      <4> HIDE DEF owe, hit
      <4>3. owe(<<scope, j>>).asOf \in Nat /\ RecordFor(scope).ents[j].at \in Nat
        BY <2>6, <3>2, <4>2, IntentShape, EntryShape
      <4> QED
        BY <2>4, <4>1, <4>2, <4>3, NoneIsApart DEF Answered
    <3> QED
      BY <3>1, <3>2
  <2>8. CASE ~ClearOwed
    <3>1. ~hit(<<scope, j>>)
      BY <1>4, <2>5, <2>8, ClearShape
    <3> HIDE DEF hit
    <3> QED
      BY <2>4, <2>8, <3>1 DEF Answered
  <2> QED
    BY <2>7, <2>8
<1> QED
  BY <1>3, <1>4

-----------------------------------------------------------------------------
(* The verdicts.                                                           *)

LEMMA InitHolds ==
    ASSUME Init
    PROVE  TypeOK /\ StoreInv
<1>1. /\ mem = Nothing /\ kept = Nothing /\ pend = NoPend /\ clear = None /\ mir = None
      /\ ret = NoKeys /\ scope = 1 /\ lane = "idle" /\ job = None
      /\ disk = [rec |-> None, tomb |-> None, subj |-> 1]
      /\ used = [ids |-> 0, scopes |-> 1, faults |-> 0, turns |-> 0]
      /\ gone = [k \in Keys |-> 0] /\ given = {} /\ emitted = {}
  BY DEF Init
<1>2. disk \in Disks /\ used \in Counts /\ gone \in [Keys -> Nat]
  BY <1>1, Bounds, ScopeNumbers DEF Disks, Counts
<1>3. TypeOK
  BY <1>1, <1>2, NothingShape, ScopeNumbers DEF TypeOK
<1>4. RecordFor(scope).ents = Nothing
  BY <1>1 DEF RecordFor
<1>5. StoreInv
  BY <1>1, <1>4 DEF StoreInv, NumberInv, ClearInv, ClearOwed, DebtInv, AllAnswered, Answered,
                    DroppedStaysGone, Nothing
<1> QED
  BY <1>3, <1>5

LEMMA RaisedAbove ==
    ASSUME NEW a \in Nat, NEW e \in Entries \union {None}, NEW q \in Intents \union {None}
    PROVE  Raised(a, e, q) \in Nat /\ (e # None => Raised(a, e, q) >= e.at)
BY EntryShape, IntentShape DEF Raised

LEMMA InstallStep ==
    ASSUME TypeOK, StoreInv, NEW k \in Keys, NEW now \in Clocks, NEW hid \in BOOLEAN,
           Install(k, now, hid)
    PROVE  TypeOK' /\ StoreInv'
<1> DEFINE r == RecordFor(scope)
           marked == [Lifted EXCEPT ![k] = [id |-> 0]]
           owed == Demoted(pend, marked)
           entry == [id |-> used.ids + 1, hid |-> hid,
                     at |-> Raised(now, r.ents[k], owed[<<scope, k>>])]
           held == [Lifted EXCEPT ![k] = entry]
<1>1. /\ job = None /\ lane = "idle" /\ used.ids < MaxInstalls
      /\ used' = [used EXCEPT !.ids = used.ids + 1]
      /\ mem' = held /\ kept' = Nothing /\ clear' = None
      /\ SyncEntry(k, held, owed, r)
      /\ pend' = owed
      /\ given' = given \union {<<scope, k, used.ids + 1>>}
      /\ UNCHANGED <<ret, scope, lane, disk, gone, emitted>>
  BY DEF Install, Idle, TypeOK, Counts
<1>2. /\ used \in Counts /\ used.ids \in Nat /\ scope \in Scopes /\ gone \in [Keys -> Nat]
      /\ mem \in Held /\ pend \in Owed
  BY CountShape DEF TypeOK
<1>3. /\ r \in Records /\ r.scope = scope /\ r.ents \in Held
      /\ \A j \in Keys : r.ents[j] \in Entries \union {None}
  BY <1>2, RecordForShape, RecordShape, HeldShape
<1>4. owed \in Owed
  BY <1>2, DemotedAnswers
<1>5. /\ entry \in Entries /\ entry.id = used.ids + 1
      /\ r.ents[k] # None => r.ents[k].at <= entry.at
  <2>1. owed[<<scope, k>>] \in Intents \union {None} /\ now \in Nat
    BY <1>2, <1>4, OwedShape, Bounds
  <2>2. /\ Raised(now, r.ents[k], owed[<<scope, k>>]) \in Nat
        /\ r.ents[k] # None => Raised(now, r.ents[k], owed[<<scope, k>>]) >= r.ents[k].at
    BY <1>3, <2>1, RaisedAbove
  <2>3. used.ids + 1 \in 1..MaxInstalls
    BY <1>1, <1>2, Bounds
  <2> HIDE DEF r, owed
  <2>4. entry \in Entries /\ entry.at = Raised(now, r.ents[k], owed[<<scope, k>>])
    BY <2>2, <2>3 DEF Entries
  <2>5. r.ents[k] # None => r.ents[k].at \in Nat
    BY <1>3, EntryShape
  <2> QED
    BY <2>2, <2>4, <2>5
<1>6. /\ held \in Held /\ held[k] = entry
      /\ \A j \in Keys : j # k => held[j] = Lifted[j] /\ marked[j] = Lifted[j]
  <2> HIDE DEF entry
  <2>1. Lifted \in Held
    BY LiftedShape
  <2> QED
    BY <1>5, <2>1 DEF Held
<1>7. \A j \in Keys : held[j] # None => held[j].id > gone[j]
  <2>1. gone[k] <= used.ids /\ gone[k] \in Nat
    BY <1>2 DEF StoreInv, NumberInv
  <2>2. entry.id > gone[k]
    BY <1>2, <1>5, <2>1
  <2> HIDE DEF held, entry
  <2> QED
    BY <1>6, <2>2, LiftedShape
<1>8. \A j \in Keys : j # k =>
         Answered(r.ents[j], owed[<<scope, j>>], held[j], gone[j], FALSE)
  <2> TAKE j \in Keys
  <2> HAVE j # k
  <2>1. Answered(r.ents[j], pend[<<scope, j>>], mem[j], gone[j], ClearOwed)
    BY <1>1 DEF StoreInv, DebtInv, AllAnswered
  <2>2. /\ gone[j] \in Nat /\ mem[j] \in Entries \union {None}
        /\ held[j] \in Entries \union {None}
    BY <1>2, <1>6, HeldShape
  <2>3. mem[j] # None => held[j] = mem[j]
    BY <1>6, LiftedShape
  <2>4. ClearOwed => marked[j] = None
    BY <1>6, LiftedShape DEF Nothing
  <2> HIDE DEF marked, held
  <2> QED
    BY <1>2, <2>1, <2>2, <2>3, <2>4, DemotedAnswers
<1> HIDE DEF r, marked, owed, entry, held
<1>9. /\ job' \in Jobs /\ job' # None /\ mir' \in Mirrors \union {None}
      /\ job'.rec.scope = scope
      /\ \A j \in Keys :
            /\ Answered(job'.rec.ents[j], job'.onOK[<<scope, j>>], held[j], gone[j], FALSE)
            /\ Answered(job'.rec.ents[j], job'.onFail[<<scope, j>>], held[j], gone[j], FALSE)
            /\ Answered(r.ents[j], job'.onFail[<<scope, j>>], held[j], gone[j], FALSE)
  BY <1>1, <1>2, <1>3, <1>4, <1>5, <1>6, <1>7, <1>8, EntrySynced
<1>10. used' \in Counts /\ used'.ids = used.ids + 1 /\ used'.scopes = used.scopes
  <2>1. used.ids + 1 \in 0..MaxInstalls
    BY <1>1, <1>2, Bounds
  <2> QED
    BY <1>1, <1>2, <2>1, CountUpdates DEF Counts
<1>11. TypeOK'
  <2>1. given' \subseteq Scopes \X Keys \X Nat
    BY <1>1, <1>2 DEF TypeOK
  <2> QED
    BY <1>1, <1>2, <1>4, <1>6, <1>9, <1>10, <2>1, NothingShape DEF TypeOK
<1>12. RecordFor(scope)' = r /\ ClearOwed' = FALSE
  BY <1>1, SameRecord DEF r, ClearOwed
<1>13. NumberInv'
  <2>1. \A j \in Keys : gone'[j] <= used'.ids
    BY <1>1, <1>2, <1>10 DEF StoreInv, NumberInv
  <2> QED
    BY <1>1, <1>2, <1>9, <1>10, <2>1 DEF StoreInv, NumberInv
<1>14. DebtInv'
  BY <1>1, <1>9, <1>12 DEF DebtInv, AllAnswered
<1>15. DroppedStaysGone'
  BY <1>1, <1>7 DEF DroppedStaysGone, Nothing
<1> QED
  BY <1>11, <1>12, <1>13, <1>14, <1>15 DEF StoreInv, ClearInv

\* The frame of a drop: the entry leaves memory, and every other experiment
\* is as well answered for as before.
LEMMA DropFrame ==
    ASSUME TypeOK, StoreInv, NEW k \in Keys, NEW m \in {mem, Lifted}, NEW kp \in {kept, Nothing},
           m = mem \/ kp = Nothing, NEW z \in {0, used.ids},
           mem' = [m EXCEPT ![k] = None], kept' = [kp EXCEPT ![k] = None],
           gone' = [gone EXCEPT ![k] = z]
    PROVE  /\ mem' \in Held /\ kept' \in Held /\ (kept' # Nothing => mem' = Nothing)
           /\ mem'[k] = None /\ m[k] \in Entries \union {None}
           /\ gone' \in [Keys -> Nat] /\ gone'[k] = z
           /\ \A j \in Keys : gone'[j] <= used.ids
           /\ ClearOwed => mem' = Nothing /\ kept' = Nothing
           /\ \A j \in Keys : /\ mem'[j] # None => mem'[j].id > gone'[j]
                              /\ kept'[j] # None => kept'[j].id > gone'[j]
           /\ \A p \in Owed, j \in Keys :
                 j # k /\ Answered(RecordFor(scope).ents[j], p[<<scope, j>>], mem[j], gone[j], ClearOwed)
                 => Answered(RecordFor(scope).ents[j], p[<<scope, j>>], mem'[j], gone'[j], ClearOwed)
<1>1. /\ mem \in Held /\ kept \in Held /\ gone \in [Keys -> Nat] /\ used.ids \in Nat
      /\ Lifted \in Held /\ Nothing \in Held
  BY CountShape, LiftedShape, NothingShape DEF TypeOK
<1>2. m \in Held /\ kp \in Held /\ z \in Nat /\ z <= used.ids
  BY <1>1
<1>3. /\ mem' \in Held /\ kept' \in Held /\ mem'[k] = None /\ kept'[k] = None
      /\ m[k] \in Entries \union {None}
      /\ \A j \in Keys : j # k => mem'[j] = m[j] /\ kept'[j] = kp[j]
  BY <1>2 DEF Held
<1>4. /\ gone' \in [Keys -> Nat] /\ gone'[k] = z
      /\ \A j \in Keys : j # k => gone'[j] = gone[j]
  BY <1>1, <1>2
<1>5. \A j \in Keys : gone'[j] <= used.ids
  BY <1>2, <1>4 DEF StoreInv, NumberInv
<1>6. \A j \in Keys : j # k =>
         /\ mem[j] # None => m[j] = mem[j]
         /\ m[j] # None => m[j].id > gone[j]
         /\ kp[j] # None => kp[j].id > gone[j]
  BY LiftedShape DEF StoreInv, DroppedStaysGone, Nothing
<1>7. \A j \in Keys : /\ mem'[j] # None => mem'[j].id > gone'[j]
                      /\ kept'[j] # None => kept'[j].id > gone'[j]
  BY <1>3, <1>4, <1>6
<1>8. m = Nothing => mem' = Nothing
  BY DEF Nothing
<1>9. kp = Nothing => kept' = Nothing
  BY DEF Nothing
<1>10. kept' # Nothing => mem' = Nothing
  BY <1>8, <1>9 DEF TypeOK
<1>11. ClearOwed => mem' = Nothing /\ kept' = Nothing
  BY <1>8, <1>9, LiftedShape DEF StoreInv, ClearInv
<1>12. \A p \in Owed, j \in Keys :
          j # k /\ Answered(RecordFor(scope).ents[j], p[<<scope, j>>], mem[j], gone[j], ClearOwed)
          => Answered(RecordFor(scope).ents[j], p[<<scope, j>>], mem'[j], gone'[j], ClearOwed)
  BY <1>3, <1>4, <1>6 DEF Answered
<1> QED
  BY <1>3, <1>4, <1>5, <1>7, <1>10, <1>11, <1>12

LEMMA DropStep ==
    ASSUME TypeOK, StoreInv, NEW k \in Keys, NEW now \in Clocks, NEW how, NEW lifts \in BOOLEAN,
           Drop(k, now, how, lifts)
    PROVE  TypeOK' /\ StoreInv'
<1> DEFINE m == IF lifts THEN Lifted ELSE mem
           kp == IF lifts THEN Nothing ELSE kept
           left == [m EXCEPT ![k] = None]
           x == <<scope, k>>
           asOf == DropStamp(now, m[k])
           z == IF how = "uncaptured" /\ Outranked(k, asOf) THEN 0 ELSE used.ids
           owe == [asOf |-> asOf, drop |-> TRUE, capture |-> TRUE]
           aged == [pend EXCEPT ![x] = Released(@)]
           r == RecordFor(scope)
<1>1. /\ job = None /\ lane = "idle" /\ Turn
      /\ mem' = left /\ kept' = [kp EXCEPT ![k] = None] /\ gone' = [gone EXCEPT ![k] = z]
      /\ UNCHANGED <<clear, ret, scope, lane, disk, given, emitted>>
      /\ \/ how = "uncaptured" /\ pend' = [pend EXCEPT ![x] = owe] /\ UNCHANGED <<job, mir>>
         \/ how = "captured" /\ SyncDrop(k, asOf, left, pend, r)
         \/ how = "age" /\ SyncDrop(k, asOf, left, aged, r)
  BY DEF Drop, Idle, Dropped
<1>2. /\ m \in {mem, Lifted} /\ kp \in {kept, Nothing} /\ (m = mem \/ kp = Nothing)
      /\ z \in {0, used.ids}
  OBVIOUS
<1>3. /\ scope \in Scopes /\ pend \in Owed /\ clear' = clear /\ now \in Nat
      /\ ClearOwed \in BOOLEAN /\ ClearOwed' = ClearOwed
  BY <1>1, Bounds, ClearShape DEF TypeOK, ClearOwed
<1>4. /\ r \in Records /\ r.scope = scope /\ r.ents[k] \in Entries \union {None}
      /\ RecordFor(scope)' = r
  BY <1>1, <1>3, RecordForShape, RecordShape, HeldShape, SameRecord
<1>5. used' \in Counts /\ used'.ids = used.ids /\ used'.scopes = used.scopes
  BY <1>1, TurnCounts
<1> HIDE DEF m, kp, z, r
<1>6. /\ mem' \in Held /\ kept' \in Held /\ (kept' # Nothing => mem' = Nothing)
      /\ mem'[k] = None /\ m[k] \in Entries \union {None}
      /\ gone' \in [Keys -> Nat] /\ gone'[k] = z
      /\ \A j \in Keys : gone'[j] <= used.ids
      /\ ClearOwed => mem' = Nothing /\ kept' = Nothing
      /\ \A j \in Keys : /\ mem'[j] # None => mem'[j].id > gone'[j]
                         /\ kept'[j] # None => kept'[j].id > gone'[j]
      /\ \A p \in Owed, j \in Keys :
            j # k /\ Answered(r.ents[j], p[<<scope, j>>], mem[j], gone[j], ClearOwed)
            => Answered(r.ents[j], p[<<scope, j>>], mem'[j], gone'[j], ClearOwed)
  BY <1>1, <1>2, DropFrame DEF r
<1>7. \A j \in Keys : Answered(r.ents[j], pend[<<scope, j>>], mem[j], gone[j], ClearOwed)
  BY <1>1 DEF StoreInv, DebtInv, AllAnswered, r
<1>8. asOf \in Nat
  BY <1>3, <1>6, DropStampAbove
<1> HIDE DEF left, asOf
<1>9. SUFFICES /\ pend' \in Owed /\ job' \in Jobs \union {None} /\ mir' \in Mirrors \union {None}
               /\ job' = None =>
                     \A j \in Keys : Answered(r.ents[j], pend'[<<scope, j>>], mem'[j], gone'[j], ClearOwed)
               /\ job' # None =>
                     /\ job'.rec.scope = scope
                     /\ \A j \in Keys :
                          /\ Answered(job'.rec.ents[j], job'.onOK[<<scope, j>>], mem'[j], gone'[j], ClearOwed)
                          /\ Answered(job'.rec.ents[j], job'.onFail[<<scope, j>>], mem'[j], gone'[j], ClearOwed)
                          /\ Answered(r.ents[j], job'.onFail[<<scope, j>>], mem'[j], gone'[j], ClearOwed)
  <2>1. TypeOK'
    BY <1>1, <1>5, <1>6, <1>9 DEF TypeOK
  <2>2. NumberInv'
    BY <1>1, <1>3, <1>5, <1>6, <1>9 DEF StoreInv, NumberInv
  <2>3. DebtInv'
    BY <1>1, <1>3, <1>4, <1>9 DEF DebtInv, AllAnswered
  <2>4. ClearInv' /\ DroppedStaysGone'
    BY <1>3, <1>6 DEF ClearInv, DroppedStaysGone
  <2> QED
    BY <2>1, <2>2, <2>3, <2>4 DEF StoreInv
<1>10. CASE /\ how = "uncaptured"
            /\ pend' = [pend EXCEPT ![x] = owe] /\ UNCHANGED <<job, mir>>
  <2>1. owe \in Intents /\ owe.drop /\ owe.asOf = asOf
    BY <1>8, NewIntent
  <2> HIDE DEF owe
  <2>2. /\ pend' \in Owed /\ pend'[x] = owe
        /\ \A j \in Keys : j # k => pend'[<<scope, j>>] = pend[<<scope, j>>]
    BY <1>3, <1>10, <2>1 DEF Owed
  <2>3. Answered(r.ents[k], owe, mem'[k], gone'[k], ClearOwed)
    <3>1. CASE r.ents[k] = None
      BY <3>1 DEF Answered
    <3>2. CASE r.ents[k] # None /\ Outranked(k, asOf)
      BY <1>4, <1>6, <1>10, <3>2, EntryShape DEF Answered, z
    <3>3. CASE r.ents[k] # None /\ ~Outranked(k, asOf)
      <4>1. r.ents[k].at \in Nat /\ r.ents[k].at <= asOf
        BY <1>4, <1>8, <3>3, EntryShape DEF Outranked, r
      <4> QED
        BY <2>1, <4>1, NoneIsApart DEF Answered
    <3> QED
      BY <3>1, <3>2, <3>3
  <2>4. \A j \in Keys : Answered(r.ents[j], pend'[<<scope, j>>], mem'[j], gone'[j], ClearOwed)
    <3> TAKE j \in Keys
    <3>1. CASE j = k
      BY <2>2, <2>3, <3>1
    <3>2. CASE j # k
      BY <1>3, <1>6, <1>7, <2>2, <3>2
    <3> QED
      BY <3>1, <3>2
  <2> QED
    BY <1>1, <1>10, <2>2, <2>4 DEF TypeOK
<1>11. ASSUME NEW p \in Owed, SyncDrop(k, asOf, left, p, r),
              \A j \in Keys : j # k => p[<<scope, j>>] = pend[<<scope, j>>]
       PROVE  /\ pend' \in Owed /\ job' \in Jobs \union {None} /\ mir' \in Mirrors \union {None}
              /\ job' = None =>
                    \A j \in Keys : Answered(r.ents[j], pend'[<<scope, j>>], mem'[j], gone'[j], ClearOwed)
              /\ job' # None =>
                    /\ job'.rec.scope = scope
                    /\ \A j \in Keys :
                         /\ Answered(job'.rec.ents[j], job'.onOK[<<scope, j>>], mem'[j], gone'[j], ClearOwed)
                         /\ Answered(job'.rec.ents[j], job'.onFail[<<scope, j>>], mem'[j], gone'[j], ClearOwed)
                         /\ Answered(r.ents[j], job'.onFail[<<scope, j>>], mem'[j], gone'[j], ClearOwed)
  <2>1. left \in Held /\ left[k] = None /\ left = mem'
    BY <1>1, <1>6
  <2>2. \A j \in Keys : j # k => Answered(r.ents[j], p[<<scope, j>>], left[j], gone'[j], ClearOwed)
    BY <1>6, <1>7, <1>11, <2>1
  <2>3. \A j \in Keys : left[j] # None => left[j].id > gone'[j]
    BY <1>6, <2>1
  <2>4. /\ pend' \in Owed /\ job' \in Jobs \union {None} /\ mir' \in Mirrors \union {None}
        /\ job' = None =>
              \A j \in Keys : Answered(r.ents[j], pend'[<<scope, j>>], left[j], gone'[j], ClearOwed)
        /\ job' # None =>
              /\ job'.rec.scope = scope
              /\ \A j \in Keys :
                   /\ Answered(job'.rec.ents[j], job'.onOK[<<scope, j>>], left[j], gone'[j], ClearOwed)
                   /\ Answered(job'.rec.ents[j], job'.onFail[<<scope, j>>], left[j], gone'[j], ClearOwed)
                   /\ Answered(r.ents[j], job'.onFail[<<scope, j>>], left[j], gone'[j], ClearOwed)
    <3> HIDE DEF x, owe, aged
    <3>1. job = None /\ r \in Records /\ r.scope = scope /\ ClearOwed \in BOOLEAN
      BY <1>1, <1>3, <1>4
    <3>2. gone' \in [Keys -> Nat]
      BY <1>6
    <3> QED
      BY <1>8, <1>11, <2>1, <2>2, <2>3, <3>1, <3>2, DropSynced
  <2> QED
    BY <2>1, <2>4
<1>12. CASE how = "captured" /\ SyncDrop(k, asOf, left, pend, r)
  BY <1>3, <1>11, <1>12
<1>13. CASE how = "age" /\ SyncDrop(k, asOf, left, aged, r)
  <2>1. aged = [pend EXCEPT ![x] = Released(pend[x])]
    OBVIOUS
  <2>2. Released(pend[x]) \in Intents \union {None}
    BY <1>3, OwedShape, ReleasedShape
  <2> HIDE DEF aged
  <2>3. aged \in Owed /\ \A j \in Keys : j # k => aged[<<scope, j>>] = pend[<<scope, j>>]
    BY <1>3, <2>1, <2>2 DEF Owed
  <2> QED
    BY <1>11, <1>13, <2>3
<1> QED
  BY <1>1, <1>10, <1>12, <1>13

LEMMA OutcomeShape ==
    ASSUME TypeOK, NEW out \in ClearOutcomes
    PROVE  /\ out.rec \in Records \union {None} /\ out.tomb \in Scopes \union {None}
           /\ out.ok \in BOOLEAN /\ (out.ok => out.rec = None)
           /\ out.rec = None \/ (out.rec = disk.rec /\ out.tomb = disk.tomb)
<1>1. disk.rec \in Records \union {None} /\ disk.tomb \in Scopes \union {None}
  BY DiskShape DEF TypeOK
<1>2. \/ out = [rec |-> None, tomb |-> None, ok |-> TRUE]
      \/ out = [rec |-> disk.rec, tomb |-> disk.tomb, ok |-> FALSE]
      \/ out = [rec |-> None, tomb |-> disk.tomb, ok |-> FALSE]
      \/ out = [rec |-> None, tomb |-> None, ok |-> FALSE]
  BY DEF ClearOutcomes
<1>3. CASE out = [rec |-> None, tomb |-> None, ok |-> TRUE]
  BY <1>3
<1>4. CASE out = [rec |-> disk.rec, tomb |-> disk.tomb, ok |-> FALSE]
  BY <1>1, <1>4
<1>5. CASE out = [rec |-> None, tomb |-> disk.tomb, ok |-> FALSE]
  BY <1>1, <1>5
<1>6. CASE out = [rec |-> None, tomb |-> None, ok |-> FALSE]
  BY <1>6
<1> QED
  BY <1>2, <1>3, <1>4, <1>5, <1>6

LEMMA SentinelStep ==
    ASSUME TypeOK, StoreInv, NEW now \in Clocks, NEW out \in ClearOutcomes,
           NEW marked \in BOOLEAN, Sentinel(now, out, marked)
    PROVE  TypeOK' /\ StoreInv'
<1> DEFINE tomb == IF out.ok \/ ~marked THEN out.tomb ELSE scope
           faults == used.faults + (IF out.ok THEN 0 ELSE 1) + (IF marked THEN 0 ELSE 1)
           released == [x \in DOMAIN pend |-> IF x[1] = scope THEN Released(pend[x]) ELSE pend[x]]
<1>1. /\ job = None /\ lane = "idle" /\ used.turns \in Nat /\ used.faults \in Nat
      /\ used.ids \in Nat /\ used \in Counts /\ scope \in Scopes /\ disk \in Disks
      /\ pend \in Owed /\ now \in Nat
  BY CountShape, Bounds DEF TypeOK, Sentinel, Idle
<1>2. /\ mem' = Nothing /\ kept' = Nothing /\ mir' = None /\ ret' = NoKeys
      /\ gone' = [k \in Keys |-> used.ids] /\ emitted' = {} /\ given' = {}
      /\ UNCHANGED <<scope, lane, job>>
      /\ used' = [used EXCEPT !.turns = used.turns + 1, !.faults = faults]
  BY <1>1 DEF Sentinel
<1>3. disk' = [disk EXCEPT !.rec = out.rec, !.tomb = tomb]
  BY OutcomeShape DEF Sentinel, Tombstone
<1>4. \/ out.ok /\ pend' = NoPend /\ clear' = clear
      \/ ~out.ok /\ clear' = [asOf |-> now, scope |-> scope] /\ pend' = released
  BY DEF Sentinel
<1>5. /\ out.rec \in Records \union {None} /\ tomb \in Scopes \union {None}
      /\ (out.ok => out.rec = None) /\ (out.rec = None \/ out.rec = disk.rec)
  BY <1>1, OutcomeShape
<1>6. faults \in Nat
  BY <1>1, OutcomeShape
<1> HIDE DEF tomb, faults
<1>7. /\ disk' \in Disks /\ disk'.rec = out.rec /\ disk'.subj = disk.subj
  BY <1>1, <1>3, <1>5 DEF Disks
<1>8. used' \in Counts /\ used'.ids = used.ids /\ used'.scopes = used.scopes
  <2>1. used.turns + 1 \in Nat
    BY <1>1
  <2> QED
    BY <1>1, <1>2, <1>6, <2>1 DEF Counts
<1>9. released \in Owed
  <2>1. \A x \in Scopes \X Keys : pend[x] \in Intents \union {None}
    BY <1>1 DEF Owed
  <2>2. \A x \in Scopes \X Keys : Released(pend[x]) \in Intents \union {None}
    BY <2>1, ReleasedShape
  <2> QED
    BY <1>1, <2>1, <2>2 DEF Owed
<1> HIDE DEF released
<1>10. pend' \in Owed /\ clear' \in Clears \union {None} /\ gone' \in [Keys -> Nat]
  BY <1>1, <1>2, <1>4, <1>9, NothingShape DEF Clears, TypeOK
<1>11. TypeOK'
  BY <1>1, <1>2, <1>7, <1>8, <1>10, NothingShape DEF TypeOK
<1>12. NumberInv'
  BY <1>1, <1>2, <1>5, <1>7, <1>8 DEF StoreInv, NumberInv
<1>13. ClearInv' /\ DroppedStaysGone'
  BY <1>2 DEF ClearInv, DroppedStaysGone, Nothing
<1>14. AllAnswered(RecordFor(scope).ents, pend)'
  <2>1. CASE out.ok
    BY <1>5, <1>7, <2>1, NextRecord DEF AllAnswered, Answered, Nothing
  <2>2. CASE ~out.ok
    <3>1. clear' \in Clears /\ clear'.scope = scope'
      BY <1>1, <1>2, <1>4, <2>2 DEF Clears
    <3>2. ClearOwed'
      BY <3>1, NoneIsApart DEF ClearOwed
    <3> QED
      BY <3>2 DEF AllAnswered, Answered
  <2> QED
    BY <2>1, <2>2
<1> QED
  BY <1>1, <1>2, <1>11, <1>12, <1>13, <1>14 DEF StoreInv, DebtInv

LEMMA LatchStep ==
    ASSUME TypeOK, StoreInv, Latch
    PROVE  TypeOK' /\ StoreInv'
<1> DEFINE writes(x) == pend[x] # None /\ ~pend[x].drop
<1>1. /\ job = None /\ lane = "idle" /\ scope \in Scopes /\ pend \in Owed
      /\ kept' = Lifted /\ mem' = Nothing /\ Turn
      /\ pend' = [x \in DOMAIN pend |-> IF writes(x) THEN None ELSE pend[x]]
      /\ gone' = [k \in Keys |-> IF writes(<<scope, k>>) THEN 0 ELSE gone[k]]
      /\ UNCHANGED <<clear, mir, ret, scope, lane, disk, job, given, emitted>>
  BY DEF Latch, Idle, Latched, TypeOK
<1>2. used' \in Counts /\ used'.ids = used.ids /\ used'.scopes = used.scopes /\ used.ids \in Nat
  BY <1>1, TurnCounts, CountShape DEF TypeOK
<1>3. pend' \in Owed /\ \A k \in Keys : pend'[<<scope, k>>] =
         IF writes(<<scope, k>>) THEN None ELSE pend[<<scope, k>>]
  BY <1>1 DEF Owed
<1>4. /\ gone' \in [Keys -> Nat]
      /\ \A k \in Keys : /\ gone'[k] = IF writes(<<scope, k>>) THEN 0 ELSE gone[k]
                         /\ gone'[k] <= gone[k] /\ gone[k] \in Nat
  BY <1>1 DEF TypeOK
<1>5. TypeOK'
  BY <1>1, <1>2, <1>3, <1>4, LiftedShape, NothingShape DEF TypeOK
<1>6. \A k \in Keys : gone'[k] <= used'.ids
  <2> TAKE k \in Keys
  <2>1. gone'[k] \in Nat /\ gone[k] \in Nat /\ gone'[k] <= gone[k]
    BY <1>4
  <2>2. gone[k] <= used.ids
    BY DEF StoreInv, NumberInv
  <2> QED
    BY <1>2, <2>1, <2>2
<1>7. NumberInv'
  BY <1>1, <1>2, <1>6 DEF StoreInv, NumberInv
<1>8. ClearOwed' = ClearOwed /\ RecordFor(scope)' = RecordFor(scope)
  BY <1>1, SameRecord DEF ClearOwed
<1>9. ClearInv'
  BY <1>1, <1>8, LiftedShape DEF ClearInv
<1>10. DroppedStaysGone'
  <2>1. \A k \in Keys : Lifted[k] # None => Lifted[k].id \in Nat /\ Lifted[k].id > gone[k]
    BY LiftedShape, HeldShape, EntryShape
  <2> QED
    BY <1>1, <1>4, <2>1 DEF DroppedStaysGone, Nothing
<1>11. \A k \in Keys :
          Answered(RecordFor(scope).ents[k], pend'[<<scope, k>>], mem'[k], gone'[k], ClearOwed)
  <2> TAKE k \in Keys
  <2>1. RecordFor(scope).ents[k] \in Entries \union {None}
    BY <1>1, RecordForShape, RecordShape, HeldShape
  <2>2. Answered(RecordFor(scope).ents[k], pend[<<scope, k>>], mem[k], gone[k], ClearOwed)
    BY <1>1 DEF StoreInv, DebtInv, AllAnswered
  <2>3. CASE writes(<<scope, k>>)
    BY <1>4, <2>1, <2>3, EntryShape DEF Answered
  <2>4. CASE ~writes(<<scope, k>>)
    BY <1>3, <1>4, <2>2, <2>4 DEF Answered
  <2> QED
    BY <2>3, <2>4
<1>12. DebtInv'
  BY <1>1, <1>8, <1>11 DEF DebtInv, AllAnswered
<1> QED
  BY <1>5, <1>7, <1>9, <1>10, <1>12 DEF StoreInv

LEMMA RemintStep ==
    ASSUME TypeOK, StoreInv, NEW filed \in BOOLEAN, NEW landed \in BOOLEAN, NEW marked \in BOOLEAN,
           Remint(filed, landed, marked)
    PROVE  TypeOK' /\ StoreInv'
<1> DEFINE n == used.scopes + 1
           faults == used.faults + (IF filed THEN 0 ELSE 1) + (IF filed \/ marked THEN 0 ELSE 1)
           retired == [k \in Keys |-> ret[scope][k] \union mir.hist[k] \union ({mir.keys[k]} \ {0})]
<1>1. /\ job = None /\ lane = "idle" /\ used.turns \in Nat /\ used.faults \in Nat
      /\ used.ids \in Nat /\ used \in Counts /\ scope \in Scopes /\ disk \in Disks
      /\ pend \in Owed /\ used.scopes \in Nat /\ used.scopes < MaxScopes
      /\ ret \in [Scopes -> Histories]
  BY CountShape DEF TypeOK, Remint, Idle
<1>2. /\ mem' = Nothing /\ kept' = Nothing /\ mir' = None /\ scope' = n
      /\ gone' = [k \in Keys |-> used.ids]
      /\ pend' = [x \in DOMAIN pend |-> IF pend[x] # None /\ ~pend[x].drop THEN None ELSE pend[x]]
      /\ UNCHANGED <<clear, lane, job, given, emitted>>
      /\ used' = [used EXCEPT !.turns = used.turns + 1, !.scopes = n, !.faults = faults]
      /\ disk' = [disk EXCEPT !.subj = IF landed THEN n ELSE disk.subj,
                              !.tomb = IF marked THEN scope ELSE disk.tomb]
  BY <1>1 DEF Remint, Tombstone
<1>3. ret' = IF mir = None THEN ret ELSE [ret EXCEPT ![scope] = retired]
  BY <1>1 DEF Remint
<1>4. n \in Scopes /\ n \in Nat /\ faults \in Nat /\ n > used.scopes
  BY <1>1, Bounds DEF Scopes
<1> HIDE DEF n, faults
<1>5. /\ disk' \in Disks /\ disk'.rec = disk.rec
      /\ disk'.subj = IF landed THEN n ELSE disk.subj
  BY <1>1, <1>2, <1>4 DEF Disks
<1>6. used' \in Counts /\ used'.ids = used.ids /\ used'.scopes = n
  <2>1. used.turns + 1 \in Nat
    BY <1>1
  <2> QED
    BY <1>1, <1>2, <1>4, <2>1 DEF Counts
<1>7. pend' \in Owed /\ gone' \in [Keys -> Nat]
  BY <1>1, <1>2 DEF Owed
<1>8. ret' \in [Scopes -> Histories]
  <2>1. CASE mir = None
    BY <1>1, <1>3, <2>1
  <2>2. CASE mir # None
    <3>1. /\ \A k \in Keys : ret[scope][k] \subseteq Nat /\ mir.hist[k] \subseteq Nat
          /\ \A k \in Keys : mir.keys[k] \in Nat
      BY <1>1, <2>2, MirrorShape DEF TypeOK, Histories
    <3>2. retired \in Histories
      BY <3>1 DEF Histories
    <3> HIDE DEF retired
    <3> QED
      BY <1>1, <1>3, <2>2, <3>2
  <2> QED
    BY <2>1, <2>2
<1>9. TypeOK'
  BY <1>1, <1>2, <1>4, <1>5, <1>6, <1>7, <1>8, NothingShape DEF TypeOK
<1>10. /\ disk.subj \in Nat /\ disk.subj <= used.scopes
       /\ disk.rec # None => disk.rec.scope \in Nat /\ disk.rec.scope <= used.scopes
  BY <1>1, DiskShape, RecordShape, ScopeNumbers DEF StoreInv, NumberInv
<1>11. NumberInv'
  BY <1>1, <1>2, <1>4, <1>5, <1>6, <1>10 DEF NumberInv
<1>12. ClearInv' /\ DroppedStaysGone'
  BY <1>2 DEF ClearInv, DroppedStaysGone, Nothing
<1>13. RecordFor(scope)'.ents = Nothing
  BY <1>1, <1>2, <1>4, <1>5, <1>10, NextRecord
<1>14. DebtInv'
  BY <1>1, <1>2, <1>13 DEF DebtInv, AllAnswered, Answered, Nothing
<1> QED
  BY <1>9, <1>11, <1>12, <1>14 DEF StoreInv

-----------------------------------------------------------------------------
(* Saves, fact keys, the retry and the restart.                            *)

\* The subject's file catches up with memory.
LEMMA PersistSubjectStep ==
    ASSUME TypeOK, StoreInv, PersistSubject
    PROVE  TypeOK' /\ StoreInv'
<1>1. /\ disk' = [disk EXCEPT !.subj = scope] /\ disk \in Disks /\ scope \in Scopes
      /\ UNCHANGED <<mem, kept, pend, clear, mir, ret, scope, lane, job, used, gone, given, emitted>>
  BY DEF PersistSubject, TypeOK
<1>2. disk' \in Disks /\ disk'.rec = disk.rec /\ disk'.tomb = disk.tomb /\ disk'.subj = scope
  BY <1>1 DEF Disks
<1>3. RecordFor(scope)' = RecordFor(scope) /\ ClearOwed' = ClearOwed
  BY <1>1, <1>2 DEF RecordFor, Nothing, ClearOwed
<1>4. TypeOK'
  BY <1>1, <1>2 DEF TypeOK
<1>5. NumberInv' /\ ClearInv' /\ DroppedStaysGone'
  BY <1>1, <1>2, <1>3 DEF StoreInv, NumberInv, ClearInv, DroppedStaysGone
<1>6. DebtInv'
  BY <1>1, <1>3 DEF StoreInv, DebtInv, AllAnswered
<1> QED
  BY <1>4, <1>5, <1>6 DEF StoreInv

\* A step that leaves memory, the verdicts and the record alone, and starts
\* no save or one that keeps the entries of the record of this scope.
LEMMA QuietStep ==
    ASSUME TypeOK, StoreInv, job = None, NEW r, r.scope = scope, r.ents = RecordFor(scope).ents,
           UNCHANGED <<mem, kept, pend, clear, scope, disk, used, gone>>,
           \/ job' = None
           \/ /\ job' \in Jobs /\ job'.rec.scope = r.scope /\ job'.rec.ents = r.ents
              /\ job'.onOK = pend /\ job'.onFail = pend,
           lane' = "capture" => job' = None
    PROVE  StoreInv'
<1>1. ClearOwed' = ClearOwed /\ RecordFor(scope)' = RecordFor(scope)
  BY SameRecord DEF ClearOwed
<1>2. AllAnswered(RecordFor(scope).ents, pend)
  BY DEF StoreInv, DebtInv
<1>3. NumberInv'
  BY DEF StoreInv, NumberInv
<1>4. ClearInv' /\ DroppedStaysGone'
  BY <1>1 DEF StoreInv, ClearInv, DroppedStaysGone
<1>5. DebtInv'
  BY <1>1, <1>2 DEF DebtInv, AllAnswered
<1> QED
  BY <1>3, <1>4, <1>5 DEF StoreInv

LEMMA SaveLandsStep ==
    ASSUME TypeOK, StoreInv, SaveLands
    PROVE  TypeOK' /\ StoreInv'
<1>1. /\ job \in Jobs /\ job.rec \in Records /\ job.onOK \in Owed /\ job.emit \subseteq Facts
      /\ disk \in Disks /\ mir \in Mirrors \union {None}
  BY JobShape DEF SaveLands, TypeOK
<1>2. /\ disk' = [disk EXCEPT !.rec = job.rec, !.tomb = None]
      /\ pend' = job.onOK /\ emitted' = emitted \union job.emit /\ job' = None
      /\ mir' = IF job.rec.scope = scope /\ mir # None THEN [mir EXCEPT !.durable = TRUE] ELSE mir
      /\ UNCHANGED <<mem, kept, clear, ret, scope, lane, used, gone, given>>
  BY DEF SaveLands
<1>3. disk' \in Disks /\ disk'.rec = job.rec /\ disk'.subj = disk.subj
  BY <1>1, <1>2 DEF Disks
<1>4. mir' \in Mirrors \union {None}
  BY <1>1, <1>2, MirrorShape
<1>5. TypeOK'
  BY <1>1, <1>2, <1>3, <1>4 DEF TypeOK
<1>6. ClearOwed' = ClearOwed /\ job # None
  BY <1>1, <1>2, NoneIsApart DEF ClearOwed
<1>7. NumberInv'
  BY <1>2, <1>3, <1>6 DEF StoreInv, NumberInv
<1>8. ClearInv' /\ DroppedStaysGone'
  BY <1>2, <1>6 DEF StoreInv, ClearInv, DroppedStaysGone
<1>9. job.rec.scope = scope => AllAnswered(job.rec.ents, job.onOK)
  BY <1>6 DEF StoreInv, DebtInv
<1>10. AllAnswered(RecordFor(scope).ents, pend)'
  <2>1. CASE RecordFor(scope)'.ents = Nothing
    BY <2>1 DEF AllAnswered, Answered, Nothing
  <2>2. CASE job.rec.scope = scope /\ RecordFor(scope)' = job.rec
    BY <1>2, <1>6, <1>9, <2>2 DEF AllAnswered
  <2> QED
    BY <1>2, <1>3, <2>1, <2>2, NextRecord
<1> QED
  BY <1>2, <1>5, <1>7, <1>8, <1>10 DEF StoreInv, DebtInv

LEMMA SaveFailsStep ==
    ASSUME TypeOK, StoreInv, NEW landed \in BOOLEAN, NEW cleared \in BOOLEAN,
           SaveFails(landed, cleared)
    PROVE  TypeOK' /\ StoreInv'
<1> DEFINE rec == IF landed THEN job.rec ELSE disk.rec
           tomb == IF cleared THEN None ELSE disk.tomb
           rest == [job.rec EXCEPT !.ents[job.without] = None]
<1>1. /\ job # None /\ job \in Jobs /\ job.rec \in Records /\ job.onOK \in Owed
      /\ job.onFail \in Owed /\ job.without \in Keys \union {None}
      /\ disk \in Disks /\ disk.rec \in Records \union {None} /\ disk.tomb \in Scopes \union {None}
  BY JobShape, DiskShape DEF SaveFails, TypeOK
<1>2. /\ Fault /\ (cleared => landed)
      /\ disk' = [disk EXCEPT !.rec = rec, !.tomb = tomb]
      /\ pend' = job.onFail
      /\ \/ job' = None /\ mir' = mir
         \/ job.without # None /\ StartSave(rest, Mirror, job.onFail, job.onFail, None)
      /\ UNCHANGED <<mem, kept, clear, ret, scope, lane, gone, given, emitted>>
  BY DEF SaveFails
<1>3. used' \in Counts /\ used'.ids = used.ids /\ used'.scopes = used.scopes
  BY <1>2, FaultCounts
<1>4. rec \in Records \union {None} /\ tomb \in Scopes \union {None}
  BY <1>1
<1>5. ASSUME job.without # None
      PROVE  /\ rest \in Records /\ rest.scope = job.rec.scope
             /\ \A k \in Keys : rest.ents[k] = None \/ rest.ents[k] = job.rec.ents[k]
  <2> DEFINE ents == [job.rec.ents EXCEPT ![job.without] = None]
  <2>1. rest = [job.rec EXCEPT !.ents = ents]
    BY <1>1 DEF Records
  <2>2. /\ ents \in Held
        /\ \A k \in Keys : ents[k] = None \/ ents[k] = job.rec.ents[k]
    BY <1>1, RecordShape DEF Held
  <2> HIDE DEF rest, ents
  <2> QED
    BY <1>1, <2>1, <2>2, RecordShape
<1> HIDE DEF rec, tomb, rest
<1>6. disk' \in Disks /\ disk'.rec = rec /\ disk'.tomb = tomb /\ disk'.subj = disk.subj
  BY <1>1, <1>2, <1>4 DEF Disks
<1>7. \/ job' = None /\ mir' \in Mirrors \union {None}
      \/ /\ job' \in Jobs /\ job' # None /\ mir' \in Mirrors \union {None}
         /\ job'.rec.scope = job.rec.scope
         /\ \A k \in Keys : job'.rec.ents[k] = None \/ job'.rec.ents[k] = job.rec.ents[k]
         /\ job'.onOK = job.onFail /\ job'.onFail = job.onFail
  <2>1. CASE job' = None /\ mir' = mir
    BY <2>1 DEF TypeOK
  <2>2. CASE job.without # None /\ StartSave(rest, Mirror, job.onFail, job.onFail, None)
    <3>1. rest \in Records /\ Mirror \in Mirrors /\ None \in Keys \union {None}
      BY <1>5, <2>2, CurrentMirror
    <3>2. /\ job' \in Jobs /\ job' # None /\ mir' \in Mirrors \union {None}
          /\ job'.rec.scope = rest.scope /\ job'.rec.ents = rest.ents
          /\ job'.onOK = job.onFail /\ job'.onFail = job.onFail
      BY <1>1, <2>2, <3>1, SaveStarted
    <3> QED
      BY <1>5, <2>2, <3>2
  <2> QED
    BY <1>2, <2>1, <2>2
<1>8. TypeOK'
  BY <1>1, <1>2, <1>3, <1>6, <1>7 DEF TypeOK
<1>9. ClearOwed' = ClearOwed
  BY <1>2 DEF ClearOwed
<1>10. NumberInv'
  BY <1>1, <1>2, <1>3, <1>6, <1>7 DEF StoreInv, NumberInv, rec
<1>11. ClearInv' /\ DroppedStaysGone'
  BY <1>2, <1>9 DEF StoreInv, ClearInv, DroppedStaysGone
<1>12. /\ AllAnswered(RecordFor(scope).ents, job.onFail)
       /\ job.rec.scope = scope => AllAnswered(job.rec.ents, job.onFail)
  BY <1>1 DEF StoreInv, DebtInv
<1>13. \A k \in Keys : Answered(RecordFor(scope)'.ents[k], job.onFail[<<scope, k>>], mem[k],
                                gone[k], ClearOwed)
  <2>1. CASE RecordFor(scope)'.ents = Nothing
    BY <2>1 DEF Answered, Nothing
  <2>2. CASE landed /\ job.rec.scope = scope /\ RecordFor(scope)' = job.rec
    BY <1>12, <2>2 DEF AllAnswered
  <2>3. CASE ~landed
    <3>1. disk' = disk
      BY <1>1, <1>2, <2>3 DEF rec, tomb, Disks
    <3> QED
      BY <1>2, <1>12, <3>1, SameRecord DEF AllAnswered
  <2> QED
    BY <1>2, <1>6, <2>1, <2>2, <2>3, NextRecord DEF rec
<1>14. job'.rec.scope = scope /\ job' # None =>
          \A k \in Keys : Answered(job'.rec.ents[k], job.onFail[<<scope, k>>], mem[k],
                                   gone[k], ClearOwed)
  BY <1>7, <1>12 DEF AllAnswered, Answered
<1>15. DebtInv'
  BY <1>2, <1>7, <1>9, <1>13, <1>14 DEF DebtInv, AllAnswered
<1> QED
  BY <1>8, <1>10, <1>11, <1>15 DEF StoreInv

LEMMA PrunedShape ==
    ASSUME NEW h \in Histories, NEW live
    PROVE  Prune(h, live) \in Histories
BY DEF Prune, Histories

LEMMA RecordFactKeyStep ==
    ASSUME TypeOK, StoreInv, NEW t \in given, RecordFactKey(t[1], t[2], t[3])
    PROVE  TypeOK' /\ StoreInv'
<1> DEFINE s == t[1]
           k == t[2]
           f == t[3]
           m == Mirror
           r == RecordFor(scope)
           h == [m.hist EXCEPT ![k] = m.hist[k] \union {f}]
           fact(b) == [of |-> <<s, k, f>>, filed |-> b]
<1>1. s \in Scopes /\ k \in Keys /\ f \in Nat
  BY DEF TypeOK
<1>2. /\ m \in Mirrors /\ m.hist \in Histories /\ m.durable \in BOOLEAN
      /\ r \in Records /\ r.scope = scope /\ r.hist \in Histories /\ pend \in Owed
      /\ ret \in [Scopes -> Histories] /\ scope \in Scopes
  BY CurrentMirror, MirrorShape, RecordForShape, RecordShape DEF TypeOK
<1> HIDE DEF s, k, f, m, r
<1>3. h \in Histories
  BY <1>1, <1>2 DEF Histories
<1>4. \A b \in BOOLEAN : fact(b) \in Facts
  BY <1>1 DEF Facts
<1>5. /\ job = None /\ lane = "idle"
      /\ UNCHANGED <<mem, kept, pend, clear, scope, lane, disk, used, gone, given>>
  BY DEF RecordFactKey, Idle
<1> DEFINE grown == [ret[s] EXCEPT ![k] = ret[s][k] \union {f}]
           rec == [r EXCEPT !.hist = h]
           wide == [m EXCEPT !.hist = h, !.durable = m.durable /\ h = m.hist]
<1>6. \/ /\ ret' = [ret EXCEPT ![s] = grown]
         /\ emitted' = emitted \union {fact(FALSE)} /\ UNCHANGED <<mir, job>>
      \/ /\ mir' = m /\ emitted' = emitted \union {fact(OnFile(r, k, f))} /\ UNCHANGED <<ret, job>>
      \/ mir' = wide /\ emitted' = emitted \union {fact(TRUE)} /\ UNCHANGED <<ret, job>>
      \/ /\ mir' = wide /\ UNCHANGED <<ret, emitted>>
         /\ job' = [rec |-> rec, onOK |-> pend, onFail |-> pend, without |-> None,
                    emit |-> {fact(TRUE)}]
  BY <1>1, <1>2 DEF RecordFactKey, Built, s, k, f, m, r
<1>7. rec \in Records /\ rec.scope = scope /\ rec.ents = r.ents
  BY <1>2, <1>3, RecordShape
<1>8. OnFile(r, k, f) \in BOOLEAN /\ wide \in Mirrors
  <2>1. (m.durable /\ h = m.hist) \in BOOLEAN
    OBVIOUS
  <2> HIDE DEF h
  <2> QED
    BY <1>2, <1>3, <2>1, MirrorShape DEF OnFile
<1>9. grown \in Histories
  BY <1>1, <1>2 DEF Histories
<1> DEFINE Quiet == \/ job' = None
                    \/ /\ job' \in Jobs /\ job'.rec.scope = scope /\ job'.rec.ents = r.ents
                       /\ job'.onOK = pend /\ job'.onFail = pend
           Shapes == /\ ret' \in [Scopes -> Histories] /\ mir' \in Mirrors \union {None}
                     /\ emitted' \subseteq Facts
<1> HIDE DEF h, fact, grown, rec, wide
<1>10. SUFFICES Quiet /\ Shapes
  <2>1. TypeOK'
    BY <1>5, <1>10 DEF TypeOK
  <2>2. StoreInv'
    BY <1>2, <1>5, <1>10, QuietStep DEF r
  <2> QED
    BY <2>1, <2>2
<1>11. emitted \subseteq Facts /\ mir \in Mirrors \union {None}
  BY DEF TypeOK
<1>12. CASE /\ ret' = [ret EXCEPT ![s] = grown]
            /\ emitted' = emitted \union {fact(FALSE)} /\ UNCHANGED <<mir, job>>
  BY <1>1, <1>2, <1>4, <1>5, <1>9, <1>11, <1>12
<1>13. CASE /\ mir' = m /\ emitted' = emitted \union {fact(OnFile(r, k, f))}
            /\ UNCHANGED <<ret, job>>
  BY <1>2, <1>4, <1>5, <1>8, <1>11, <1>13
<1>14. CASE mir' = wide /\ emitted' = emitted \union {fact(TRUE)} /\ UNCHANGED <<ret, job>>
  BY <1>2, <1>4, <1>5, <1>8, <1>11, <1>14
<1>15. CASE /\ mir' = wide /\ UNCHANGED <<ret, emitted>>
            /\ job' = [rec |-> rec, onOK |-> pend, onFail |-> pend, without |-> None,
                       emit |-> {fact(TRUE)}]
  <2>1. {fact(TRUE)} \in SUBSET Facts /\ None \in Keys \union {None}
    BY <1>4
  <2>2. job' \in Jobs /\ job'.rec = rec /\ job'.onOK = pend /\ job'.onFail = pend
    BY <1>2, <1>7, <1>15, <2>1, NewJob
  <2>3. Quiet
    BY <1>7, <2>2
  <2>4. Shapes
    BY <1>2, <1>8, <1>11, <1>15
  <2> QED
    BY <2>3, <2>4
<1> QED
  BY <1>6, <1>12, <1>13, <1>14, <1>15

LEMMA FactSettlesStep ==
    ASSUME TypeOK, StoreInv, NEW t \in emitted, FactSettles(t)
    PROVE  TypeOK' /\ StoreInv'
<1>1. /\ job = None /\ lane = "idle" /\ emitted' \subseteq emitted /\ given' \subseteq given
      /\ UNCHANGED <<mem, kept, pend, clear, mir, ret, scope, lane, disk, job, used, gone>>
  BY DEF FactSettles, Idle, vol
<1>2. TypeOK'
  BY <1>1 DEF TypeOK
<1>3. RecordFor(scope).scope = scope
  BY RecordForShape DEF TypeOK
<1>4. StoreInv'
  BY <1>1, <1>3, QuietStep
<1> QED
  BY <1>2, <1>4

LEMMA PruneStep ==
    ASSUME TypeOK, StoreInv, NEW owed, PruneFactKeys(owed)
    PROVE  TypeOK' /\ StoreInv'
<1> DEFINE live == {t.of : t \in emitted} \union owed
           r == RecordFor(scope)
           h == Prune(mir.hist, live)
<1>1. /\ job = None /\ lane = "idle"
      /\ UNCHANGED <<mem, kept, pend, clear, scope, lane, disk, used, gone, given, emitted>>
      /\ ret' = [s \in Scopes |-> Prune(ret[s], live)]
      /\ \/ /\ mir # None /\ mir' = [mir EXCEPT !.hist = h, !.durable = FALSE]
            /\ job' = [rec |-> [r EXCEPT !.hist = h], onOK |-> pend, onFail |-> pend,
                       without |-> None, emit |-> {}]
         \/ UNCHANGED <<mir, job>>
  BY DEF PruneFactKeys, Idle
<1> HIDE DEF live
<1>2. /\ r \in Records /\ r.scope = scope /\ pend \in Owed /\ mir \in Mirrors \union {None}
      /\ ret \in [Scopes -> Histories]
  BY RecordForShape DEF TypeOK
<1>3. mir # None => h \in Histories
  BY <1>2, MirrorShape, PrunedShape
<1> HIDE DEF h, r
<1>4. ret' \in [Scopes -> Histories]
  BY <1>1, <1>2, PrunedShape
<1>5. mir' \in Mirrors \union {None}
  BY <1>1, <1>2, <1>3, MirrorShape
<1>6. \/ job' = None
      \/ /\ job' \in Jobs /\ job'.rec.scope = scope /\ job'.rec.ents = r.ents
         /\ job'.onOK = pend /\ job'.onFail = pend
  <2>1. CASE UNCHANGED <<mir, job>>
    BY <1>1, <2>1
  <2>2. CASE /\ mir # None
             /\ job' = [rec |-> [r EXCEPT !.hist = h], onOK |-> pend, onFail |-> pend,
                        without |-> None, emit |-> {}]
    <3>1. /\ [r EXCEPT !.hist = h] \in Records /\ [r EXCEPT !.hist = h].scope = scope
          /\ [r EXCEPT !.hist = h].ents = r.ents
      BY <1>2, <1>3, <2>2, RecordShape
    <3>2. {} \in SUBSET Facts /\ None \in Keys \union {None}
      OBVIOUS
    <3> QED
      BY <1>2, <2>2, <3>1, <3>2, NewJob
  <2> QED
    BY <1>1, <2>1, <2>2
<1>7. TypeOK'
  BY <1>1, <1>4, <1>5, <1>6 DEF TypeOK
<1>8. StoreInv'
  BY <1>1, <1>2, <1>6, QuietStep DEF r
<1> QED
  BY <1>7, <1>8

LEMMA RetryClearStep ==
    ASSUME TypeOK, StoreInv, NEW out \in ClearOutcomes, RetryClear(out)
    PROVE  TypeOK' /\ StoreInv'
<1>1. /\ job = None /\ lane = "idle" /\ lane' = "capture" /\ scope \in Scopes /\ pend \in Owed
      /\ UNCHANGED <<mem, kept, scope, job, gone, given>> /\ disk \in Disks
  BY DEF RetryClear, Idle, TypeOK
<1>2. /\ \A k \in Keys : Answered(RecordFor(scope).ents[k], pend[<<scope, k>>], mem[k], gone[k],
                                  ClearOwed)
      /\ \A k \in Keys : gone[k] \in Nat /\ mem[k] \in Entries \union {None}
  BY <1>1, HeldShape DEF StoreInv, DebtInv, AllAnswered, TypeOK
<1>3. SUFFICES /\ pend' \in Owed /\ clear' \in Clears \union {None}
               /\ mir' \in Mirrors \union {None} /\ ret' \in [Scopes -> Histories]
               /\ disk' \in Disks /\ disk'.subj = disk.subj
               /\ disk'.rec = None \/ disk'.rec = disk.rec
               /\ used' \in Counts /\ used'.ids = used.ids /\ used'.scopes = used.scopes
               /\ emitted' \subseteq Facts
               /\ ClearOwed' => ClearOwed
               /\ \A k \in Keys : Answered(RecordFor(scope)'.ents[k], pend'[<<scope, k>>],
                                           mem[k], gone[k], ClearOwed')
  <2>1. TypeOK'
    BY <1>1, <1>3 DEF TypeOK
  <2>2. NumberInv'
    BY <1>1, <1>3 DEF StoreInv, NumberInv
  <2>3. ClearInv' /\ DroppedStaysGone'
    BY <1>1, <1>3 DEF StoreInv, ClearInv, DroppedStaysGone
  <2>4. DebtInv'
    BY <1>1, <1>3 DEF DebtInv, AllAnswered
  <2> QED
    BY <2>1, <2>2, <2>3, <2>4 DEF StoreInv
<1>4. used \in Counts /\ emitted \subseteq Facts /\ ret \in [Scopes -> Histories]
      /\ mir \in Mirrors \union {None} /\ clear \in Clears \union {None}
  BY DEF TypeOK
<1>5. CASE clear = None /\ UNCHANGED <<pend, clear, mir, ret, disk, used, emitted>>
  <2>1. ClearOwed' = ClearOwed /\ RecordFor(scope)' = RecordFor(scope)
    BY <1>1, <1>5, SameRecord DEF ClearOwed
  <2> QED
    BY <1>1, <1>2, <1>4, <1>5, <2>1
<1>6. CASE /\ clear # None /\ mem # Nothing /\ pend' = Demoted(pend, mem) /\ clear' = None
           /\ UNCHANGED <<mir, ret, disk, used, emitted>>
  <2>1. ClearOwed' = FALSE /\ RecordFor(scope)' = RecordFor(scope) /\ ~ClearOwed
    BY <1>1, <1>6, SameRecord DEF ClearOwed, StoreInv, ClearInv
  <2>2. pend' \in Owed
    BY <1>1, <1>6, DemotedAnswers
  <2>3. \A k \in Keys : Answered(RecordFor(scope).ents[k], pend'[<<scope, k>>], mem[k], gone[k], FALSE)
    BY <1>1, <1>2, <1>6, <2>1, DemotedAnswers
  <2> QED
    BY <1>1, <1>4, <1>6, <2>1, <2>2, <2>3
<1>7. CASE /\ clear # None /\ disk.rec # None /\ disk.rec.scope # clear.scope /\ clear' = None
           /\ UNCHANGED <<pend, mir, ret, disk, used, emitted>>
  <2>1. ClearOwed' = FALSE /\ RecordFor(scope)' = RecordFor(scope)
    BY <1>1, <1>7, SameRecord DEF ClearOwed
  <2>2. ClearOwed => RecordFor(scope).ents = Nothing
    BY <1>1, <1>7, RecordForShape DEF ClearOwed
  <2>3. \A k \in Keys : Answered(RecordFor(scope).ents[k], pend[<<scope, k>>], mem[k], gone[k], FALSE)
    BY <1>2, <2>2, ClearShape DEF Answered, Nothing
  <2> QED
    BY <1>1, <1>4, <1>7, <2>1, <2>3
<1>8. CASE /\ mir' = None /\ ret' = NoKeys /\ emitted' = {}
           /\ disk' = [disk EXCEPT !.rec = out.rec, !.tomb = out.tomb]
           /\ \/ /\ out.ok /\ clear' = None /\ UNCHANGED used
                 /\ pend' = IF disk.rec = None THEN pend ELSE NoPend
              \/ ~out.ok /\ Fault /\ UNCHANGED <<clear, pend>>
  <2>1. /\ out.rec \in Records \union {None} /\ out.tomb \in Scopes \union {None}
        /\ (out.ok => out.rec = None)
        /\ out.rec = None \/ (out.rec = disk.rec /\ out.tomb = disk.tomb)
    BY OutcomeShape
  <2>2. /\ disk' \in Disks /\ disk'.subj = disk.subj /\ disk'.rec = out.rec
        /\ disk'.tomb = out.tomb
    BY <1>1, <1>8, <2>1 DEF Disks
  <2>3. used' \in Counts /\ used'.ids = used.ids /\ used'.scopes = used.scopes
    BY <1>4, <1>8, FaultCounts
  <2>4. /\ pend' \in Owed /\ clear' \in Clears \union {None} /\ ret' \in [Scopes -> Histories]
        /\ mir' \in Mirrors \union {None} /\ emitted' \subseteq Facts
    BY <1>1, <1>4, <1>8, NothingShape
  <2>5. ClearOwed' => ClearOwed
    BY <1>1, <1>8 DEF ClearOwed
  <2>6. \A k \in Keys : Answered(RecordFor(scope)'.ents[k], pend'[<<scope, k>>], mem[k], gone[k],
                                 ClearOwed')
    <3>1. CASE out.rec = None
      BY <2>2, <3>1, NextRecord DEF Answered, Nothing
    <3>2. CASE ~out.ok /\ out.rec = disk.rec /\ out.tomb = disk.tomb
      <4>1. disk' = disk
        BY <1>1, <1>8, <3>2 DEF Disks
      <4>2. ClearOwed' = ClearOwed /\ RecordFor(scope)' = RecordFor(scope) /\ pend' = pend
        BY <1>1, <1>8, <3>2, <4>1, SameRecord DEF ClearOwed
      <4> QED
        BY <1>2, <4>2
    <3> QED
      BY <2>1, <3>1, <3>2
  <2> QED
    BY <2>1, <2>2, <2>3, <2>4, <2>5, <2>6
<1> QED
  BY <1>5, <1>6, <1>7, <1>8 DEF RetryClear

LEMMA RetryCaptureStep ==
    ASSUME TypeOK, StoreInv, NEW done, RetryCapture(done)
    PROVE  TypeOK' /\ StoreInv'
<1>1. /\ lane = "capture" /\ lane' = "fold" /\ job = None
      /\ pend' = [x \in DOMAIN pend |-> IF x \in done THEN Released(pend[x]) ELSE pend[x]]
      /\ UNCHANGED <<mem, kept, clear, mir, ret, scope, disk, job, used, gone, given, emitted>>
  BY DEF RetryCapture, StoreInv, NumberInv
<1>2. /\ pend \in Owed /\ scope \in Scopes /\ DOMAIN pend = Scopes \X Keys
      /\ \A x \in Scopes \X Keys : pend[x] \in Intents \union {None}
  BY DEF TypeOK, Owed
<1>3. \A x \in Scopes \X Keys :
         /\ pend'[x] \in Intents \union {None} /\ (pend'[x] = None <=> pend[x] = None)
         /\ pend[x] # None => pend'[x].asOf = pend[x].asOf /\ pend'[x].drop = pend[x].drop
  BY <1>1, <1>2, ReleasedShape
<1>4. pend' \in Owed
  BY <1>1, <1>2, <1>3 DEF Owed
<1>5. TypeOK'
  BY <1>1, <1>4 DEF TypeOK
<1>6. ClearOwed' = ClearOwed /\ RecordFor(scope)' = RecordFor(scope)
  BY <1>1, SameRecord DEF ClearOwed
<1>7. NumberInv' /\ ClearInv' /\ DroppedStaysGone'
  BY <1>1, <1>6 DEF StoreInv, NumberInv, ClearInv, DroppedStaysGone
<1>8. \A k \in Keys : Answered(RecordFor(scope).ents[k], pend'[<<scope, k>>], mem[k], gone[k], ClearOwed)
  <2> TAKE k \in Keys
  <2>1. Answered(RecordFor(scope).ents[k], pend[<<scope, k>>], mem[k], gone[k], ClearOwed)
    BY <1>1 DEF StoreInv, DebtInv, AllAnswered
  <2>2. /\ pend'[<<scope, k>>] = None <=> pend[<<scope, k>>] = None
        /\ pend[<<scope, k>>] # None => /\ pend'[<<scope, k>>].asOf = pend[<<scope, k>>].asOf
                                        /\ pend'[<<scope, k>>].drop = pend[<<scope, k>>].drop
    BY <1>2, <1>3
  <2> QED
    BY <2>1, <2>2 DEF Answered
<1>9. DebtInv'
  BY <1>1, <1>6, <1>8 DEF DebtInv, AllAnswered
<1> QED
  BY <1>5, <1>7, <1>9 DEF StoreInv

LEMMA RetryFoldStep ==
    ASSUME TypeOK, StoreInv, RetryFold
    PROVE  TypeOK' /\ StoreInv'
<1> DEFINE r == RecordFor(scope)
           rec == Fold(r, pend, mem, None)
           ok == Folded(pend, scope, None)
<1>1. /\ lane = "fold" /\ lane' = "foreign" /\ job = None
      /\ UNCHANGED <<mem, kept, pend, clear, ret, scope, disk, used, gone, given, emitted>>
      /\ StartSave(rec, Mirror, ok, pend, None) \/ UNCHANGED <<job, mir>>
  BY DEF RetryFold
<1>2. /\ r \in Records /\ r.scope = scope /\ scope \in Scopes /\ pend \in Owed /\ mem \in Held
      /\ gone \in [Keys -> Nat] /\ ClearOwed \in BOOLEAN
  BY RecordForShape, ClearShape DEF TypeOK
<1>3. \A k \in Keys : Answered(r.ents[k], pend[<<scope, k>>], mem[k], gone[k], ClearOwed)
  BY <1>1 DEF StoreInv, DebtInv, AllAnswered
<1>4. ClearOwed' = ClearOwed /\ RecordFor(scope)' = r
  BY <1>1, SameRecord DEF ClearOwed
<1> HIDE DEF r
<1>5. CASE UNCHANGED <<job, mir>>
  <2>1. TypeOK'
    BY <1>1, <1>5 DEF TypeOK
  <2>2. StoreInv'
    BY <1>1, <1>2, <1>5, QuietStep DEF r
  <2> QED
    BY <2>1, <2>2
<1>6. CASE StartSave(rec, Mirror, ok, pend, None)
  <2>1. rec \in Records /\ rec.scope = scope /\ ok \in Owed
    <3>1. rec \in Records /\ rec.scope = scope
      BY <1>2, FoldShape
    <3>2. ok \in Owed
      BY <1>2, FoldedShape
    <3> QED
      BY <3>1, <3>2
  <2>2. \A k \in Keys : k # None /\ (mem[k] # None => mem[k].id > gone[k])
    BY NoneIsApart DEF StoreInv, DroppedStaysGone
  <2>3. \A k \in Keys : /\ Answered(rec.ents[k], pend[<<scope, k>>], mem[k], gone[k], ClearOwed)
                        /\ Answered(rec.ents[k], ok[<<scope, k>>], mem[k], gone[k], ClearOwed)
    BY <1>2, <1>3, <2>2, FoldedRecord
  <2> HIDE DEF rec, ok
  <2>4. Mirror \in Mirrors /\ None \in Keys \union {None}
    BY CurrentMirror
  <2>5. /\ job' \in Jobs /\ job' # None /\ mir' \in Mirrors \union {None}
        /\ job'.rec.scope = scope /\ job'.rec.ents = rec.ents
        /\ job'.onOK = ok /\ job'.onFail = pend
    BY <1>2, <1>6, <2>1, <2>4, SaveStarted
  <2>6. TypeOK'
    BY <1>1, <2>5 DEF TypeOK
  <2>7. NumberInv' /\ ClearInv' /\ DroppedStaysGone'
    BY <1>1, <1>4, <2>5 DEF StoreInv, NumberInv, ClearInv, DroppedStaysGone
  <2>8. DebtInv'
    BY <1>1, <1>3, <1>4, <2>3, <2>5 DEF DebtInv, AllAnswered
  <2> QED
    BY <2>6, <2>7, <2>8 DEF StoreInv
<1> QED
  BY <1>1, <1>5, <1>6

LEMMA RetryForeignStep ==
    ASSUME TypeOK, StoreInv, RetryForeign
    PROVE  TypeOK' /\ StoreInv'
<1> DEFINE foreign == {x \in DOMAIN pend : x[1] # scope /\ pend[x] # None}
           ready == {x \in foreign : pend[x].drop /\ ~pend[x].capture}
           applies == {x \in ready : (disk.rec # None /\ disk.rec.scope = x[1])
                          /\ ~(disk.rec.ents[x[2]] # None /\ disk.rec.ents[x[2]].at > pend[x].asOf)}
           rest == [x \in DOMAIN pend |->
                      IF x \in foreign /\ (~pend[x].drop \/ x \in ready \ applies) THEN None
                      ELSE pend[x]]
           ents == [k \in Keys |-> IF <<disk.rec.scope, k>> \in applies THEN None
                                   ELSE disk.rec.ents[k]]
           rec == [disk.rec EXCEPT !.ents = ents]
           ok == [x \in DOMAIN rest |-> IF x \in applies THEN None ELSE rest[x]]
<1>1. /\ lane = "foreign" /\ lane' = "idle" /\ job = None /\ pend' = rest
      /\ UNCHANGED <<mem, kept, clear, ret, scope, disk, used, gone, given, emitted>>
  BY DEF RetryForeign
<1>2. \/ UNCHANGED <<job, mir>>
      \/ applies # {} /\ StartSave(rec, MirrorOf(disk.rec), ok, rest, None)
  BY DEF RetryForeign
<1>3. /\ pend \in Owed /\ scope \in Scopes /\ DOMAIN pend = Scopes \X Keys
      /\ \A x \in Scopes \X Keys : pend[x] \in Intents \union {None}
      /\ disk.rec \in Records \union {None}
  BY DiskShape DEF TypeOK, Owed
<1>4. applies # {} => disk.rec # None /\ disk.rec.scope # scope
  OBVIOUS
<1>5. /\ rest \in Owed /\ DOMAIN rest = Scopes \X Keys
      /\ \A k \in Keys : rest[<<scope, k>>] = pend[<<scope, k>>]
  <2>1. \A k \in Keys : <<scope, k>> \in Scopes \X Keys /\ <<scope, k>> \notin foreign
    BY <1>3
  <2> HIDE DEF foreign, ready, applies
  <2> QED
    BY <1>3, <2>1 DEF Owed
<1> HIDE DEF foreign, ready, applies, rest
<1>6. ok \in Owed
  BY <1>5 DEF Owed
<1>7. ClearOwed' = ClearOwed /\ RecordFor(scope)' = RecordFor(scope)
  BY <1>1, SameRecord DEF ClearOwed
<1>8. \A k \in Keys : Answered(RecordFor(scope).ents[k], rest[<<scope, k>>], mem[k], gone[k], ClearOwed)
  BY <1>1, <1>5 DEF StoreInv, DebtInv, AllAnswered
<1>9. ClearInv' /\ DroppedStaysGone'
  BY <1>1, <1>7 DEF StoreInv, ClearInv, DroppedStaysGone
<1>10. CASE UNCHANGED <<job, mir>>
  <2>1. TypeOK'
    BY <1>1, <1>5, <1>10 DEF TypeOK
  <2>2. NumberInv'
    BY <1>1, <1>10 DEF StoreInv, NumberInv
  <2>3. DebtInv'
    BY <1>1, <1>7, <1>8, <1>10 DEF DebtInv, AllAnswered
  <2> QED
    BY <1>9, <2>1, <2>2, <2>3 DEF StoreInv
<1>11. CASE applies # {} /\ StartSave(rec, MirrorOf(disk.rec), ok, rest, None)
  <2>1. disk.rec \in Records /\ disk.rec # None /\ disk.rec.scope # scope
    BY <1>3, <1>4, <1>11
  <2>2. ents \in Held
    <3>1. \A k \in Keys : disk.rec.ents[k] \in Entries \union {None}
      BY <2>1, RecordShape, HeldShape
    <3> QED
      BY <3>1 DEF Held
  <2> HIDE DEF ents, ok
  <2>3. rec \in Records /\ rec.scope = disk.rec.scope /\ MirrorOf(disk.rec) \in Mirrors
    BY <2>1, <2>2, RecordShape, MirrorOfShape
  <2> HIDE DEF rec
  <2>4. /\ job' \in Jobs /\ job' # None /\ mir' \in Mirrors \union {None}
        /\ job'.rec.scope = disk.rec.scope /\ job'.onFail = rest
    <3>1. None \in Keys \union {None}
      OBVIOUS
    <3> QED
      BY <1>5, <1>6, <1>11, <2>3, <3>1, SaveStarted
  <2>5. TypeOK'
    BY <1>1, <1>5, <2>4 DEF TypeOK
  <2>6. NumberInv'
    BY <1>1, <2>1, <2>4 DEF StoreInv, NumberInv
  <2>7. DebtInv'
    BY <1>1, <1>7, <1>8, <2>1, <2>4 DEF DebtInv, AllAnswered
  <2> QED
    BY <1>9, <2>5, <2>6, <2>7 DEF StoreInv
<1> QED
  BY <1>2, <1>10, <1>11

\* What a restart loads was not ended, unless the debt for it was forgotten.
LEMMA RestartStep ==
    ASSUME TypeOK, StoreInv, Restart
    PROVE  TypeOK' /\ StoreInv'
<1>1. /\ mem' = Preloaded /\ kept' = Nothing /\ pend' = NoPend /\ Turn
      /\ clear' = IF disk.tomb = None THEN None ELSE [asOf |-> 0, scope |-> disk.tomb]
      /\ mir' = IF Loads THEN MirrorOf(disk.rec) ELSE None
      /\ ret' = NoKeys /\ scope' = disk.subj /\ lane' = "idle" /\ job' = None /\ disk' = disk
      /\ gone' = [k \in Keys |-> IF Unsettled(k) THEN 0 ELSE gone[k]]
      /\ emitted' \subseteq emitted /\ given' \subseteq given
  BY DEF Restart
<1>2. /\ disk \in Disks /\ disk.rec \in Records \union {None} /\ disk.subj \in Scopes
      /\ disk.tomb \in Scopes \union {None}
  BY DiskShape DEF TypeOK
<1>3. used' \in Counts /\ used'.ids = used.ids /\ used'.scopes = used.scopes /\ used.ids \in Nat
  BY <1>1, TurnCounts, CountShape DEF TypeOK
<1>4. Loads => disk.rec \in Records /\ \A k \in Keys : disk.rec.ents[k] \in Entries \union {None}
  BY <1>2, RecordShape, HeldShape DEF Loads
<1>5. Preloaded \in Held
  BY <1>4 DEF Preloaded, Held
<1>6. clear' \in Clears \union {None}
  BY <1>1, <1>2 DEF Clears
<1>7. /\ gone' \in [Keys -> Nat]
      /\ \A k \in Keys : gone'[k] = IF Unsettled(k) THEN 0 ELSE gone[k]
  BY <1>1 DEF TypeOK
<1>8. TypeOK'
  BY <1>1, <1>2, <1>3, <1>4, <1>5, <1>6, <1>7, NothingShape, MirrorOfShape DEF TypeOK
<1>9. NumberInv'
  <2>1. \A k \in Keys : gone'[k] <= used'.ids
    BY <1>3, <1>7 DEF StoreInv, NumberInv
  <2> QED
    BY <1>1, <1>2, <1>3, <2>1 DEF StoreInv, NumberInv
<1>10. ClearInv'
  <2>1. ClearOwed' => disk.tomb = disk.subj
    BY <1>1, NoneIsApart DEF ClearOwed
  <2>2. disk.tomb = disk.subj => Preloaded = Nothing
    BY DEF Loads, Preloaded, Nothing
  <2> QED
    BY <1>1, <2>1, <2>2 DEF ClearInv
<1>11. ASSUME NEW k \in Keys, disk.rec # None, disk.rec.scope = disk.subj, disk.tomb # disk.subj,
              disk.rec.ents[k] # None
       PROVE  disk.rec.ents[k].id > gone'[k]
  <2>1. disk.rec.ents[k] \in Entries
    BY <1>2, <1>11, RecordShape, HeldShape
  <2>2. CASE Unsettled(k)
    BY <1>7, <2>1, <2>2, EntryShape
  <2>3. CASE ~Unsettled(k)
    <3>1. job = None /\ pend[<<disk.subj, k>>] = None /\ clear = None /\ scope = disk.subj
      BY <1>11, <2>3 DEF Unsettled
    <3>2. RecordFor(scope) = disk.rec /\ ~ClearOwed
      BY <1>11, <3>1 DEF RecordFor, ClearOwed
    <3>3. Answered(disk.rec.ents[k], pend[<<scope, k>>], mem[k], gone[k], ClearOwed)
      BY <3>1, <3>2 DEF StoreInv, DebtInv, AllAnswered
    <3> QED
      BY <1>7, <1>11, <2>3, <3>1, <3>2, <3>3 DEF Answered
  <2> QED
    BY <2>2, <2>3
<1>12. DroppedStaysGone'
  <2>1. \A k \in Keys : Preloaded[k] # None =>
           /\ disk.rec # None /\ disk.rec.scope = disk.subj /\ disk.tomb # disk.subj
           /\ Preloaded[k] = disk.rec.ents[k]
    BY DEF Preloaded, Loads
  <2> QED
    BY <1>1, <1>11, <2>1 DEF DroppedStaysGone, Nothing
<1>13. DebtInv'
  <2>1. \A k \in Keys : Answered(RecordFor(scope)'.ents[k], pend'[<<scope', k>>], mem'[k], gone'[k],
                                 ClearOwed')
    BY <1>1, <1>11, NextRecord DEF Answered, Nothing
  <2> QED
    BY <1>1, <2>1 DEF DebtInv, AllAnswered
<1> QED
  BY <1>8, <1>9, <1>10, <1>12, <1>13 DEF StoreInv

-----------------------------------------------------------------------------
(* The invariant and what follows from it.                                 *)

LEMMA StepKeeps ==
    ASSUME TypeOK, StoreInv, [Next]_vars
    PROVE  TypeOK' /\ StoreInv'
<1>1. ASSUME NEW k \in Keys, NEW now \in Clocks, NEW hid \in BOOLEAN, Install(k, now, hid)
      PROVE  TypeOK' /\ StoreInv'
  BY <1>1, InstallStep
<1>2. ASSUME NEW k \in Keys, NEW now \in Clocks, NEW how \in {"captured", "uncaptured", "age"},
             NEW lifts \in BOOLEAN, Drop(k, now, how, lifts)
      PROVE  TypeOK' /\ StoreInv'
  BY <1>2, DropStep
<1>3. ASSUME NEW now \in Clocks, NEW out \in ClearOutcomes, NEW marked \in BOOLEAN,
             Sentinel(now, out, marked)
      PROVE  TypeOK' /\ StoreInv'
  BY <1>3, SentinelStep
<1>4. CASE Latch
  BY <1>4, LatchStep
<1>5. ASSUME NEW filed \in BOOLEAN, NEW landed \in BOOLEAN, NEW marked \in BOOLEAN,
           Remint(filed, landed, marked)
      PROVE  TypeOK' /\ StoreInv'
  BY <1>5, RemintStep
<1>17. CASE PersistSubject
  BY <1>17, PersistSubjectStep
<1>6. ASSUME NEW t \in given, RecordFactKey(t[1], t[2], t[3])
      PROVE  TypeOK' /\ StoreInv'
  BY <1>6, RecordFactKeyStep
<1>7. ASSUME NEW t \in emitted, FactSettles(t)
      PROVE  TypeOK' /\ StoreInv'
  BY <1>7, FactSettlesStep
<1>8. ASSUME NEW owed, PruneFactKeys(owed)
      PROVE  TypeOK' /\ StoreInv'
  BY <1>8, PruneStep
<1>9. CASE SaveLands
  BY <1>9, SaveLandsStep
<1>10. ASSUME NEW landed \in BOOLEAN, NEW cleared \in BOOLEAN, SaveFails(landed, cleared)
       PROVE  TypeOK' /\ StoreInv'
  BY <1>10, SaveFailsStep
<1>11. ASSUME NEW out \in ClearOutcomes, RetryClear(out)
       PROVE  TypeOK' /\ StoreInv'
  BY <1>11, RetryClearStep
<1>12. ASSUME NEW done, RetryCapture(done)
       PROVE  TypeOK' /\ StoreInv'
  BY <1>12, RetryCaptureStep
<1>13. CASE RetryFold
  BY <1>13, RetryFoldStep
<1>14. CASE RetryForeign
  BY <1>14, RetryForeignStep
<1>15. CASE Restart
  BY <1>15, RestartStep
<1>16. CASE UNCHANGED vars
  <2>1. UNCHANGED <<mem, kept, pend, clear, mir, ret, scope, lane, disk, job, used, gone, given,
                    emitted>>
    BY <1>16 DEF vars, vol
  <2>2. ClearOwed' = ClearOwed /\ RecordFor(scope)' = RecordFor(scope)
    BY <2>1, SameRecord DEF ClearOwed
  <2>3. TypeOK' /\ NumberInv' /\ ClearInv' /\ DroppedStaysGone'
    BY <2>1, <2>2 DEF TypeOK, StoreInv, NumberInv, ClearInv, DroppedStaysGone
  <2>4. DebtInv'
    BY <2>1, <2>2 DEF StoreInv, DebtInv, AllAnswered
  <2> QED
    BY <2>3, <2>4 DEF StoreInv
<1> QED
  BY <1>1, <1>2, <1>3, <1>4, <1>5, <1>6, <1>7, <1>8, <1>9, <1>10, <1>11, <1>12, <1>13, <1>14,
     <1>15, <1>16, <1>17 DEF Next

\* The invariant carries the debt of experiments.go's failed saves.
THEOREM StoreInvariant == Spec => [](TypeOK /\ StoreInv)
<1>1. Init => TypeOK /\ StoreInv
  BY InitHolds
<1>2. (TypeOK /\ StoreInv) /\ [Next]_vars => (TypeOK /\ StoreInv)'
  BY StepKeeps
<1> QED
  BY <1>1, <1>2, PTL DEF Spec

\* Entries, owed intents, the record, the save under way and the fact-key
\* histories of experimentsState keep their shape, and while the auth latch
\* retains entries none is served.
THEOREM TypeCorrect == Spec => []TypeOK
BY StoreInvariant, PTL

\* An assignment that applyEntryDropLocked, an age refusal, the sentinel or a
\* re-mint has ended is not served again, from memory or after preload.
THEOREM EndedStaysEnded == Spec => []DroppedStaysGone
<1>1. StoreInv => DroppedStaysGone
  BY DEF StoreInv
<1> QED
  BY <1>1, StoreInvariant, PTL

\* What is left of an ended assignment in the record is owed its removal in
\* durablePending or durableClearPending, whichever saves failed.
THEOREM GhostsAreOwed == Spec => []GhostIsOwed
<1>1. TypeOK /\ StoreInv => GhostIsOwed
  BY ClearShape DEF StoreInv, DebtInv, AllAnswered, Answered, GhostIsOwed
<1> QED
  BY <1>1, StoreInvariant, PTL


-----------------------------------------------------------------------------
(* The keys of facts are known.                                            *)

Here(t) == t.of[1] = scope
InMirror(t) == t.of[3] = mir.keys[t.of[2]] \/ t.of[3] \in mir.hist[t.of[2]]
Carries(r, t) == r # None /\ r.scope = scope /\ OnFile(r, t.of[2], t.of[3])

\* What is true of the key of a live fact t: one of an earlier scope is among
\* the retired keys; one of the current scope is in the mirror, and if it was
\* filed, in the record on file and in the one being written.  Moved to the
\* history of the record on file, it is in that of the mirror too.
FactHolds(t) ==
    /\ t.of[1] <= used.scopes /\ t.of[3] > 0
    /\ ~Here(t) => t.of[3] \in ret[t.of[1]][t.of[2]]
    /\ Here(t) =>
          /\ mir # None /\ disk.tomb # scope /\ InMirror(t)
          /\ (disk.rec # None /\ disk.rec.scope = scope
              /\ t.of[3] \in disk.rec.hist[t.of[2]]) => t.of[3] \in mir.hist[t.of[2]]
          /\ t.filed => Carries(disk.rec, t) /\ (job # None => Carries(job.rec, t))

GivenInv == \A t \in given : t[1] <= used.scopes /\ t[3] > 0

\* A mirror that is marked durable has the history of the record on file.
DurableInv ==
    (mir # None /\ mir.durable) =>
       /\ disk.tomb # scope
       /\ (disk.rec # None /\ disk.rec.scope = scope) => disk.rec.hist = mir.hist

\* A save of the current scope writes the mirror's history; only an earlier
\* scope's record on file is saved again for that scope.
SaveInv ==
    job # None =>
       /\ job.rec.scope = scope => mir # None /\ ~mir.durable /\ job.rec.hist = mir.hist
       /\ job.rec.scope # scope => /\ job.emit = {} /\ job.without = None
                                   /\ disk.rec # None /\ disk.rec.scope # scope
       /\ \A t \in job.emit : /\ t.filed /\ Here(t) /\ t.of[3] > 0
                              /\ t.of[3] \in job.rec.hist[t.of[2]]

KeyInv == GivenInv /\ DurableInv /\ SaveInv /\ \A t \in emitted : FactHolds(t)

LEMMA FactShape ==
    ASSUME NEW t \in Facts
    PROVE  t.of[1] \in Scopes /\ t.of[2] \in Keys /\ t.of[3] \in Nat /\ t.filed \in BOOLEAN
BY DEF Facts

\* Steps that leave records, mirrors and histories alone.
LEMMA KeysSame ==
    ASSUME KeyInv, given' \subseteq given, emitted' \subseteq emitted,
           UNCHANGED <<mir, ret, scope, disk.rec, disk.tomb, job>>, used'.scopes = used.scopes
    PROVE  KeyInv'
<1>1. GivenInv' /\ DurableInv' /\ SaveInv'
  BY DEF KeyInv, GivenInv, DurableInv, SaveInv, Here
<1>2. \A t \in emitted' : FactHolds(t)'
  BY DEF KeyInv, FactHolds, Here, InMirror, Carries, OnFile
<1> QED
  BY <1>1, <1>2 DEF KeyInv

\* Steps after which nothing is known and nothing has to be.
LEMMA KeysGone ==
    ASSUME KeyInv, given' \subseteq given, emitted' = {}, mir' = None, job' = None,
           used'.scopes = used.scopes
    PROVE  KeyInv'
BY DEF KeyInv, GivenInv, DurableInv, SaveInv

\* What retireFactKeysLocked makes of the mirror m and of the record saved: no
\* key of m is lost.
LEMMA SavedKeys ==
    ASSUME TypeOK, NEW r \in Records, r.scope = scope, NEW m \in Mirrors, NEW a \in Owed,
           NEW b \in Owed, NEW w \in Keys \union {None}, StartSave(r, m, a, b, w)
    PROVE  /\ job' \in Jobs /\ job'.rec.scope = scope /\ job'.emit = {}
           /\ mir' \in Mirrors /\ mir'.durable = FALSE /\ job'.rec.hist = mir'.hist
           /\ \A k \in Keys : m.hist[k] \subseteq mir'.hist[k]
           /\ \A k \in Keys, f \in Nat \ {0} : (f = m.keys[k] \/ f \in m.hist[k]) =>
                 /\ f = mir'.keys[k] \/ f \in mir'.hist[k]
                 /\ OnFile(job'.rec, k, f)
<1> DEFINE hist == [k \in Keys |-> m.hist[k] \union Retire(m.keys, r, k)]
           rec  == [r EXCEPT !.hist = hist]
<1>1. hist \in Histories
  <2>1. \A k \in Keys : Retire(m.keys, r, k) \subseteq Nat /\ m.hist[k] \subseteq Nat
    BY MirrorShape DEF Retire, Histories
  <2> QED
    BY <2>1 DEF Histories
<1>2. rec \in Records /\ rec.scope = scope /\ rec.ents = r.ents /\ rec.hist = hist
  BY <1>1, RecordShape
<1>3. /\ job' = [rec |-> rec, onOK |-> a, onFail |-> b, without |-> w, emit |-> {}]
      /\ mir' = [MirrorOf(rec) EXCEPT !.durable = FALSE]
  BY DEF StartSave
<1>4. \A k \in Keys : hist[k] = m.hist[k] \union Retire(m.keys, r, k)
  OBVIOUS
<1> HIDE DEF hist, rec
<1>5. job' \in Jobs /\ job'.rec = rec /\ job'.emit = {}
  <2>1. {} \in SUBSET Facts
    OBVIOUS
  <2> QED
    BY <1>2, <1>3, <2>1, NewJob
<1>6. /\ MirrorOf(rec) \in Mirrors /\ MirrorOf(rec).hist = hist
      /\ \A k \in Keys : MirrorOf(rec).keys[k] = IF rec.ents[k] = None THEN 0 ELSE rec.ents[k].id
  BY <1>2, MirrorOfShape DEF MirrorOf
<1>7. /\ mir' \in Mirrors /\ mir'.durable = FALSE /\ mir'.hist = hist
      /\ mir'.keys = MirrorOf(rec).keys
  BY <1>3, <1>6 DEF Mirrors
<1>8. ASSUME NEW k \in Keys, NEW f \in Nat \ {0}, f = m.keys[k] \/ f \in m.hist[k]
      PROVE  /\ f = mir'.keys[k] \/ f \in mir'.hist[k]
             /\ OnFile(job'.rec, k, f)
  <2>1. f \in hist[k] \/ (rec.ents[k] # None /\ rec.ents[k].id = f)
    BY <1>2, <1>4, <1>8 DEF Retire
  <2> QED
    BY <1>2, <1>5, <1>6, <1>7, <2>1 DEF OnFile
<1> QED
  BY <1>2, <1>4, <1>5, <1>7, <1>8

\* A save of the current scope begins, on a disk that is as it was or holds
\* what the failed save left.
LEMMA KeysSaved ==
    ASSUME TypeOK, KeyInv, NEW r \in Records, r.scope = scope, NEW a \in Owed, NEW b \in Owed,
           NEW w \in Keys \union {None}, StartSave(r, Mirror, a, b, w),
           GivenInv', UNCHANGED <<ret, scope, emitted>>, used'.scopes = used.scopes,
           disk'.tomb \in {disk.tomb, None},
           \/ disk'.rec = disk.rec
           \/ job # None /\ job.rec.scope = scope /\ disk'.rec = job.rec
    PROVE  KeyInv'
<1>1. /\ job' \in Jobs /\ job'.rec.scope = scope /\ job'.emit = {}
      /\ mir' \in Mirrors /\ mir'.durable = FALSE /\ job'.rec.hist = mir'.hist
      /\ \A k \in Keys : Mirror.hist[k] \subseteq mir'.hist[k]
      /\ \A k \in Keys, f \in Nat \ {0} : (f = Mirror.keys[k] \/ f \in Mirror.hist[k]) =>
            /\ f = mir'.keys[k] \/ f \in mir'.hist[k]
            /\ OnFile(job'.rec, k, f)
  BY SavedKeys, CurrentMirror
<1>2. /\ job' # None /\ mir' # None /\ None \notin Scopes /\ scope \in Scopes
      /\ job'.rec # None
  BY <1>1, NoneIsApart, JobShape DEF TypeOK
<1>3. DurableInv' /\ SaveInv'
  BY <1>1, <1>2 DEF DurableInv, SaveInv
<1>4. ASSUME NEW t \in emitted
      PROVE  FactHolds(t)'
  <2>1. /\ t.of[2] \in Keys /\ t.of[3] \in Nat \ {0}
    BY FactShape DEF TypeOK, KeyInv, FactHolds
  <2>2. FactHolds(t)
    BY DEF KeyInv
  <2>3. CASE ~Here(t)
    BY <2>2, <2>3 DEF FactHolds, Here
  <2>4. CASE Here(t)
    <3>1. Mirror = mir /\ mir # None /\ InMirror(t)
      BY <2>2, <2>4 DEF FactHolds, Mirror
    <3>2. /\ t.of[3] = mir'.keys[t.of[2]] \/ t.of[3] \in mir'.hist[t.of[2]]
          /\ OnFile(job'.rec, t.of[2], t.of[3])
      BY <1>1, <2>1, <3>1 DEF InMirror
    <3>3. t.of[3] \in mir.hist[t.of[2]] => t.of[3] \in mir'.hist[t.of[2]]
      BY <1>1, <2>1, <3>1
    <3>4. (disk'.rec # None /\ disk'.rec.scope = scope /\ t.of[3] \in disk'.rec.hist[t.of[2]]) =>
             t.of[3] \in mir.hist[t.of[2]]
      BY <2>2, <2>4 DEF FactHolds, KeyInv, SaveInv
    <3>5. t.filed => Carries(disk'.rec, t)
      BY <2>2, <2>4 DEF FactHolds
    <3>6. disk'.tomb # scope /\ Here(t)'
      BY <1>2, <2>2, <2>4 DEF FactHolds, Here
    <3>7. t.filed => Carries(disk.rec, t)'
      BY <3>5 DEF Carries, OnFile
    <3>8. InMirror(t)' /\ Carries(job.rec, t)'
      BY <1>1, <1>2, <3>2 DEF InMirror, Carries, OnFile
    <3> QED
      BY <1>2, <2>2, <3>3, <3>4, <3>6, <3>7, <3>8 DEF FactHolds, Here
  <2> QED
    BY <2>3, <2>4
<1> QED
  BY <1>3, <1>4 DEF KeyInv

\* A save of the record of the current scope begins.
Saves ==
    \E rec \in Records, a \in Owed, b \in Owed, w \in Keys \union {None} :
       rec.scope = scope /\ StartSave(rec, Mirror, a, b, w)

LEMMA EntrySaves ==
    ASSUME TypeOK, NEW k \in Keys, NEW m \in Held, m[k] \in Entries, NEW p \in Owed,
           NEW r \in Records, r.scope = scope, SyncEntry(k, m, p, r)
    PROVE  Saves
<1> DEFINE x == <<scope, k>>
           r1 == [r EXCEPT !.ents[k] = m[k]]
           owe == [asOf |-> m[k].at, drop |-> FALSE, capture |-> Captures(p, x)]
           ok == [Folded(p, scope, k) EXCEPT ![x] = IF Captures(p, x) THEN @ ELSE None]
           fail == [p EXCEPT ![x] = owe]
           w == IF r.ents[k] = None THEN None ELSE k
<1>1. scope \in Scopes /\ m[k].at \in Nat /\ Captures(p, x) \in BOOLEAN
  BY EntryShape, OwedShape, NoneIsApart DEF TypeOK, Captures
<1>2. r1 \in Records /\ r1.scope = scope
  <2>1. r1 = [r EXCEPT !.ents = [r.ents EXCEPT ![k] = m[k]]]
    BY DEF Records
  <2> HIDE DEF r1
  <2>2. [r.ents EXCEPT ![k] = m[k]] \in Held
    BY RecordShape, HeldShape
  <2> QED
    BY <2>1, <2>2, RecordShape
<1>3. owe \in Intents
  BY <1>1, NewIntent
<1>4. fail \in Owed
  BY <1>1, <1>3, OwedShape
<1>5. ok \in Owed
  <2>1. Folded(p, scope, k) \in Owed
    BY <1>1, FoldedShape
  <2> QED
    BY <1>1, <2>1, OwedSettled
<1>6. StartSave(Fold(r1, p, m, k), Mirror, ok, fail, w)
  BY DEF SyncEntry
<1>7. w \in Keys \union {None}
  OBVIOUS
<1> HIDE DEF x, r1, owe, ok, fail, w
<1>8. Fold(r1, p, m, k) \in Records /\ Fold(r1, p, m, k).scope = scope
  BY <1>2, FoldShape
<1> QED
  BY <1>4, <1>5, <1>6, <1>7, <1>8 DEF Saves

LEMMA DropSaves ==
    ASSUME TypeOK, NEW k \in Keys, NEW a \in Nat, NEW m \in Held, NEW p \in Owed,
           NEW r \in Records, r.scope = scope, SyncDrop(k, a, m, p, r)
    PROVE  Saves \/ UNCHANGED <<job, mir>>
<1> DEFINE x == <<scope, k>>
           settled == [p EXCEPT ![x] = IF Captures(p, x) THEN @ ELSE None]
           r1 == [r EXCEPT !.ents[k] = None]
           owe == [asOf |-> DropStamp(a, r.ents[k]), drop |-> TRUE, capture |-> Captures(p, x)]
           ok == [Folded(p, scope, k) EXCEPT ![x] = IF Captures(p, x) THEN @ ELSE None]
           fail == [p EXCEPT ![x] = owe]
<1>1. scope \in Scopes /\ Captures(p, x) \in BOOLEAN /\ r.ents[k] \in Entries \union {None}
  BY IntentShape, OwedShape, RecordShape, HeldShape DEF TypeOK, Captures
<1>2. settled \in Owed /\ None \in Keys \union {None}
  BY <1>1, OwedSettled
<1>3. CASE StartSave(Fold(r1, p, m, k), Mirror, ok, fail, None)
  <2>1. r1 \in Records /\ r1.scope = scope
    <3>1. r1 = [r EXCEPT !.ents = [r.ents EXCEPT ![k] = None]]
      BY DEF Records
    <3> HIDE DEF r1
    <3>2. [r.ents EXCEPT ![k] = None] \in Held
      BY RecordShape, HeldShape
    <3> QED
      BY <3>1, <3>2, RecordShape
  <2>2. owe \in Intents
    BY <1>1, DropStampAbove, NewIntent
  <2>3. fail \in Owed
    BY <1>1, <2>2, OwedShape
  <2>4. ok \in Owed
    <3>1. Folded(p, scope, k) \in Owed
      BY <1>1, FoldedShape
    <3> QED
      BY <1>1, <3>1, OwedSettled
  <2> HIDE DEF x, r1, owe, ok, fail
  <2>5. Fold(r1, p, m, k) \in Records /\ Fold(r1, p, m, k).scope = scope
    BY <2>1, FoldShape
  <2> QED
    BY <1>2, <1>3, <2>3, <2>4, <2>5 DEF Saves
<1>4. CASE StartSave(r, Mirror, settled, settled, None)
  <2> HIDE DEF settled
  <2> QED
    BY <1>2, <1>4 DEF Saves
<1> QED
  BY <1>3, <1>4 DEF SyncDrop

\* A step that begins such a save, or none, and touches nothing else of a fact.
LEMMA KeysOfSave ==
    ASSUME TypeOK, KeyInv, Saves \/ UNCHANGED <<job, mir>>, GivenInv',
           UNCHANGED <<ret, scope, disk, emitted>>, used'.scopes = used.scopes
    PROVE  KeyInv'
<1>1. CASE Saves
  <2>1. PICK rec \in Records, a \in Owed, b \in Owed, w \in Keys \union {None} :
           rec.scope = scope /\ StartSave(rec, Mirror, a, b, w)
    BY <1>1 DEF Saves
  <2>2. disk'.tomb \in {disk.tomb, None} /\ disk'.rec = disk.rec
    OBVIOUS
  <2> QED
    BY <2>1, <2>2, KeysSaved
<1>2. CASE UNCHANGED <<job, mir>>
  <2>1. DurableInv' /\ SaveInv'
    BY <1>2 DEF KeyInv, DurableInv, SaveInv, Here
  <2>2. \A t \in emitted' : FactHolds(t)'
    BY <1>2 DEF KeyInv, FactHolds, Here, InMirror, Carries, OnFile
  <2> QED
    BY <2>1, <2>2 DEF KeyInv
<1> QED
  BY <1>1, <1>2

LEMMA InstallKeys ==
    ASSUME TypeOK, StoreInv, KeyInv, NEW k \in Keys, NEW now \in Clocks, NEW hid \in BOOLEAN,
           Install(k, now, hid)
    PROVE  KeyInv'
<1> DEFINE r == RecordFor(scope)
           marked == [Lifted EXCEPT ![k] = [id |-> 0]]
           owed == Demoted(pend, marked)
           entry == [id |-> used.ids + 1, hid |-> hid,
                     at |-> Raised(now, r.ents[k], owed[<<scope, k>>])]
           held == [Lifted EXCEPT ![k] = entry]
<1>1. /\ used.ids < MaxInstalls /\ used' = [used EXCEPT !.ids = used.ids + 1]
      /\ SyncEntry(k, held, owed, r)
      /\ given' = given \union {<<scope, k, used.ids + 1>>}
      /\ UNCHANGED <<ret, scope, disk, emitted>>
  BY DEF Install, TypeOK, Counts
<1>2. /\ used \in Counts /\ used.ids \in Nat /\ scope \in Scopes /\ pend \in Owed
  BY CountShape DEF TypeOK
<1>3. /\ r \in Records /\ r.scope = scope /\ r.ents[k] \in Entries \union {None}
  BY <1>2, RecordForShape, RecordShape, HeldShape
<1>4. owed \in Owed
  BY <1>2, DemotedAnswers
<1>5. entry \in Entries
  <2>1. owed[<<scope, k>>] \in Intents \union {None} /\ now \in Nat
    BY <1>2, <1>4, OwedShape, Bounds
  <2>2. Raised(now, r.ents[k], owed[<<scope, k>>]) \in Nat
    BY <1>3, <2>1, RaisedAbove
  <2>3. used.ids + 1 \in 1..MaxInstalls
    BY <1>1, <1>2, Bounds
  <2> HIDE DEF r, owed
  <2> QED
    BY <2>2, <2>3 DEF Entries
<1>6. held \in Held /\ held[k] \in Entries
  <2> HIDE DEF entry
  <2>1. Lifted \in Held
    BY LiftedShape
  <2> QED
    BY <1>5, <2>1 DEF Held
<1> HIDE DEF r, marked, owed, entry, held
<1>7. Saves
  BY <1>1, <1>3, <1>4, <1>6, EntrySaves
<1>8. used'.scopes = used.scopes
  BY <1>1, <1>2 DEF Counts
<1>9. GivenInv'
  <2>1. scope <= used.scopes
    BY DEF StoreInv, NumberInv
  <2>2. <<scope, k, used.ids + 1>>[1] = scope /\ <<scope, k, used.ids + 1>>[3] = used.ids + 1
    OBVIOUS
  <2>3. used.ids + 1 > 0
    BY <1>2
  <2> QED
    BY <1>1, <1>8, <2>1, <2>2, <2>3 DEF KeyInv, GivenInv
<1> QED
  BY <1>1, <1>7, <1>8, <1>9, KeysOfSave

LEMMA DropKeys ==
    ASSUME TypeOK, StoreInv, KeyInv, NEW k \in Keys, NEW now \in Clocks, NEW how,
           NEW lifts \in BOOLEAN, Drop(k, now, how, lifts)
    PROVE  KeyInv'
<1> DEFINE m == IF lifts THEN Lifted ELSE mem
           left == [m EXCEPT ![k] = None]
           x == <<scope, k>>
           asOf == DropStamp(now, m[k])
           aged == [pend EXCEPT ![x] = Released(@)]
           r == RecordFor(scope)
<1>1. /\ Turn /\ UNCHANGED <<ret, scope, disk, given, emitted>>
      /\ \/ UNCHANGED <<job, mir>>
         \/ SyncDrop(k, asOf, left, pend, r)
         \/ SyncDrop(k, asOf, left, aged, r)
  BY DEF Drop
<1>2. scope \in Scopes /\ pend \in Owed /\ now \in Nat /\ r \in Records /\ r.scope = scope
  BY Bounds, RecordForShape DEF TypeOK
<1>3. m \in Held /\ m[k] \in Entries \union {None} /\ left \in Held
  <2>1. m \in Held
    BY LiftedShape DEF TypeOK
  <2> HIDE DEF m
  <2> QED
    BY <2>1, HeldShape
<1>4. asOf \in Nat
  BY <1>2, <1>3, DropStampAbove
<1>5. aged \in Owed
  <2>1. Released(pend[x]) \in Intents \union {None}
    BY <1>2, OwedShape, ReleasedShape
  <2>2. aged = [pend EXCEPT ![<<scope, k>>] = Released(pend[x])]
    OBVIOUS
  <2> HIDE DEF aged
  <2> QED
    BY <1>2, <2>1, <2>2, OwedShape
<1> HIDE DEF m, left, x, asOf, aged, r
<1>6. Saves \/ UNCHANGED <<job, mir>>
  BY <1>1, <1>2, <1>3, <1>4, <1>5, DropSaves
<1>7. used'.scopes = used.scopes
  BY <1>1, TurnCounts
<1>8. GivenInv'
  BY <1>1, <1>7 DEF KeyInv, GivenInv
<1> QED
  BY <1>1, <1>6, <1>7, <1>8, KeysOfSave

LEMMA FoldKeys ==
    ASSUME TypeOK, KeyInv, RetryFold
    PROVE  KeyInv'
<1> DEFINE r == RecordFor(scope)
           rec == Fold(r, pend, mem, None)
           ok == Folded(pend, scope, None)
<1>1. /\ UNCHANGED <<ret, scope, disk, used, given, emitted>>
      /\ StartSave(rec, Mirror, ok, pend, None) \/ UNCHANGED <<job, mir>>
  BY DEF RetryFold
<1>2. /\ r \in Records /\ r.scope = scope /\ scope \in Scopes /\ pend \in Owed /\ mem \in Held
  BY RecordForShape DEF TypeOK
<1> HIDE DEF r
<1>3. rec \in Records /\ rec.scope = scope
  BY <1>2, FoldShape
<1>4. ok \in Owed /\ None \in Keys \union {None}
  BY <1>2, FoldedShape
<1> HIDE DEF rec, ok
<1>5. Saves \/ UNCHANGED <<job, mir>>
  BY <1>1, <1>2, <1>3, <1>4 DEF Saves
<1>6. GivenInv'
  BY <1>1 DEF KeyInv, GivenInv
<1> QED
  BY <1>1, <1>5, <1>6, KeysOfSave

\* A fact of the current scope whose key is filed is on the record of this
\* scope that durableRecordForLocked returns.
LEMMA FiledRecord ==
    ASSUME KeyInv, NEW t \in emitted, Here(t), t.filed
    PROVE  RecordFor(scope) = disk.rec /\ Carries(RecordFor(scope), t)
BY DEF KeyInv, FactHolds, Carries, RecordFor

\* An empty record has no key.
LEMMA OnFileRecord ==
    ASSUME TypeOK, NEW k \in Keys, NEW f \in Nat \ {0},
           OnFile(RecordFor(scope), k, f) \/ Witnessed(MirrorOf(RecordFor(scope)), k, f)
    PROVE  /\ disk.rec # None /\ disk.rec.scope = scope /\ disk.tomb # scope
           /\ RecordFor(scope) = disk.rec
<1>1. CASE disk.rec # None /\ disk.rec.scope = scope /\ disk.tomb # scope
  BY <1>1 DEF RecordFor
<1>2. CASE ~(disk.rec # None /\ disk.rec.scope = scope /\ disk.tomb # scope)
  <2>1. RecordFor(scope) = [scope |-> scope, ents |-> Nothing, hist |-> [j \in Keys |-> {}]]
    BY <1>2 DEF RecordFor
  <2>2. RecordFor(scope).ents[k] = None /\ RecordFor(scope).hist[k] = {}
    BY <2>1 DEF Nothing
  <2>3. MirrorOf(RecordFor(scope)).keys[k] = 0 /\ MirrorOf(RecordFor(scope)).hist[k] = {}
    BY <2>2 DEF MirrorOf
  <2> QED
    BY <2>2, <2>3 DEF OnFile, Witnessed
<1> QED
  BY <1>1, <1>2

\* A save of the current scope that changes the history alone: what it starts
\* from holds every filed key, and the history keeps what the mirror had of them.
LEMMA HistoryCarries ==
    ASSUME TypeOK, KeyInv, NEW h \in Histories, NEW t \in emitted, Here(t), t.filed,
           t.of[3] \in mir.hist[t.of[2]] => t.of[3] \in h[t.of[2]]
    PROVE  /\ [RecordFor(scope) EXCEPT !.hist = h].scope = scope
           /\ OnFile([RecordFor(scope) EXCEPT !.hist = h], t.of[2], t.of[3])
<1>1. /\ RecordFor(scope) = disk.rec /\ Carries(disk.rec, t) /\ RecordFor(scope) \in Records
  BY FiledRecord, RecordForShape DEF TypeOK
<1>2. /\ [disk.rec EXCEPT !.hist = h].scope = disk.rec.scope
      /\ [disk.rec EXCEPT !.hist = h].ents = disk.rec.ents
      /\ [disk.rec EXCEPT !.hist = h].hist = h
  BY <1>1, RecordShape
<1>3. FactHolds(t)
  BY DEF KeyInv
<1>4. t.of[3] \in disk.rec.hist[t.of[2]] => t.of[3] \in h[t.of[2]]
  BY <1>1, <1>3 DEF FactHolds, Carries
<1> QED
  BY <1>1, <1>2, <1>4 DEF Carries, OnFile

LEMMA RemintKeys ==
    ASSUME TypeOK, StoreInv, KeyInv, NEW filed \in BOOLEAN, NEW landed \in BOOLEAN, NEW marked \in BOOLEAN,
           Remint(filed, landed, marked)
    PROVE  KeyInv'
<1> DEFINE n == used.scopes + 1
           retired == [k \in Keys |-> ret[scope][k] \union mir.hist[k] \union ({mir.keys[k]} \ {0})]
<1>1. /\ job = None /\ used \in Counts /\ scope \in Scopes /\ used.scopes \in Nat
      /\ ret \in [Scopes -> Histories] /\ scope <= used.scopes
  BY CountShape DEF TypeOK, Remint, Idle, StoreInv, NumberInv
<1>2. /\ mir' = None /\ scope' = n /\ job' = None
      /\ UNCHANGED <<given, emitted>> /\ used'.scopes = n
  BY <1>1 DEF Remint, Counts
<1>3. ret' = IF mir = None THEN ret ELSE [ret EXCEPT ![scope] = retired]
  BY <1>1 DEF Remint
<1>4. GivenInv' /\ DurableInv' /\ SaveInv'
  <2>1. ASSUME NEW t \in given
        PROVE  t[1] <= n /\ t[3] > 0
    <3>1. t[1] <= used.scopes /\ t[3] > 0 /\ t[1] \in Nat
      BY ScopeNumbers DEF KeyInv, GivenInv, TypeOK
    <3> QED
      BY <1>1, <3>1
  <2> QED
    BY <1>2, <2>1 DEF GivenInv, DurableInv, SaveInv
<1>5. ASSUME NEW t \in emitted
      PROVE  FactHolds(t)'
  <2>1. /\ t.of[1] \in Scopes /\ t.of[2] \in Keys /\ t.of[3] \in Nat /\ FactHolds(t)
    BY FactShape DEF TypeOK, KeyInv
  <2>2. t.of[1] <= used.scopes /\ t.of[3] > 0 /\ t.of[1] \in Nat
    BY <2>1, ScopeNumbers DEF FactHolds
  <2>3. t.of[1] <= n /\ t.of[1] # n
    BY <1>1, <2>2
  <2>4. CASE Here(t)
    <3>1. mir # None /\ InMirror(t)
      BY <2>1, <2>4 DEF FactHolds
    <3>2. t.of[3] \in retired[t.of[2]]
      BY <2>1, <2>2, <3>1 DEF InMirror
    <3> HIDE DEF retired
    <3>3. t.of[3] \in ret'[t.of[1]][t.of[2]]
      BY <1>1, <1>3, <2>4, <3>1, <3>2 DEF Here
    <3> QED
      BY <1>2, <2>2, <2>3, <3>3 DEF FactHolds, Here
  <2>5. CASE ~Here(t)
    <3>1. t.of[3] \in ret[t.of[1]][t.of[2]]
      BY <2>1, <2>5 DEF FactHolds
    <3> HIDE DEF retired
    <3>2. ret'[t.of[1]] = ret[t.of[1]]
      BY <1>1, <1>3, <2>1, <2>5 DEF Here
    <3> QED
      BY <1>2, <2>2, <2>3, <3>1, <3>2 DEF FactHolds, Here
  <2> QED
    BY <2>4, <2>5
<1> QED
  BY <1>2, <1>4, <1>5 DEF KeyInv

LEMMA PruneKeys ==
    ASSUME TypeOK, StoreInv, KeyInv, NEW owed, PruneFactKeys(owed)
    PROVE  KeyInv'
<1> DEFINE live == {t.of : t \in emitted} \union owed
           r == RecordFor(scope)
           h == Prune(mir.hist, live)
<1>1. /\ job = None /\ UNCHANGED <<scope, disk, used, given, emitted>>
      /\ ret' = [s \in Scopes |-> Prune(ret[s], live)]
      /\ \/ /\ mir # None /\ mir' = [mir EXCEPT !.hist = h, !.durable = FALSE]
            /\ job' = [rec |-> [r EXCEPT !.hist = h], onOK |-> pend, onFail |-> pend,
                       without |-> None, emit |-> {}]
         \/ UNCHANGED <<mir, job>>
  BY DEF PruneFactKeys, Idle
<1>2. /\ r \in Records /\ r.scope = scope /\ pend \in Owed /\ mir \in Mirrors \union {None}
      /\ ret \in [Scopes -> Histories]
  BY RecordForShape DEF TypeOK
<1>3. \A t \in emitted : t.of \in live
  OBVIOUS
<1> HIDE DEF live
<1>4. \A t \in emitted, g \in Histories :
         t.of[3] \in g[t.of[2]] => t.of[3] \in Prune(g, live)[t.of[2]]
  BY <1>3, FactShape DEF TypeOK, Prune
<1>5. \A t \in emitted : t.of[3] \in ret[t.of[1]][t.of[2]] => t.of[3] \in ret'[t.of[1]][t.of[2]]
  <2> TAKE t \in emitted
  <2>1. t.of[1] \in Scopes /\ ret[t.of[1]] \in Histories
    BY <1>2, FactShape DEF TypeOK
  <2> QED
    BY <1>1, <1>4, <2>1
<1>6. GivenInv'
  BY <1>1 DEF KeyInv, GivenInv
<1>7. CASE UNCHANGED <<mir, job>>
  <2>1. DurableInv' /\ SaveInv'
    BY <1>1, <1>7 DEF KeyInv, DurableInv, SaveInv, Here
  <2>2. \A t \in emitted' : FactHolds(t)'
    BY <1>1, <1>5, <1>7 DEF KeyInv, FactHolds, Here, InMirror, Carries, OnFile
  <2> QED
    BY <1>6, <2>1, <2>2 DEF KeyInv
<1>8. CASE /\ mir # None /\ mir' = [mir EXCEPT !.hist = h, !.durable = FALSE]
           /\ job' = [rec |-> [r EXCEPT !.hist = h], onOK |-> pend, onFail |-> pend,
                      without |-> None, emit |-> {}]
  <2>1. mir \in Mirrors /\ mir.hist \in Histories /\ h \in Histories
    BY <1>2, <1>8, MirrorShape, PrunedShape
  <2>2. \A t \in emitted : t.of[3] \in mir.hist[t.of[2]] => t.of[3] \in h[t.of[2]]
    BY <1>4, <2>1
  <2> HIDE DEF h
  <2>3. /\ [r EXCEPT !.hist = h] \in Records /\ [r EXCEPT !.hist = h].scope = scope
        /\ [r EXCEPT !.hist = h].hist = h
    BY <1>2, <2>1, RecordShape
  <2>4. /\ mir' \in Mirrors /\ mir'.keys = mir.keys /\ mir'.hist = h /\ mir'.durable = FALSE
        /\ mir' # None
    BY <1>8, <2>1, NoneIsApart DEF Mirrors
  <2>5. job'.rec = [r EXCEPT !.hist = h] /\ job'.emit = {}
    BY <1>8
  <2>6. DurableInv' /\ SaveInv'
    BY <1>1, <2>3, <2>4, <2>5 DEF DurableInv, SaveInv
  <2>7. ASSUME NEW t \in emitted
        PROVE  FactHolds(t)'
    <3>1. FactHolds(t)
      BY DEF KeyInv
    <3>2. CASE ~Here(t)
      BY <1>1, <1>5, <3>1, <3>2 DEF FactHolds, Here
    <3>3. CASE Here(t)
      <4>1. InMirror(t)'
        BY <2>2, <2>4, <3>1, <3>3 DEF FactHolds, InMirror
      <4>2. t.filed => [r EXCEPT !.hist = h].scope = scope /\ OnFile([r EXCEPT !.hist = h], t.of[2], t.of[3])
        BY <2>1, <2>2, <3>3, HistoryCarries
      <4>3. t.filed => job'.rec # None /\ job'.rec.scope = scope /\ OnFile(job'.rec, t.of[2], t.of[3])
        BY <2>3, <2>5, <4>2, NoneIsApart
      <4>4. t.filed => Carries(job.rec, t)'
        BY <1>1, <4>3 DEF Carries, OnFile
      <4>5. t.filed => Carries(disk.rec, t)'
        BY <1>1, <3>1, <3>3 DEF FactHolds, Carries, OnFile
      <4> QED
        BY <1>1, <2>2, <2>4, <3>1, <3>3, <4>1, <4>4, <4>5 DEF FactHolds, Here
    <3> QED
      BY <3>2, <3>3
  <2> QED
    BY <1>1, <1>6, <2>6, <2>7 DEF KeyInv
<1> QED
  BY <1>1, <1>7, <1>8

LEMMA RecordKeys ==
    ASSUME TypeOK, StoreInv, KeyInv, NEW u \in given, RecordFactKey(u[1], u[2], u[3])
    PROVE  KeyInv'
<1> DEFINE s == u[1]
           k == u[2]
           f == u[3]
           m == Mirror
           r == RecordFor(scope)
           h == [m.hist EXCEPT ![k] = m.hist[k] \union {f}]
           fact(b) == [of |-> <<s, k, f>>, filed |-> b]
           grown == [ret[s] EXCEPT ![k] = ret[s][k] \union {f}]
           rec == [r EXCEPT !.hist = h]
           wide == [m EXCEPT !.hist = h, !.durable = m.durable /\ h = m.hist]
<1>1. s \in Scopes /\ k \in Keys /\ f \in Nat \ {0} /\ s <= used.scopes
  BY DEF TypeOK, KeyInv, GivenInv
<1>2. /\ m \in Mirrors /\ m.hist \in Histories /\ m.keys \in [Keys -> Nat] /\ m.durable \in BOOLEAN
      /\ r \in Records /\ r.scope = scope /\ pend \in Owed
      /\ ret \in [Scopes -> Histories] /\ scope \in Scopes
  BY CurrentMirror, MirrorShape, RecordForShape DEF TypeOK
<1>3. job = None /\ UNCHANGED <<scope, disk, used, given>>
  BY DEF RecordFactKey, Idle
<1>4. mir # None => m = mir
  BY DEF Mirror
<1>5. mir = None => m = MirrorOf(r)
  BY DEF Mirror
<1>6. OnFile(r, k, f) \/ Witnessed(MirrorOf(r), k, f) =>
         disk.rec # None /\ disk.rec.scope = scope /\ disk.tomb # scope /\ r = disk.rec
  BY <1>1, OnFileRecord
<1>7. MirrorOf(r).hist = r.hist
  BY DEF MirrorOf
<1> HIDE DEF s, k, f, m, r
<1>8. \/ /\ s # scope /\ ret' = [ret EXCEPT ![s] = grown]
         /\ emitted' = emitted \union {fact(FALSE)} /\ UNCHANGED <<mir, job>>
      \/ /\ s = scope /\ Witnessed(m, k, f)
         /\ mir' = m /\ emitted' = emitted \union {fact(OnFile(r, k, f))} /\ UNCHANGED <<ret, job>>
      \/ /\ s = scope /\ ~Witnessed(m, k, f) /\ OnFile(r, k, f)
         /\ mir' = wide /\ emitted' = emitted \union {fact(TRUE)} /\ UNCHANGED <<ret, job>>
      \/ /\ s = scope /\ ~Witnessed(m, k, f)
         /\ mir' = wide /\ UNCHANGED <<ret, emitted>>
         /\ job' = [rec |-> rec, onOK |-> pend, onFail |-> pend, without |-> None,
                    emit |-> {fact(TRUE)}]
  BY <1>1, <1>2 DEF RecordFactKey, Built, s, k, f, m, r
<1>9. \A b : fact(b).of[1] = s /\ fact(b).of[2] = k /\ fact(b).of[3] = f /\ fact(b).filed = b
  OBVIOUS
<1>19. fact(TRUE).filed
  OBVIOUS
<1> HIDE DEF fact
<1>10. /\ h \in Histories /\ f \in h[k]
       /\ \A j \in Keys : m.hist[j] \subseteq h[j]
  BY <1>1, <1>2 DEF Histories
<1>11. GivenInv'
  BY <1>3 DEF KeyInv, GivenInv
<1>12. \A t \in emitted : FactHolds(t) /\ t.of[1] \in Scopes /\ t.of[2] \in Keys
  BY FactShape DEF TypeOK, KeyInv
<1>13. OnFile(r, k, f) \in BOOLEAN
  BY DEF OnFile
<1>14. CASE /\ s # scope /\ ret' = [ret EXCEPT ![s] = grown]
            /\ emitted' = emitted \union {fact(FALSE)} /\ UNCHANGED <<mir, job>>
  <2>1. DurableInv' /\ SaveInv'
    BY <1>3, <1>14 DEF KeyInv, DurableInv, SaveInv, Here
  <2>2. /\ f \in ret'[s][k]
        /\ \A z \in Scopes, j \in Keys : ret[z][j] \subseteq ret'[z][j]
    BY <1>1, <1>2, <1>14 DEF Histories
  <2>3. \A t \in emitted : FactHolds(t)'
    BY <1>3, <1>12, <1>14, <2>2 DEF FactHolds, Here, InMirror, Carries, OnFile
  <2>4. ASSUME NEW t, t.of[1] = s, t.of[2] = k, t.of[3] = f
        PROVE  FactHolds(t)'
    <3>1. ~Here(t)' /\ t.of[1] <= used'.scopes /\ t.of[3] > 0
      BY <1>1, <1>3, <1>14, <2>4 DEF Here
    <3> QED
      BY <2>2, <2>4, <3>1 DEF FactHolds
  <2>5. \A t \in emitted' : FactHolds(t)'
    BY <1>9, <1>14, <2>3, <2>4
  <2> QED
    BY <1>11, <2>1, <2>5 DEF KeyInv
<1>15. CASE /\ s = scope /\ Witnessed(m, k, f)
            /\ mir' = m /\ emitted' = emitted \union {fact(OnFile(r, k, f))}
            /\ UNCHANGED <<ret, job>>
  <2>1. /\ disk.tomb # scope
        /\ disk.rec # None /\ disk.rec.scope = scope => disk.rec.hist = m.hist
    <3>1. CASE mir = None
      BY <1>5, <1>6, <1>7, <1>15, <3>1
    <3>2. CASE mir # None
      BY <1>4, <1>15, <3>2 DEF KeyInv, DurableInv, Witnessed
    <3> QED
      BY <3>1, <3>2
  <2>2. mir' # None /\ job' = None
    BY <1>2, <1>3, <1>15, NoneIsApart
  <2>3. DurableInv' /\ SaveInv'
    BY <1>3, <1>15, <2>1, <2>2 DEF DurableInv, SaveInv
  <2>4. \A t \in emitted : Here(t) => mir' = mir
    BY <1>4, <1>12, <1>15 DEF FactHolds
  <2>5. \A t \in emitted : FactHolds(t)'
    BY <1>3, <1>12, <1>15, <2>2, <2>4 DEF FactHolds, Here, InMirror, Carries, OnFile
  <2>6. ASSUME NEW t, t.of[1] = s, t.of[2] = k, t.of[3] = f, t.filed => OnFile(r, k, f)
        PROVE  FactHolds(t)'
    <3>1. t.of[1] = s /\ t.of[2] = k /\ t.of[3] = f /\ (t.filed => OnFile(r, k, f))
      BY <2>6
    <3>2. Here(t)' /\ InMirror(t)'
      BY <1>3, <1>15, <3>1 DEF Here, InMirror, Witnessed
    <3>3. t.filed => disk'.rec # None /\ disk'.rec.scope = scope /\ OnFile(disk'.rec, k, f)
      BY <1>3, <1>6, <3>1
    <3>4. t.filed => Carries(disk.rec, t)'
      BY <1>3, <3>1, <3>3 DEF Carries, OnFile
    <3>5. (disk'.rec # None /\ disk'.rec.scope = scope' /\ t.of[3] \in disk'.rec.hist[t.of[2]]) =>
             t.of[3] \in mir'.hist[t.of[2]]
      BY <1>3, <1>15, <2>1
    <3>6. t.of[1] <= used'.scopes /\ t.of[3] > 0 /\ disk'.tomb # scope'
      BY <1>1, <1>3, <2>1, <3>1
    <3> QED
      BY <2>2, <3>2, <3>4, <3>5, <3>6 DEF FactHolds
  <2>7. fact(OnFile(r, k, f)).filed => OnFile(r, k, f)
    BY <1>9, <1>13
  <2>8. \A t \in emitted' : FactHolds(t)'
    BY <1>9, <1>15, <2>5, <2>6, <2>7
  <2> QED
    BY <1>11, <2>3, <2>8 DEF KeyInv
<1>16. ASSUME ~Witnessed(m, k, f), mir' = wide, s = scope, ret' = ret
       PROVE  /\ mir' # None /\ mir'.hist = h /\ mir'.keys = m.keys /\ mir'.durable = FALSE
              /\ DurableInv'
              /\ \A t \in emitted : Here(t) =>
                    /\ mir = m
                    /\ t.of[3] \in mir.hist[t.of[2]] => t.of[3] \in h[t.of[2]]
                    /\ InMirror(t)'
  <2>1. ~(m.durable /\ h = m.hist)
    BY <1>10, <1>16 DEF Witnessed
  <2> HIDE DEF h
  <2>2. /\ mir' \in Mirrors /\ mir'.hist = h /\ mir'.keys = m.keys /\ mir'.durable = FALSE
    BY <1>2, <1>10, <1>16, <2>1 DEF Mirrors
  <2>3. DurableInv' /\ mir' # None
    BY <2>2, NoneIsApart DEF DurableInv
  <2>4. \A t \in emitted : Here(t) =>
            /\ mir = m
            /\ t.of[3] \in mir.hist[t.of[2]] => t.of[3] \in h[t.of[2]]
            /\ InMirror(t)'
    BY <1>4, <1>10, <1>12, <2>2 DEF FactHolds, InMirror
  <2> QED
    BY <2>2, <2>3, <2>4
<1> HIDE DEF wide, rec
<1>17. CASE /\ s = scope /\ ~Witnessed(m, k, f) /\ OnFile(r, k, f)
            /\ mir' = wide /\ emitted' = emitted \union {fact(TRUE)} /\ UNCHANGED <<ret, job>>
  <2>1. disk.rec # None /\ disk.rec.scope = scope /\ disk.tomb # scope /\ r = disk.rec
    BY <1>6, <1>17
  <2>2. SaveInv' /\ job' = None
    BY <1>3, <1>17 DEF SaveInv
  <2>3. ASSUME NEW t \in emitted
        PROVE  FactHolds(t)'
    <3>1. FactHolds(t)
      BY <1>12
    <3>2. CASE ~Here(t)
      BY <1>3, <1>17, <3>1, <3>2 DEF FactHolds, Here
    <3>3. CASE Here(t)
      <4>1. t.filed => Carries(disk.rec, t)'
        BY <1>3, <3>1, <3>3 DEF FactHolds, Carries, OnFile
      <4> QED
        BY <1>3, <1>4, <1>16, <1>17, <2>2, <3>1, <3>3, <4>1 DEF FactHolds, Here
    <3> QED
      BY <3>2, <3>3
  <2>4. ASSUME NEW t, t.of[1] = s, t.of[2] = k, t.of[3] = f
        PROVE  FactHolds(t)'
    <3>1. t.of[1] = s /\ t.of[2] = k /\ t.of[3] = f
      BY <2>4
    <3>2. Here(t)' /\ InMirror(t)' /\ t.of[3] \in mir'.hist[t.of[2]]
      BY <1>3, <1>10, <1>16, <1>17, <3>1 DEF Here, InMirror
    <3>3. Carries(disk.rec, t)'
      BY <1>3, <1>17, <2>1, <3>1 DEF Carries, OnFile
    <3>4. t.of[1] <= used'.scopes /\ t.of[3] > 0 /\ disk'.tomb # scope'
      BY <1>1, <1>3, <2>1, <3>1
    <3> QED
      BY <1>16, <1>17, <2>2, <3>2, <3>3, <3>4 DEF FactHolds
  <2>5. \A t \in emitted' : FactHolds(t)'
    BY <1>9, <1>17, <2>3, <2>4
  <2> QED
    BY <1>11, <1>16, <1>17, <2>2, <2>5 DEF KeyInv
<1>18. CASE /\ s = scope /\ ~Witnessed(m, k, f)
            /\ mir' = wide /\ UNCHANGED <<ret, emitted>>
            /\ job' = [rec |-> rec, onOK |-> pend, onFail |-> pend, without |-> None,
                       emit |-> {fact(TRUE)}]
  <2>1. job'.rec = rec /\ job'.emit = {fact(TRUE)}
    BY <1>18
  <2> HIDE DEF h
  <2>2. rec \in Records /\ rec.scope = scope /\ rec.hist = h
    BY <1>2, <1>10, RecordShape DEF rec
  <2>3. SaveInv'
    <3>1. \A t \in job'.emit : t.filed /\ t.of[1] = scope /\ t.of[3] > 0 /\ t.of[3] \in h[t.of[2]]
      <4>1. fact(TRUE).of[1] = s /\ fact(TRUE).of[2] = k /\ fact(TRUE).of[3] = f
        BY <1>9
      <4>2. f > 0 /\ f \in h[k] /\ s = scope
        BY <1>1, <1>10, <1>18
      <4>3. \A t \in job'.emit : t = fact(TRUE)
        BY <2>1
      <4> QED
        BY <1>19, <4>1, <4>2, <4>3
    <3> QED
      BY <1>3, <1>16, <1>18, <2>1, <2>2, <3>1 DEF SaveInv, Here
  <2>4. ASSUME NEW t \in emitted
        PROVE  FactHolds(t)'
    <3>1. FactHolds(t)
      BY <1>12
    <3>2. CASE ~Here(t)
      BY <1>3, <1>18, <3>1, <3>2 DEF FactHolds, Here
    <3>3. CASE Here(t)
      <4>1. t.filed => Carries(disk.rec, t)'
        BY <1>3, <3>1, <3>3 DEF FactHolds, Carries, OnFile
      <4>2. t.filed => rec.scope = scope /\ OnFile(rec, t.of[2], t.of[3])
        BY <1>10, <1>16, <1>18, <3>3, HistoryCarries DEF rec, r
      <4>3. t.filed => Carries(job.rec, t)'
        BY <1>3, <2>1, <2>2, <4>2, NoneIsApart DEF Carries, OnFile
      <4> QED
        BY <1>3, <1>4, <1>16, <1>18, <3>1, <3>3, <4>1, <4>3 DEF FactHolds, Here
    <3> QED
      BY <3>2, <3>3
  <2> QED
    BY <1>11, <1>16, <1>18, <2>3, <2>4 DEF KeyInv
<1> QED
  BY <1>8, <1>14, <1>15, <1>17, <1>18

LEMMA LandsKeys ==
    ASSUME TypeOK, StoreInv, KeyInv, SaveLands
    PROVE  KeyInv'
<1>1. /\ job # None /\ job \in Jobs /\ job.rec \in Records /\ job.emit \subseteq Facts
      /\ disk \in Disks /\ mir \in Mirrors \union {None} /\ scope \in Scopes
  BY JobShape DEF SaveLands, TypeOK
<1>2. /\ disk' = [disk EXCEPT !.rec = job.rec, !.tomb = None]
      /\ emitted' = emitted \union job.emit /\ job' = None
      /\ mir' = IF job.rec.scope = scope /\ mir # None THEN [mir EXCEPT !.durable = TRUE] ELSE mir
      /\ UNCHANGED <<ret, scope, used, given>>
  BY DEF SaveLands
<1>3. disk'.rec = job.rec /\ disk'.tomb = None /\ disk'.tomb # scope' /\ job.rec # None
  BY <1>1, <1>2, NoneIsApart DEF Disks
<1>4. /\ mir # None => mir' # None /\ mir'.keys = mir.keys /\ mir'.hist = mir.hist
      /\ mir = None => mir' = None
  <2>1. mir = None => mir' = None
    BY <1>2
  <2>2. ASSUME mir # None
        PROVE  mir' \in Mirrors /\ mir'.keys = mir.keys /\ mir'.hist = mir.hist
    <3>1. mir \in Mirrors /\ (mir' = mir \/ mir' = [mir EXCEPT !.durable = TRUE])
      BY <1>1, <1>2, <2>2
    <3> QED
      BY <3>1 DEF Mirrors
  <2> QED
    BY <2>1, <2>2, NoneIsApart
<1>5. /\ job.rec.scope = scope => mir # None /\ job.rec.hist = mir.hist
      /\ job.rec.scope # scope => job.emit = {} /\ disk.rec # None /\ disk.rec.scope # scope
      /\ \A t \in job.emit : /\ t.filed /\ Here(t) /\ t.of[3] > 0
                             /\ t.of[3] \in job.rec.hist[t.of[2]]
  BY <1>1 DEF KeyInv, SaveInv
<1>6. GivenInv' /\ DurableInv' /\ SaveInv'
  BY <1>2, <1>3, <1>4, <1>5 DEF KeyInv, GivenInv, DurableInv, SaveInv
<1>7. ASSUME NEW t \in emitted
      PROVE  FactHolds(t)'
  <2>1. FactHolds(t)
    BY DEF KeyInv
  <2>2. CASE ~Here(t)
    BY <1>2, <2>1, <2>2 DEF FactHolds, Here
  <2>3. CASE Here(t)
    <3>1. mir # None /\ InMirror(t) /\ (t.filed => Carries(disk.rec, t) /\ Carries(job.rec, t))
      BY <1>1, <2>1, <2>3 DEF FactHolds
    <3>2. Here(t)' /\ InMirror(t)' /\ mir' # None
      BY <1>2, <1>4, <2>3, <3>1 DEF Here, InMirror
    <3>3. t.filed => Carries(disk.rec, t)'
      BY <1>2, <1>3, <3>1 DEF Carries, OnFile
    <3>4. (disk'.rec # None /\ disk'.rec.scope = scope' /\ t.of[3] \in disk'.rec.hist[t.of[2]]) =>
             t.of[3] \in mir'.hist[t.of[2]]
      BY <1>2, <1>3, <1>4, <1>5
    <3> QED
      BY <1>2, <1>3, <2>1, <3>2, <3>3, <3>4 DEF FactHolds
  <2> QED
    BY <2>2, <2>3
<1>8. ASSUME NEW t \in job.emit
      PROVE  FactHolds(t)'
  <2>1. /\ job.rec.scope = scope /\ mir # None /\ Here(t) /\ t.of[3] > 0
        /\ t.of[3] \in job.rec.hist[t.of[2]] /\ job.rec.hist = mir.hist /\ mir' # None
    BY <1>4, <1>5
  <2>2. Here(t)' /\ InMirror(t)' /\ t.of[3] \in mir'.hist[t.of[2]] /\ Carries(disk.rec, t)'
    BY <1>2, <1>3, <1>4, <2>1 DEF Here, InMirror, Carries, OnFile
  <2>3. t.of[1] <= used'.scopes
    BY <1>2, <2>1 DEF Here, StoreInv, NumberInv
  <2> QED
    BY <1>2, <1>3, <2>1, <2>2, <2>3 DEF FactHolds
<1> QED
  BY <1>2, <1>6, <1>7, <1>8 DEF KeyInv

LEMMA FailsKeys ==
    ASSUME TypeOK, StoreInv, KeyInv, NEW landed \in BOOLEAN, NEW cleared \in BOOLEAN,
           SaveFails(landed, cleared)
    PROVE  KeyInv'
<1> DEFINE rec == IF landed THEN job.rec ELSE disk.rec
           tomb == IF cleared THEN None ELSE disk.tomb
           rest == [job.rec EXCEPT !.ents[job.without] = None]
<1>1. /\ job # None /\ job \in Jobs /\ job.rec \in Records
      /\ job.onFail \in Owed /\ job.without \in Keys \union {None}
      /\ disk \in Disks /\ scope \in Scopes
  BY JobShape DEF SaveFails, TypeOK
<1>2. /\ Fault /\ disk' = [disk EXCEPT !.rec = rec, !.tomb = tomb]
      /\ \/ job' = None /\ mir' = mir
         \/ job.without # None /\ StartSave(rest, Mirror, job.onFail, job.onFail, None)
      /\ UNCHANGED <<ret, scope, given, emitted>>
  BY DEF SaveFails
<1>3. used'.scopes = used.scopes
  BY <1>2, FaultCounts
<1>4. /\ disk'.rec \in {disk.rec, job.rec} /\ disk'.tomb \in {disk.tomb, None}
  BY <1>1, <1>2 DEF Disks
<1>5. GivenInv'
  BY <1>2, <1>3 DEF KeyInv, GivenInv
<1>6. CASE job.without # None /\ StartSave(rest, Mirror, job.onFail, job.onFail, None)
  <2>1. job.rec.scope = scope
    BY <1>1, <1>6 DEF KeyInv, SaveInv
  <2>2. rest \in Records /\ rest.scope = scope
    <3> DEFINE ents == [job.rec.ents EXCEPT ![job.without] = None]
    <3>1. rest = [job.rec EXCEPT !.ents = ents]
      BY <1>1 DEF Records
    <3>2. ents \in Held
      BY <1>1, <1>6, RecordShape DEF Held
    <3> HIDE DEF rest, ents
    <3> QED
      BY <1>1, <2>1, <3>1, <3>2, RecordShape
  <2> HIDE DEF rest
  <2>3. None \in Keys \union {None}
    OBVIOUS
  <2> QED
    BY <1>1, <1>2, <1>3, <1>4, <1>5, <1>6, <2>1, <2>2, <2>3, KeysSaved
<1>7. CASE job' = None /\ mir' = mir
  <2>1. /\ job.rec.scope = scope => mir # None /\ ~mir.durable /\ job.rec.hist = mir.hist
        /\ job.rec.scope # scope => disk.rec # None /\ disk.rec.scope # scope
    BY <1>1 DEF KeyInv, SaveInv
  <2>2. disk.tomb # scope => disk'.tomb # scope'
    BY <1>1, <1>2, <1>4, NoneIsApart
  <2>3. DurableInv' /\ SaveInv'
    BY <1>2, <1>4, <1>7, <2>1, <2>2 DEF KeyInv, DurableInv, SaveInv
  <2>4. ASSUME NEW t \in emitted
        PROVE  FactHolds(t)'
    <3>1. FactHolds(t)
      BY DEF KeyInv
    <3>2. CASE ~Here(t)
      BY <1>2, <1>3, <3>1, <3>2 DEF FactHolds, Here
    <3>3. CASE Here(t)
      <4>1. /\ mir # None /\ InMirror(t) /\ disk.tomb # scope
            /\ t.filed => Carries(disk.rec, t) /\ Carries(job.rec, t)
            /\ (disk.rec # None /\ disk.rec.scope = scope
                /\ t.of[3] \in disk.rec.hist[t.of[2]]) => t.of[3] \in mir.hist[t.of[2]]
        BY <1>1, <3>1, <3>3 DEF FactHolds
      <4>2. Here(t)' /\ InMirror(t)'
        BY <1>2, <1>7, <3>3, <4>1 DEF Here, InMirror
      <4>3. t.filed => Carries(disk.rec, t)'
        BY <1>2, <1>4, <4>1 DEF Carries, OnFile
      <4>4. (disk'.rec # None /\ disk'.rec.scope = scope' /\ t.of[3] \in disk'.rec.hist[t.of[2]]) =>
               t.of[3] \in mir'.hist[t.of[2]]
        BY <1>2, <1>4, <1>7, <2>1, <4>1
      <4> QED
        BY <1>2, <1>3, <1>7, <2>2, <3>1, <4>1, <4>2, <4>3, <4>4 DEF FactHolds
    <3> QED
      BY <3>2, <3>3
  <2> QED
    BY <1>2, <1>5, <2>3, <2>4 DEF KeyInv
<1> QED
  BY <1>2, <1>6, <1>7

LEMMA ForeignKeys ==
    ASSUME TypeOK, StoreInv, KeyInv, RetryForeign
    PROVE  KeyInv'
<1> DEFINE foreign == {x \in DOMAIN pend : x[1] # scope /\ pend[x] # None}
           ready == {x \in foreign : pend[x].drop /\ ~pend[x].capture}
           applies == {x \in ready : (disk.rec # None /\ disk.rec.scope = x[1])
                          /\ ~(disk.rec.ents[x[2]] # None /\ disk.rec.ents[x[2]].at > pend[x].asOf)}
           rest == [x \in DOMAIN pend |->
                      IF x \in foreign /\ (~pend[x].drop \/ x \in ready \ applies) THEN None
                      ELSE pend[x]]
           ents == [k \in Keys |-> IF <<disk.rec.scope, k>> \in applies THEN None
                                   ELSE disk.rec.ents[k]]
           rec == [disk.rec EXCEPT !.ents = ents]
           ok == [x \in DOMAIN rest |-> IF x \in applies THEN None ELSE rest[x]]
<1>1. UNCHANGED <<ret, scope, disk, used, given, emitted>>
  BY DEF RetryForeign
<1>2. \/ UNCHANGED <<job, mir>>
      \/ applies # {} /\ StartSave(rec, MirrorOf(disk.rec), ok, rest, None)
  BY DEF RetryForeign
<1>3. applies # {} => disk.rec # None /\ disk.rec.scope # scope
  OBVIOUS
<1> HIDE DEF foreign, ready, applies, rest, ok
<1>4. CASE UNCHANGED <<job, mir>>
  BY <1>1, <1>4, KeysSame
<1>5. CASE applies # {} /\ StartSave(rec, MirrorOf(disk.rec), ok, rest, None)
  <2>1. disk.rec # None /\ disk.rec.scope # scope /\ disk.rec \in Records
    BY <1>3, <1>5, DiskShape DEF TypeOK
  <2>2. ents \in Held
    <3>1. \A k \in Keys : disk.rec.ents[k] \in Entries \union {None}
      BY <2>1, RecordShape, HeldShape
    <3> QED
      BY <3>1 DEF Held
  <2> HIDE DEF ents
  <2>3. rec \in Records /\ rec.scope = disk.rec.scope
    BY <2>1, <2>2, RecordShape
  <2> HIDE DEF rec
  <2> DEFINE hist == [k \in Keys |-> MirrorOf(disk.rec).hist[k] \union Retire(MirrorOf(disk.rec).keys, rec, k)]
  <2>4. /\ job' = [rec |-> [rec EXCEPT !.hist = hist], onOK |-> ok, onFail |-> rest,
                   without |-> None, emit |-> {}]
        /\ mir' = mir
    BY <1>5, <2>1, <2>3 DEF StartSave
  <2> HIDE DEF hist
  <2>5. job'.rec.scope # scope /\ job'.emit = {} /\ job'.without = None
    BY <2>1, <2>3, <2>4 DEF Records
  <2>6. GivenInv' /\ DurableInv' /\ SaveInv'
    BY <1>1, <2>1, <2>4, <2>5 DEF KeyInv, GivenInv, DurableInv, SaveInv
  <2>7. \A t \in emitted : FactHolds(t) /\ (Here(t) => ~t.filed)
    BY <2>1 DEF KeyInv, FactHolds, Carries
  <2>8. \A t \in emitted' : FactHolds(t)'
    BY <1>1, <2>4, <2>7 DEF FactHolds, Here, InMirror
  <2> QED
    BY <2>6, <2>8 DEF KeyInv
<1> QED
  BY <1>2, <1>4, <1>5

LEMMA RestartKeys ==
    ASSUME TypeOK, StoreInv, KeyInv, Restart
    PROVE  KeyInv'
<1>1. /\ Turn /\ mir' = IF Loads THEN MirrorOf(disk.rec) ELSE None
      /\ scope' = disk.subj /\ job' = None /\ disk' = disk
      /\ given' \subseteq given
      /\ emitted' = {t \in emitted : /\ t.filed /\ t.of[1] = scope /\ scope = disk.subj
                                     /\ disk.tomb # disk.subj
                                     /\ disk.rec # None => disk.rec.scope = disk.subj}
  BY DEF Restart
<1>2. used'.scopes = used.scopes /\ disk.rec \in Records \union {None}
  BY <1>1, TurnCounts, DiskShape DEF TypeOK
<1>3. Loads => /\ MirrorOf(disk.rec) \in Mirrors /\ MirrorOf(disk.rec).hist = disk.rec.hist
               /\ \A k \in Keys : MirrorOf(disk.rec).keys[k] =
                     IF disk.rec.ents[k] = None THEN 0 ELSE disk.rec.ents[k].id
  BY <1>2, MirrorOfShape DEF Loads, MirrorOf
<1>4. GivenInv' /\ SaveInv'
  BY <1>1, <1>2 DEF KeyInv, GivenInv, SaveInv
<1>5. DurableInv'
  BY <1>1, <1>3 DEF DurableInv, Loads
<1>6. ASSUME NEW t \in emitted'
      PROVE  FactHolds(t)'
  <2>1. /\ t \in emitted /\ t.filed /\ t.of[1] = scope /\ scope = disk.subj
        /\ disk.tomb # disk.subj
    BY <1>1
  <2>2. FactHolds(t) /\ Here(t) /\ t.of[2] \in Keys
    BY <2>1, FactShape DEF KeyInv, Here, TypeOK
  <2>3. Carries(disk.rec, t)
    BY <2>1, <2>2 DEF FactHolds
  <2>4. Loads
    BY <2>1, <2>3 DEF Loads, Carries
  <2>5. mir' = MirrorOf(disk.rec) /\ mir' # None
    BY <1>1, <1>3, <2>4, NoneIsApart
  <2>6. Here(t)' /\ InMirror(t)' /\ Carries(disk.rec, t)'
    BY <1>1, <1>3, <2>1, <2>2, <2>3, <2>4, <2>5 DEF Here, InMirror, Carries, OnFile
  <2>7. t.of[3] \in disk'.rec.hist[t.of[2]] => t.of[3] \in mir'.hist[t.of[2]]
    BY <1>1, <1>3, <2>4, <2>5
  <2> QED
    BY <1>1, <1>2, <2>1, <2>2, <2>5, <2>6, <2>7 DEF FactHolds
<1> QED
  BY <1>4, <1>5, <1>6 DEF KeyInv

LEMMA StepKeepsKeys ==
    ASSUME TypeOK, StoreInv, KeyInv, [Next]_vars
    PROVE  KeyInv'
<1>1. ASSUME NEW k \in Keys, NEW now \in Clocks, NEW hid \in BOOLEAN, Install(k, now, hid)
      PROVE  KeyInv'
  BY <1>1, InstallKeys
<1>2. ASSUME NEW k \in Keys, NEW now \in Clocks, NEW how \in {"captured", "uncaptured", "age"},
             NEW lifts \in BOOLEAN, Drop(k, now, how, lifts)
      PROVE  KeyInv'
  BY <1>2, DropKeys
<1>3. ASSUME NEW now \in Clocks, NEW out \in ClearOutcomes, NEW marked \in BOOLEAN,
             Sentinel(now, out, marked)
      PROVE  KeyInv'
  <2>1. /\ mir' = None /\ emitted' = {} /\ given' = {} /\ job' = None
        /\ used'.scopes = used.scopes
    BY <1>3 DEF Sentinel, Idle, TypeOK, Counts
  <2>2. given' \subseteq given
    BY <2>1
  <2> QED
    BY <2>1, <2>2, KeysGone
<1>4. CASE Latch
  <2>1. UNCHANGED <<mir, ret, scope, disk, job, given, emitted>> /\ Turn
    BY <1>4 DEF Latch
  <2> QED
    BY <2>1, TurnCounts, KeysSame
<1>5. ASSUME NEW filed \in BOOLEAN, NEW landed \in BOOLEAN, NEW marked \in BOOLEAN,
           Remint(filed, landed, marked)
      PROVE  KeyInv'
  BY <1>5, RemintKeys
<1>17. CASE PersistSubject
  <2>1. UNCHANGED <<mir, ret, scope, disk.rec, disk.tomb, job, given, emitted, used>>
    BY <1>17 DEF PersistSubject, TypeOK, Disks
  <2> QED
    BY <2>1, KeysSame
<1>6. ASSUME NEW t \in given, RecordFactKey(t[1], t[2], t[3])
      PROVE  KeyInv'
  BY <1>6, RecordKeys
<1>7. ASSUME NEW t \in emitted, FactSettles(t)
      PROVE  KeyInv'
  <2>1. /\ UNCHANGED <<mir, ret, scope, disk, job, used>> /\ given' \subseteq given
        /\ emitted' \subseteq emitted
    BY <1>7 DEF FactSettles, vol
  <2> QED
    BY <2>1, KeysSame
<1>8. ASSUME NEW owed, PruneFactKeys(owed)
      PROVE  KeyInv'
  BY <1>8, PruneKeys
<1>9. CASE SaveLands
  BY <1>9, LandsKeys
<1>10. ASSUME NEW landed \in BOOLEAN, NEW cleared \in BOOLEAN, SaveFails(landed, cleared)
       PROVE  KeyInv'
  BY <1>10, FailsKeys
<1>11. ASSUME NEW out \in ClearOutcomes, RetryClear(out)
       PROVE  KeyInv'
  <2>1. UNCHANGED <<scope, job, given>> /\ job = None
    BY <1>11 DEF RetryClear, Idle
  <2>2. CASE UNCHANGED <<mir, ret, disk, used, emitted>>
    BY <2>1, <2>2, KeysSame
  <2>3. CASE mir' = None /\ emitted' = {} /\ (Fault \/ UNCHANGED used)
    <3>1. used'.scopes = used.scopes
      BY <2>3, FaultCounts
    <3> QED
      BY <2>1, <2>3, <3>1, KeysGone
  <2> QED
    BY <1>11, <2>2, <2>3 DEF RetryClear
<1>12. ASSUME NEW done, RetryCapture(done)
       PROVE  KeyInv'
  BY <1>12, KeysSame DEF RetryCapture
<1>13. CASE RetryFold
  BY <1>13, FoldKeys
<1>14. CASE RetryForeign
  BY <1>14, ForeignKeys
<1>15. CASE Restart
  BY <1>15, RestartKeys
<1>16. CASE UNCHANGED vars
  BY <1>16, KeysSame DEF vars, vol
<1> QED
  BY <1>1, <1>2, <1>3, <1>4, <1>5, <1>6, <1>7, <1>8, <1>9, <1>10, <1>11, <1>12, <1>13, <1>14,
     <1>15, <1>16, <1>17 DEF Next

\* Every key that a fact was built with is known to a later withdrawal of its
\* experiment (knownFactKeysLocked): no re-mint, no failed or repeated save, no
\* pruning and no restart loses it while the fact lives and the record is not
\* cleared (retireFactKeysLocked, recordFactKeyLocked, pruneExperimentFactKeys).
THEOREM FactKeysAreKnown == Spec => []FactKeysKnown
<1>1. Init => KeyInv
  BY DEF Init, KeyInv, GivenInv, DurableInv, SaveInv
<1>2. (TypeOK /\ StoreInv) /\ KeyInv /\ [Next]_vars => KeyInv'
  BY StepKeepsKeys
<1>3. KeyInv => FactKeysKnown
  BY DEF KeyInv, FactHolds, InMirror, Here, FactKeysKnown, Known, Mirror
<1> QED
  BY <1>1, <1>2, <1>3, StoreInvariant, PTL DEF Spec
=============================================================================
