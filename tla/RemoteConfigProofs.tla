------------------------- MODULE RemoteConfigProofs -------------------------
(***************************************************************************)
(* Proofs about RemoteConfig, for every set of processes and fetches: the  *)
(* state keeps its shape, a 304 is served from a body of its own target,   *)
(* a refused or cleared scope is reopened only by a later fetch, and the   *)
(* getters are not turned back to an older version.                        *)
(*                                                                         *)
(* Almost every step changes one process and one fetch, so the proofs ask  *)
(* what the new state of that process and of that fetch are worth.         *)
(***************************************************************************)
EXTENDS RemoteConfig, TLAPS

\* What the fences of one process's state r guarantee: a scope was settled by
\* a fetch that had been numbered, no later failure than the last settlement
\* is remembered, what the getters may show of an open scope is younger than
\* the scope's last failure, and a cleared publication is closed and not held.
Fenced(r) ==
    /\ \A s \in Scopes : r.settled[s] <= r.seq /\ r.failed[s] <= r.settled[s]
    /\ \A s \in Scopes :
          (r.snap # None /\ r.snap.scope = s /\ s \notin r.closed) => r.snap.seq > r.failed[s]
    /\ \A s \in Scopes :
          r.cleared[s].on => s \in r.closed /\ (r.held # None => r.held.scope # s)

\* A fetch x numbered out of n, and its fallback records, of their own scopes.
Tracked(x, n) ==
    /\ x.pc \in {"begun", "sent", "answered"} => x.seq <= n
    /\ x.pc = "begun" =>
          \A s \in Scopes : x.caches[s] # None => x.caches[s].scope = s
    /\ x.pc \in {"sent", "answered"} => (x.cache # None => x.cache.scope = x.scope)

FenceInv ==
    /\ \A p \in Procs : Fenced(rc[p])
    /\ \A f \in Fetches : Tracked(slot[f], rc[ProcOf[f]].seq)

ConfigInv == TypeOK /\ FenceInv

LEMMA Bounds == /\ ProcOf \in [Fetches -> Procs] /\ NoTarget \in Targets /\ Clocks \subseteq Nat
                /\ MaxFetches \in Nat /\ MaxSeq \in Nat /\ MaxVersion \in Nat /\ MaxTurns \in Nat
                /\ None \notin Records
BY RemoteConfigAssumption

-----------------------------------------------------------------------------
(* Shapes.                                                                 *)

\* A record field by field.
LEMMA RecordFields ==
    ASSUME NEW r \in Records
    PROVE  /\ r.scope \in Scopes /\ r.v \in Nat /\ r.tgt \in Targets /\ r.etag \in BOOLEAN
           /\ r.sig \in Targets /\ r.at \in Nat /\ (r.etag => r.tgt = r.sig)
BY DEF Records

\* A process's state field by field.
LEMMA StateFields ==
    ASSUME NEW r \in States
    PROVE  /\ r.held \in MaybeRecord /\ r.seq \in Nat /\ r.settled \in [Scopes -> Nat]
           /\ r.snap \in [v : Nat, tgt : Targets, scope : Scopes, seq : Nat] \union {None}
           /\ r.failed \in [Scopes -> Int] /\ r.closed \in SUBSET Scopes
           /\ r.window \in SUBSET Scopes
           /\ r.cleared \in [Scopes -> [on : BOOLEAN, rec : MaybeRecord]]
BY DEF States

\* A process's state keeps its shape when one field is replaced.
LEMMA StateUpdates ==
    ASSUME NEW r \in States
    PROVE  /\ \A x \in MaybeRecord : [r EXCEPT !.held = x] \in States
           /\ \A x \in [v : Nat, tgt : Targets, scope : Scopes, seq : Nat] \union {None} :
                 [r EXCEPT !.snap = x] \in States
           /\ \A x \in Nat : [r EXCEPT !.seq = x] \in States
           /\ \A x \in [Scopes -> Nat] : [r EXCEPT !.settled = x] \in States
           /\ \A x \in [Scopes -> Int] : [r EXCEPT !.failed = x] \in States
           /\ \A x \in SUBSET Scopes : [r EXCEPT !.closed = x] \in States
           /\ \A x \in SUBSET Scopes : [r EXCEPT !.window = x] \in States
           /\ \A x \in [Scopes -> [on : BOOLEAN, rec : MaybeRecord]] :
                 [r EXCEPT !.cleared = x] \in States
<1> USE DEF States
<1>1. \A x \in MaybeRecord : [r EXCEPT !.held = x] \in States
  OBVIOUS
<1>2. \A x \in [v : Nat, tgt : Targets, scope : Scopes, seq : Nat] \union {None} :
         [r EXCEPT !.snap = x] \in States
  OBVIOUS
<1>3. \A x \in Nat : [r EXCEPT !.seq = x] \in States
  OBVIOUS
<1>4. \A x \in [Scopes -> Nat] : [r EXCEPT !.settled = x] \in States
  OBVIOUS
<1>5. \A x \in [Scopes -> Int] : [r EXCEPT !.failed = x] \in States
  OBVIOUS
<1>6. \A x \in SUBSET Scopes : [r EXCEPT !.closed = x] \in States
  OBVIOUS
<1>7. \A x \in SUBSET Scopes : [r EXCEPT !.window = x] \in States
  OBVIOUS
<1>8. \A x \in [Scopes -> [on : BOOLEAN, rec : MaybeRecord]] : [r EXCEPT !.cleared = x] \in States
  OBVIOUS
<1> HIDE DEF States
<1> QED
  BY <1>1, <1>2, <1>3, <1>4, <1>5, <1>6, <1>7, <1>8

\* What saveDurable writes: a record again, and coherent because an ETag goes
\* to disk only with the body of no target.
LEMMA SavedRecord ==
    ASSUME NEW r \in Records
    PROVE  saveDurable(r) \in Records
BY RecordFields, Bounds DEF saveDurable, Records

\* The records that a process or a fetch may fall back to.
LEMMA KnownRecords ==
    ASSUME TypeOK, NEW p \in Procs, NEW s \in Scopes
    PROVE  /\ Durable(s) \in MaybeRecord /\ Held(p, s) \in MaybeRecord
           /\ loadCache(p, s) \in MaybeRecord
           /\ loadCache(p, s) # None => loadCache(p, s).scope = s
<1>1. rc[p].held \in MaybeRecord /\ file \in MaybeRecord /\ None \in MaybeRecord
  BY StateFields DEF TypeOK, MaybeRecord
<1> QED
  BY <1>1 DEF Durable, Held, loadCache

LEMMA ScopeType ==
    ASSUME TypeOK, NEW p \in Procs
    PROVE  Scope(p) \in Scopes
BY DEF Scope, Scopes

\* A fetch's slot by the point it has reached.
LEMMA SlotFields ==
    ASSUME TypeOK, NEW f \in Fetches
    PROVE  /\ ProcOf[f] \in Procs
           /\ slot[f].pc = "begun" => slot[f] \in BegunSlots
           /\ slot[f].pc = "sent" => slot[f] \in SentSlots
           /\ slot[f].pc = "answered" => slot[f] \in AnsweredSlots
           /\ slot[f].pc = "writing" => slot[f] \in WritingSlots
<1>1. slot[f] \in Slots /\ ProcOf[f] \in Procs
  BY Bounds DEF TypeOK
<1> QED
  BY <1>1 DEF Slots, Idle, BegunSlots, SentSlots, AnsweredSlots, WritingSlots

LEMMA RestSlot == Idle \in Slots /\ Idle.pc = "idle"
BY DEF Slots, Idle

\* The record served, when the fetch is about to settle.
LEMMA ServedRecord ==
    ASSUME TypeOK, NEW f \in Fetches, slot[f].pc = "answered"
    PROVE  Served(f) \in MaybeRecord
<1>1. slot[f] \in AnsweredSlots /\ rc[ProcOf[f]] \in States
  BY SlotFields DEF TypeOK
<1>2. slot[f].cache \in MaybeRecord /\ slot[f].scope \in Scopes
  BY <1>1 DEF AnsweredSlots
<1>3. rc[ProcOf[f]].cleared[slot[f].scope].rec \in MaybeRecord
  BY <1>1, <1>2, StateFields
<1> QED
  BY <1>2, <1>3 DEF Served

\* raiseStampAboveSuperseded always finds a stamp: at most three records are
\* replaced.
LEMMA LargestOfThree ==
    ASSUME NEW x \in Nat, NEW y \in Nat, NEW z \in Nat, NEW T \in SUBSET {x, y, z}, T # {}
    PROVE  \E t \in T : \A u \in T : u <= t
<1>1. CASE x \in T /\ (y \in T => y <= x) /\ (z \in T => z <= x)
  BY <1>1
<1>2. CASE y \in T /\ (x \in T => x <= y) /\ (z \in T => z <= y)
  BY <1>2
<1>3. CASE z \in T /\ (x \in T => x <= z) /\ (y \in T => y <= z)
  BY <1>3
<1>4. x \in T \/ y \in T \/ z \in T
  OBVIOUS
<1>5. x <= y \/ y <= x
  OBVIOUS
<1>6. (x <= z \/ z <= x) /\ (y <= z \/ z <= y)
  OBVIOUS
<1>7. (x <= y /\ y <= z => x <= z) /\ (y <= x /\ x <= z => y <= z) /\ (x <= z /\ z <= y => x <= y)
  OBVIOUS
<1>8. (z <= x /\ x <= y => z <= y) /\ (z <= y /\ y <= x => z <= x) /\ (y <= z /\ z <= x => y <= x)
  OBVIOUS
<1> QED
  BY <1>1, <1>2, <1>3, <1>4, <1>5, <1>6, <1>7, <1>8

LEMMA StampType ==
    ASSUME NEW now \in Nat, NEW a \in MaybeRecord, NEW b \in MaybeRecord, NEW c \in MaybeRecord
    PROVE  Stamp(now, {r.at : r \in {a, b, c} \ {None}}) \in Nat
<1> DEFINE T == {r.at : r \in {a, b, c} \ {None}}
           At(r) == IF r # None THEN r.at ELSE 0
<1>1. At(a) \in Nat /\ At(b) \in Nat /\ At(c) \in Nat
  BY RecordFields DEF MaybeRecord
<1>2. T \subseteq {At(a), At(b), At(c)}
  OBVIOUS
<1> HIDE DEF T, At
<1>3. CASE \A t \in T : now > t
  BY <1>3 DEF Stamp, T
<1>4. CASE ~\A t \in T : now > t
  <2>1. T # {}
    BY <1>4
  <2>2. \E t \in T : \A u \in T : u <= t
    BY <1>1, <1>2, <2>1, LargestOfThree
  <2>3. (CHOOSE t \in T : \A u \in T : u <= t) \in T
    BY <2>2
  <2>4. \A t \in T : t \in Nat
    BY <1>1, <1>2
  <2>5. Stamp(now, T) = 1 + CHOOSE t \in T : \A u \in T : u <= t
    BY <1>4 DEF Stamp
  <2>6. Stamp(now, T) \in Nat
    BY <2>3, <2>4, <2>5
  <2> QED
    BY <2>6 DEF T
<1> QED
  BY <1>3, <1>4

-----------------------------------------------------------------------------
(* What each operation makes of the state r of its process.                *)

\* newRemoteConfigState and preload.
LEMMA NewStateFenced ==
    ASSUME TypeOK, NEW p \in Procs
    PROVE  NewState(p) \in States /\ Fenced(NewState(p))
<1> DEFINE d == Durable(Scope(p))
           snap == IF d = None THEN None
                   ELSE [v |-> d.v, tgt |-> d.tgt, scope |-> d.scope, seq |-> 0]
           none == [s \in Scopes |-> [on |-> FALSE, rec |-> None]]
<1>1. d \in MaybeRecord
  BY KnownRecords, ScopeType
<1>2. snap \in [v : Nat, tgt : Targets, scope : Scopes, seq : Nat] \union {None}
  BY <1>1, RecordFields DEF MaybeRecord
<1>3. none \in [Scopes -> [on : BOOLEAN, rec : MaybeRecord]]
  BY DEF MaybeRecord
<1>4. snap # None => snap.seq = 0
  OBVIOUS
<1>5. NewState(p) = [held |-> d, snap |-> snap, seq |-> 0, settled |-> [s \in Scopes |-> 0],
                     closed |-> {}, cleared |-> none, window |-> {},
                     failed |-> [s \in Scopes |-> -1]]
  BY DEF NewState
<1>6. \A s \in Scopes : ~none[s].on
  OBVIOUS
<1> HIDE DEF d, snap, none
<1>7. NewState(p) \in States
  BY <1>1, <1>2, <1>3, <1>5 DEF States
<1> QED
  BY <1>4, <1>5, <1>6, <1>7 DEF Fenced

\* An authoritative failure.
LEMMA ShutFenced ==
    ASSUME NEW r \in States, Fenced(r), NEW s \in Scopes, NEW n \in Nat,
           n > r.settled[s], n <= r.seq
    PROVE  /\ Shut(r, s, n) \in States /\ Fenced(Shut(r, s, n))
           /\ Shut(r, s, n).seq = r.seq /\ s \in Shut(r, s, n).closed
           /\ Shut(r, s, n).snap = None /\ Shut(r, s, n).held = r.held
           /\ Shut(r, s, n).cleared = r.cleared
<1> DEFINE r1 == [r EXCEPT !.closed = r.closed \union {s}]
           r2 == [r1 EXCEPT !.settled = [r.settled EXCEPT ![s] = n]]
           r3 == [r2 EXCEPT !.failed = [r.failed EXCEPT ![s] = n]]
<1>1. Shut(r, s, n) = [r3 EXCEPT !.snap = None]
  BY StateFields DEF Shut, States
<1>2. /\ r.closed \union {s} \in SUBSET Scopes
      /\ [r.settled EXCEPT ![s] = n] \in [Scopes -> Nat]
      /\ [r.failed EXCEPT ![s] = n] \in [Scopes -> Int]
  BY StateFields
<1>3. Shut(r, s, n) \in States
  <2>1. r1 \in States
    BY <1>2, StateUpdates
  <2> HIDE DEF r1
  <2>2. r2 \in States
    BY <1>2, <2>1, StateUpdates
  <2> HIDE DEF r2
  <2>3. r3 \in States
    BY <1>2, <2>2, StateUpdates
  <2> HIDE DEF r3
  <2> QED
    BY <1>1, <2>3, StateUpdates
<1>4. /\ Shut(r, s, n).seq = r.seq /\ Shut(r, s, n).closed = r.closed \union {s}
      /\ Shut(r, s, n).snap = None /\ Shut(r, s, n).held = r.held
      /\ Shut(r, s, n).cleared = r.cleared
      /\ Shut(r, s, n).settled = [r.settled EXCEPT ![s] = n]
      /\ Shut(r, s, n).failed = [r.failed EXCEPT ![s] = n]
  BY DEF Shut, States
<1>5. Fenced(Shut(r, s, n))
  BY <1>4, StateFields DEF Fenced
<1> QED
  BY <1>3, <1>4, <1>5

\* clearPublicationLocked.
Clearing(r, s, n, h, x) ==
    [Shut(r, s, n) EXCEPT !.held = h, !.cleared[s] = [on |-> TRUE, rec |-> x]]

LEMMA ClearFenced ==
    ASSUME NEW r \in States, Fenced(r), NEW s \in Scopes, NEW n \in Nat,
           n > r.settled[s], n <= r.seq, NEW h \in MaybeRecord, NEW x \in MaybeRecord,
           h # None => h = r.held /\ h.scope # s
    PROVE  /\ Clearing(r, s, n, h, x) \in States /\ Fenced(Clearing(r, s, n, h, x))
           /\ Clearing(r, s, n, h, x).seq = r.seq
<1> DEFINE q == Shut(r, s, n)
           q1 == [q EXCEPT !.held = h]
           m == [r.cleared EXCEPT ![s] = [on |-> TRUE, rec |-> x]]
           c == [q EXCEPT !.held = h, !.cleared[s] = [on |-> TRUE, rec |-> x]]
<1>1. /\ q \in States /\ Fenced(q) /\ q.seq = r.seq /\ s \in q.closed /\ q.snap = None
      /\ q.cleared = r.cleared
  BY ShutFenced
<1> HIDE DEF q
<1>2. c = [q1 EXCEPT !.cleared = m]
  BY <1>1 DEF States
<1>3. m \in [Scopes -> [on : BOOLEAN, rec : MaybeRecord]]
  BY StateFields
<1>4. q1 \in States
  BY <1>1, StateUpdates
<1>5. c \in States
  <2> HIDE DEF q1, m, c
  <2> QED
    BY <1>2, <1>3, <1>4, StateUpdates
<1>6. /\ c.seq = r.seq /\ c.closed = q.closed /\ c.snap = None /\ c.held = h
      /\ c.cleared = m /\ c.settled = q.settled /\ c.failed = q.failed
  BY <1>1 DEF States
<1>7. \A t \in Scopes : m[t].on => t = s \/ r.cleared[t].on
  BY StateFields
<1> HIDE DEF c, m
<1>8. Fenced(c)
  <2>1. \A t \in Scopes : c.settled[t] <= c.seq /\ c.failed[t] <= c.settled[t]
    BY <1>1, <1>6 DEF Fenced
  <2>2. \A t \in Scopes : c.cleared[t].on => t \in c.closed /\ (c.held # None => c.held.scope # t)
    BY <1>1, <1>6, <1>7 DEF Fenced
  <2> QED
    BY <1>6, <2>1, <2>2 DEF Fenced
<1>9. c \in States /\ Fenced(c) /\ c.seq = r.seq
  BY <1>5, <1>6, <1>8
<1> QED
  BY <1>9 DEF c, q, Clearing

\* installLocked, for a body that the service sent or confirmed.
Installation(r, s, n, x) ==
    [r EXCEPT !.settled[s] = n, !.closed = r.closed \ {s},
              !.cleared[s] = [on |-> FALSE, rec |-> None], !.held = x,
              !.snap = [v |-> x.v, tgt |-> x.tgt, scope |-> s, seq |-> n]]

LEMMA InstallFenced ==
    ASSUME NEW r \in States, Fenced(r), NEW s \in Scopes, NEW n \in Nat,
           n > r.settled[s], n <= r.seq, NEW x \in Records, x.scope = s
    PROVE  /\ Installation(r, s, n, x) \in States /\ Fenced(Installation(r, s, n, x))
           /\ Installation(r, s, n, x).seq = r.seq
<1> DEFINE snap == [v |-> x.v, tgt |-> x.tgt, scope |-> s, seq |-> n]
           set == [r.settled EXCEPT ![s] = n]
           m == [r.cleared EXCEPT ![s] = [on |-> FALSE, rec |-> None]]
           r1 == [r EXCEPT !.settled = set]
           r2 == [r1 EXCEPT !.closed = r.closed \ {s}]
           r3 == [r2 EXCEPT !.cleared = m]
           r4 == [r3 EXCEPT !.held = x]
           c == [r EXCEPT !.settled[s] = n, !.closed = r.closed \ {s},
                          !.cleared[s] = [on |-> FALSE, rec |-> None], !.held = x,
                          !.snap = [v |-> x.v, tgt |-> x.tgt, scope |-> s, seq |-> n]]
<1>1. c = [r4 EXCEPT !.snap = snap]
  BY DEF States
<1>2. /\ snap \in [v : Nat, tgt : Targets, scope : Scopes, seq : Nat]
      /\ snap.scope = s /\ snap.seq = n
  BY RecordFields
<1>3. m \in [Scopes -> [on : BOOLEAN, rec : MaybeRecord]] /\ set \in [Scopes -> Nat]
  BY StateFields DEF MaybeRecord
<1>4. r.closed \ {s} \in SUBSET Scopes /\ x \in MaybeRecord
  BY StateFields DEF MaybeRecord
<1>5. /\ c.seq = r.seq /\ c.closed = r.closed \ {s} /\ c.snap = snap /\ c.held = x
      /\ c.cleared = m /\ c.settled = set /\ c.failed = r.failed
  BY DEF States
<1>6. \A t \in Scopes : /\ (m[t].on => t # s /\ r.cleared[t].on)
                        /\ set[t] = IF t = s THEN n ELSE r.settled[t]
  BY StateFields
<1>7. c \in States
  <2> HIDE DEF set, m, snap, c
  <2>1. r1 \in States
    BY <1>3, StateUpdates
  <2> HIDE DEF r1
  <2>2. r2 \in States
    BY <1>4, <2>1, StateUpdates
  <2> HIDE DEF r2
  <2>3. r3 \in States
    BY <1>3, <2>2, StateUpdates
  <2> HIDE DEF r3
  <2>4. r4 \in States
    BY <1>4, <2>3, StateUpdates
  <2> HIDE DEF r4
  <2> QED
    BY <1>1, <1>2, <2>4, StateUpdates
<1> HIDE DEF snap, set, m, c
<1>8. \A t \in Scopes : r.failed[t] \in Int /\ r.settled[t] \in Nat
  BY StateFields
<1>9. Fenced(c)
  <2>1. \A t \in Scopes : c.settled[t] <= c.seq /\ c.failed[t] <= c.settled[t]
    BY <1>5, <1>6, <1>8 DEF Fenced
  <2>2. \A t \in Scopes :
           (c.snap # None /\ c.snap.scope = t /\ t \notin c.closed) => c.snap.seq > c.failed[t]
    BY <1>2, <1>5, <1>8 DEF Fenced
  <2>3. \A t \in Scopes : c.cleared[t].on => t \in c.closed /\ (c.held # None => c.held.scope # t)
    BY <1>5, <1>6 DEF Fenced
  <2> QED
    BY <2>1, <2>2, <2>3 DEF Fenced
<1>10. c \in States /\ Fenced(c) /\ c.seq = r.seq
  BY <1>5, <1>7, <1>9
<1> QED
  BY <1>10 DEF c, Installation

\* installLocked, for a record served from the cache.
Adoption(r, s, n, x) ==
    [r EXCEPT !.held = x, !.snap = [v |-> x.v, tgt |-> x.tgt, scope |-> s, seq |-> n]]

LEMMA AdoptFenced ==
    ASSUME NEW r \in States, Fenced(r), NEW s \in Scopes, NEW n \in Nat,
           n > r.settled[s], s \notin r.closed, NEW x \in Records, x.scope = s
    PROVE  /\ Adoption(r, s, n, x) \in States /\ Fenced(Adoption(r, s, n, x))
           /\ Adoption(r, s, n, x).seq = r.seq
<1> DEFINE snap == [v |-> x.v, tgt |-> x.tgt, scope |-> s, seq |-> n]
           r1 == [r EXCEPT !.held = x]
           c == Adoption(r, s, n, x)
<1>1. c = [r1 EXCEPT !.snap = snap]
  BY DEF States, Adoption
<1>2. /\ snap \in [v : Nat, tgt : Targets, scope : Scopes, seq : Nat]
      /\ snap.scope = s /\ snap.seq = n /\ x \in MaybeRecord
  BY RecordFields DEF MaybeRecord
<1>3. /\ c.seq = r.seq /\ c.closed = r.closed /\ c.snap = snap /\ c.held = x
      /\ c.cleared = r.cleared /\ c.settled = r.settled /\ c.failed = r.failed
  BY DEF States, Adoption
<1>4. c \in States
  <2> HIDE DEF snap, c
  <2>1. r1 \in States
    BY <1>2, StateUpdates
  <2> HIDE DEF r1
  <2> QED
    BY <1>1, <1>2, <2>1, StateUpdates
<1> HIDE DEF snap, c
<1>5. \A t \in Scopes : r.failed[t] \in Int /\ r.settled[t] \in Nat
  BY StateFields
<1>6. Fenced(c)
  BY <1>2, <1>3, <1>5 DEF Fenced
<1>7. c \in States /\ Fenced(c) /\ c.seq = r.seq
  BY <1>3, <1>4, <1>6
<1> QED
  BY <1>7 DEF c

LEMMA AdoptedState ==
    ASSUME ConfigInv, NEW f \in Fetches, NEW s \in Scopes, NEW x \in MaybeRecord,
           x # None => x.scope = s, slot[f].seq \in Nat
    PROVE  \E c \in States : /\ Adopted(f, s, x) = [rc EXCEPT ![ProcOf[f]] = c]
                             /\ Fenced(c) /\ c.seq = rc[ProcOf[f]].seq
<1> DEFINE p == ProcOf[f]
           c == Adoption(rc[p], s, slot[f].seq, x)
<1>1. p \in Procs /\ rc[p] \in States /\ Fenced(rc[p]) /\ rc \in [Procs -> States]
  BY SlotFields DEF ConfigInv, TypeOK, FenceInv
<1>2. CASE ~Adopts(f, s, x)
  BY <1>1, <1>2 DEF Adopted
<1>3. CASE Adopts(f, s, x)
  <2>1. /\ x \in Records /\ x.scope = s
        /\ slot[f].seq > rc[p].settled[s] /\ s \notin rc[p].closed
    BY <1>3 DEF Adopts, MaybeRecord
  <2>2. c \in States /\ Fenced(c) /\ c.seq = rc[p].seq
    BY <1>1, <2>1, AdoptFenced
  <2>3. Adopted(f, s, x) = [rc EXCEPT ![p] = c]
    BY <1>1, <1>3 DEF Adopted, Adoption
  <2> HIDE DEF c
  <2> QED
    BY <2>2, <2>3
<1> QED
  BY <1>2, <1>3

-----------------------------------------------------------------------------
(* The inductive invariant.                                                *)

\* A step of one fetch: its slot becomes x, the state of its process r.
LEMMA FetchStep ==
    ASSUME ConfigInv, NEW f \in Fetches, NEW r \in States, NEW x \in Slots,
           rc' = [rc EXCEPT ![ProcOf[f]] = r], slot' = [slot EXCEPT ![f] = x],
           Fenced(r), r.seq >= rc[ProcOf[f]].seq, Tracked(x, r.seq),
           granted' = granted, server' = server, file' \in MaybeRecord,
           used' \in [fetches : Nat, turns : Nat], spoiled' \in BOOLEAN
    PROVE  ConfigInv'
<1> DEFINE p == ProcOf[f]
<1>1. p \in Procs /\ rc \in [Procs -> States] /\ slot \in [Fetches -> Slots]
  BY SlotFields DEF ConfigInv, TypeOK
<1>2. TypeOK'
  BY <1>1 DEF ConfigInv, TypeOK
<1>3. \A q \in Procs : Fenced(rc'[q])
  BY <1>1 DEF ConfigInv, FenceInv
<1>4. \A g \in Fetches : Tracked(slot'[g], rc'[ProcOf[g]].seq)
  <2> SUFFICES ASSUME NEW g \in Fetches PROVE Tracked(slot'[g], rc'[ProcOf[g]].seq)
    OBVIOUS
  <2>1. CASE g = f
    BY <1>1, <2>1
  <2>2. CASE g # f
    <3>1. slot'[g] = slot[g] /\ slot[g] \in Slots /\ ProcOf[g] \in Procs
      BY <1>1, <2>2, SlotFields DEF ConfigInv
    <3>2. rc'[ProcOf[g]].seq >= rc[ProcOf[g]].seq
      BY <1>1, <3>1, StateFields
    <3>3. slot[g].pc \in {"begun", "sent", "answered"} => slot[g].seq \in Nat
      BY SlotFields DEF ConfigInv, BegunSlots, SentSlots, AnsweredSlots
    <3>4. rc'[ProcOf[g]].seq \in Nat /\ rc[ProcOf[g]].seq \in Nat
      BY <1>1, <3>1, StateFields
    <3> QED
      BY <3>1, <3>2, <3>3, <3>4 DEF ConfigInv, FenceInv, Tracked
  <2> QED
    BY <2>1, <2>2
<1> QED
  BY <1>2, <1>3, <1>4 DEF ConfigInv, FenceInv

\* A fetch ends, and its process keeps its state.
LEMMA FetchEnds ==
    ASSUME ConfigInv, NEW f \in Fetches, slot' = [slot EXCEPT ![f] = Idle],
           UNCHANGED <<rc, granted, server>>, file' \in MaybeRecord,
           used' \in [fetches : Nat, turns : Nat], spoiled' \in BOOLEAN
    PROVE  ConfigInv'
<1>1. /\ ProcOf[f] \in Procs /\ rc[ProcOf[f]] \in States /\ Fenced(rc[ProcOf[f]])
      /\ rc \in [Procs -> States]
  BY SlotFields DEF ConfigInv, TypeOK, FenceInv
<1>2. rc' = [rc EXCEPT ![ProcOf[f]] = rc[ProcOf[f]]]
  BY <1>1
<1>3. Tracked(Idle, rc[ProcOf[f]].seq)
  BY DEF Tracked, Idle
<1>4. rc[ProcOf[f]].seq >= rc[ProcOf[f]].seq
  BY <1>1, StateFields
<1> QED
  BY <1>1, <1>2, <1>3, <1>4, RestSlot, FetchStep

LEMMA BeginKeeps ==
    ASSUME ConfigInv, NEW f \in Fetches, Begin(f)
    PROVE  ConfigInv'
<1> DEFINE p == ProcOf[f]
           r == [rc[p] EXCEPT !.seq = rc[p].seq + 1]
           caches == [s \in Scopes |-> loadCache(p, s)]
           x == [pc |-> "begun", seq |-> rc[p].seq + 1, caches |-> caches]
<1>1. /\ p \in Procs /\ rc[p] \in States /\ Fenced(rc[p]) /\ rc \in [Procs -> States]
      /\ rc[p].seq \in Nat /\ rc[p].settled \in [Scopes -> Nat]
  BY SlotFields, StateFields DEF ConfigInv, TypeOK, FenceInv
<1>2. r \in States /\ r.seq = rc[p].seq + 1
  <2>1. rc[p].seq + 1 \in Nat
    BY <1>1
  <2>2. r \in States
    BY <1>1, <2>1, StateUpdates
  <2>3. r.seq = rc[p].seq + 1
    BY <1>1 DEF States
  <2> QED
    BY <2>2, <2>3
<1>3. Fenced(r)
  <2>1. /\ r.settled = rc[p].settled /\ r.failed = rc[p].failed /\ r.closed = rc[p].closed
        /\ r.snap = rc[p].snap /\ r.cleared = rc[p].cleared /\ r.held = rc[p].held
    BY <1>1 DEF States
  <2> QED
    BY <1>1, <1>2, <2>1 DEF Fenced
<1>4. x \in Slots /\ Tracked(x, r.seq)
  <2>1. \A s \in Scopes : /\ loadCache(p, s) \in MaybeRecord
                          /\ loadCache(p, s) # None => loadCache(p, s).scope = s
    BY <1>1, KnownRecords DEF ConfigInv
  <2>2. \A s \in Scopes : caches[s] = loadCache(p, s)
    BY Zenon
  <2>3. caches = [s \in Scopes |-> caches[s]]
    BY Zenon
  <2> HIDE DEF caches
  <2>4. caches \in [Scopes -> MaybeRecord]
    BY <2>1, <2>2, <2>3
  <2>5. x.pc = "begun" /\ x.seq = r.seq /\ x.caches = caches
    BY <1>2
  <2>6. x \in BegunSlots
    BY <1>1, <2>4 DEF BegunSlots
  <2>7. r.seq \in Nat
    BY <1>1, <1>2
  <2> HIDE DEF x, r
  <2> QED
    BY <2>1, <2>2, <2>5, <2>6, <2>7 DEF Slots, Tracked
<1>5. rc' = [rc EXCEPT ![p] = r] /\ slot' = [slot EXCEPT ![f] = x]
  BY <1>1 DEF Begin
<1>6. /\ granted' = granted /\ server' = server /\ file' \in MaybeRecord
      /\ used' \in [fetches : Nat, turns : Nat] /\ spoiled' \in BOOLEAN
  BY DEF Begin, ConfigInv, TypeOK
<1>7. r.seq >= rc[p].seq
  BY <1>1, <1>2
<1> HIDE DEF r, x
<1> QED
  BY <1>2, <1>3, <1>4, <1>5, <1>6, <1>7, FetchStep

LEMMA DispatchKeeps ==
    ASSUME ConfigInv, NEW f \in Fetches, NEW want \in Targets, Dispatch(f, want)
    PROVE  ConfigInv'
<1> DEFINE p == ProcOf[f]
           s == Scope(p)
           sig == IF granted[p] THEN want ELSE NoTarget
           cache == slot[f].caches[s]
           x == [pc |-> "sent", seq |-> slot[f].seq, scope |-> s, sig |-> sig,
                 cache |-> cache, cond |-> Validator(cache, sig)]
<1>1. /\ p \in Procs /\ rc[p] \in States /\ Fenced(rc[p]) /\ rc \in [Procs -> States]
      /\ slot[f] \in BegunSlots /\ s \in Scopes /\ slot[f].pc = "begun"
  BY SlotFields, ScopeType DEF ConfigInv, TypeOK, FenceInv, Dispatch
<1>2. /\ slot[f].seq \in Nat /\ cache \in MaybeRecord
      /\ cache # None => cache.scope = s
      /\ slot[f].seq <= rc[p].seq
  BY <1>1 DEF BegunSlots, ConfigInv, FenceInv, Tracked
<1>3. /\ granted' = granted /\ server' = server /\ file' \in MaybeRecord
      /\ used' \in [fetches : Nat, turns : Nat] /\ spoiled' \in BOOLEAN
  BY DEF Dispatch, ConfigInv, TypeOK
<1>4. CASE s \notin rc[p].window
  <2>1. sig \in Targets
    BY Bounds
  <2>2. Validator(cache, sig) \in BOOLEAN
    BY DEF Validator
  <2>3. x \in SentSlots
    <3> HIDE DEF s, sig, cache
    <3> QED
      BY <1>1, <1>2, <2>1, <2>2 DEF SentSlots
  <2>4. x \in Slots /\ Tracked(x, rc[p].seq)
    BY <1>2, <2>3 DEF Slots, Tracked
  <2>5. slot' = [slot EXCEPT ![f] = x] /\ rc' = rc
    BY <1>4 DEF Dispatch
  <2>6. rc' = [rc EXCEPT ![p] = rc[p]] /\ rc[p].seq >= rc[p].seq
    BY <1>1, <2>5, StateFields
  <2> HIDE DEF x
  <2> QED
    BY <1>1, <1>3, <2>4, <2>5, <2>6, FetchStep
<1>5. CASE s \in rc[p].window
  <2>1. slot' = [slot EXCEPT ![f] = Idle] /\ rc' = Adopted(f, s, cache)
    BY <1>5 DEF Dispatch
  <2>2. PICK c \in States : /\ Adopted(f, s, cache) = [rc EXCEPT ![p] = c]
                            /\ Fenced(c) /\ c.seq = rc[p].seq
    BY <1>1, <1>2, AdoptedState
  <2>3. Tracked(Idle, c.seq) /\ c.seq >= rc[p].seq
    BY <1>1, <2>2, StateFields DEF Tracked, Idle
  <2> QED
    BY <1>3, <2>1, <2>2, <2>3, RestSlot, FetchStep
<1> QED
  BY <1>4, <1>5

LEMMA AnswerKeeps ==
    ASSUME ConfigInv, NEW f \in Fetches, Answer(f)
    PROVE  ConfigInv'
<1> DEFINE p == ProcOf[f]
           Kinds == {"failed", "refused", "absent", "same", "fresh"}
<1>1. /\ p \in Procs /\ rc[p] \in States /\ Fenced(rc[p]) /\ rc \in [Procs -> States]
      /\ slot[f] \in SentSlots /\ slot[f].pc = "sent" /\ server.v \in Nat
      /\ server.mode \in {"up", "revoked", "unpublished"}
  BY SlotFields DEF ConfigInv, TypeOK, FenceInv, Answer
<1>2. PICK kind \in Kinds : /\ Answered(f, kind)
                            /\ kind = "same" => slot[f].cond
  BY <1>1 DEF Answer
<1> DEFINE x == [pc |-> "answered", seq |-> slot[f].seq, scope |-> slot[f].scope,
                 sig |-> slot[f].sig, cache |-> slot[f].cache, kind |-> kind, v |-> server.v,
                 tgt |-> IF kind = "same" THEN slot[f].cache.tgt ELSE slot[f].sig]
<1>3. /\ slot[f].seq \in Nat /\ slot[f].scope \in Scopes /\ slot[f].sig \in Targets
      /\ slot[f].cache \in MaybeRecord
      /\ slot[f].cond => Validator(slot[f].cache, slot[f].sig)
  BY <1>1 DEF SentSlots
<1>4. kind = "same" => slot[f].cache.tgt = slot[f].sig
  BY <1>2, <1>3, RecordFields DEF Validator, MaybeRecord
<1>5. x \in AnsweredSlots
  BY <1>1, <1>3, <1>4 DEF AnsweredSlots
<1>6. Tracked(slot[f], rc[p].seq)
  BY DEF ConfigInv, FenceInv
<1>7. x \in Slots /\ Tracked(x, rc[p].seq)
  BY <1>1, <1>5, <1>6 DEF Slots, Tracked
<1>8. slot' = [slot EXCEPT ![f] = x]
  BY <1>2 DEF Answered
<1>9. rc' = [rc EXCEPT ![p] = rc[p]] /\ rc[p].seq >= rc[p].seq
  BY <1>1, StateFields DEF Answer
<1>10. /\ granted' = granted /\ server' = server /\ file' \in MaybeRecord
       /\ used' \in [fetches : Nat, turns : Nat] /\ spoiled' \in BOOLEAN
  BY DEF Answer, ConfigInv, TypeOK
<1> HIDE DEF x
<1> QED
  BY <1>1, <1>7, <1>8, <1>9, <1>10, FetchStep

\* What a settlement knows: it is of the scope in force, and its number lies
\* between the last settled one and the last given one.
LEMMA SettlingFacts ==
    ASSUME ConfigInv, NEW f \in Fetches, Settling(f), Applies(f)
    PROVE  /\ ProcOf[f] \in Procs /\ rc \in [Procs -> States]
           /\ rc[ProcOf[f]] \in States /\ Fenced(rc[ProcOf[f]])
           /\ slot[f].scope \in Scopes /\ slot[f].seq \in Nat
           /\ slot[f].seq > rc[ProcOf[f]].settled[slot[f].scope]
           /\ slot[f].seq <= rc[ProcOf[f]].seq
           /\ slot[f].sig \in Targets /\ slot[f].v \in Nat /\ slot[f].tgt = slot[f].sig
           /\ slot[f].cache \in MaybeRecord
           /\ slot[f].cache # None => slot[f].cache.scope = slot[f].scope
           /\ Served(f) \in MaybeRecord
<1>1. slot[f].pc = "answered"
  BY DEF Settling
<1>2. slot[f] \in AnsweredSlots /\ Tracked(slot[f], rc[ProcOf[f]].seq)
  BY <1>1, SlotFields DEF ConfigInv, FenceInv
<1>3. /\ ProcOf[f] \in Procs /\ rc \in [Procs -> States]
      /\ rc[ProcOf[f]] \in States /\ Fenced(rc[ProcOf[f]])
  BY SlotFields DEF ConfigInv, FenceInv, TypeOK
<1>4. Served(f) \in MaybeRecord
  BY <1>1, ServedRecord DEF ConfigInv
<1>5. slot[f].seq > rc[ProcOf[f]].settled[slot[f].scope]
  BY DEF Applies
<1>6. /\ slot[f].scope \in Scopes /\ slot[f].seq \in Nat /\ slot[f].sig \in Targets
      /\ slot[f].v \in Nat /\ slot[f].tgt = slot[f].sig /\ slot[f].cache \in MaybeRecord
  BY <1>2 DEF AnsweredSlots
<1>7. /\ slot[f].seq <= rc[ProcOf[f]].seq
      /\ slot[f].cache # None => slot[f].cache.scope = slot[f].scope
  BY <1>1, <1>2 DEF Tracked
<1> QED
  BY <1>3, <1>4, <1>5, <1>6, <1>7

\* The end of a settlement that makes r of the state of its process.
LEMMA Settles ==
    ASSUME ConfigInv, NEW f \in Fetches, NEW r \in States,
           rc' = [rc EXCEPT ![ProcOf[f]] = r], slot' = [slot EXCEPT ![f] = Idle],
           Fenced(r), r.seq = rc[ProcOf[f]].seq,
           granted' = granted, server' = server, file' \in MaybeRecord,
           used' \in [fetches : Nat, turns : Nat], spoiled' \in BOOLEAN
    PROVE  ConfigInv'
<1>1. r.seq >= rc[ProcOf[f]].seq
  BY StateFields
<1>2. Tracked(Idle, r.seq)
  BY DEF Tracked, Idle
<1> QED
  BY <1>1, <1>2, RestSlot, FetchStep

LEMMA SettleTransientKeeps ==
    ASSUME ConfigInv, NEW f \in Fetches, NEW hint \in BOOLEAN, SettleTransient(f, hint)
    PROVE  ConfigInv'
<1> DEFINE p == ProcOf[f]
           s == slot[f].scope
<1>1. Settling(f) /\ Applies(f)
  BY DEF SettleTransient
<1>2. PICK c \in States : /\ Adopted(f, s, slot[f].cache) = [rc EXCEPT ![p] = c]
                          /\ Fenced(c) /\ c.seq = rc[p].seq
  <2>1. /\ s \in Scopes /\ slot[f].cache \in MaybeRecord /\ slot[f].seq \in Nat
        /\ slot[f].cache # None => slot[f].cache.scope = s
    BY <1>1, SettlingFacts
  <2> QED
    BY <2>1, AdoptedState
<1>3. PICK w \in SUBSET Scopes : rc' = [[rc EXCEPT ![p] = c] EXCEPT ![p].window = w]
  <2>1. c.window \in SUBSET Scopes /\ c.window \union {s} \in SUBSET Scopes
    BY <1>1, SettlingFacts, StateFields
  <2>2. rc' = [[rc EXCEPT ![p] = c] EXCEPT ![p].window =
                  IF hint THEN c.window \union {s} ELSE c.window]
    BY <1>1, <1>2, SettlingFacts DEF SettleTransient
  <2> QED
    BY <2>1, <2>2
<1> DEFINE r == [c EXCEPT !.window = w]
<1>4. rc' = [rc EXCEPT ![p] = r]
  BY <1>1, <1>3, SettlingFacts
<1>5. r \in States
  BY StateUpdates
<1>6. /\ r.settled = c.settled /\ r.failed = c.failed /\ r.closed = c.closed
      /\ r.snap = c.snap /\ r.cleared = c.cleared /\ r.held = c.held /\ r.seq = c.seq
  BY DEF States
<1>7. Fenced(r)
  BY <1>2, <1>6 DEF Fenced
<1>8. /\ granted' = granted /\ server' = server /\ file' \in MaybeRecord
      /\ used' \in [fetches : Nat, turns : Nat] /\ spoiled' \in BOOLEAN
      /\ slot' = [slot EXCEPT ![f] = Idle]
  BY DEF SettleTransient, ConfigInv, TypeOK
<1> HIDE DEF r
<1> QED
  BY <1>2, <1>4, <1>5, <1>6, <1>7, <1>8, Settles

LEMMA SettleRefusedKeeps ==
    ASSUME ConfigInv, NEW f \in Fetches, SettleRefused(f)
    PROVE  ConfigInv'
<1> DEFINE r == Shut(rc[ProcOf[f]], slot[f].scope, slot[f].seq)
<1>1. r \in States /\ Fenced(r) /\ r.seq = rc[ProcOf[f]].seq
  BY SettlingFacts, ShutFenced DEF SettleRefused
<1>2. /\ rc' = [rc EXCEPT ![ProcOf[f]] = r] /\ slot' = [slot EXCEPT ![f] = Idle]
      /\ granted' = granted /\ server' = server /\ file' \in MaybeRecord
      /\ used' \in [fetches : Nat, turns : Nat] /\ spoiled' \in BOOLEAN
  BY DEF SettleRefused, ConfigInv, TypeOK
<1> HIDE DEF r
<1> QED
  BY <1>1, <1>2, Settles

LEMMA SettleAbsentKeeps ==
    ASSUME ConfigInv, NEW f \in Fetches, SettleAbsent(f)
    PROVE  ConfigInv'
<1> DEFINE p == ProcOf[f]
           s == slot[f].scope
           h == HeldAfterClear(p, s)
           r == Clearing(rc[p], s, slot[f].seq, h, Served(f))
<1>1. Settling(f) /\ Applies(f)
  BY DEF SettleAbsent
<1>2. /\ p \in Procs /\ rc[p] \in States /\ Fenced(rc[p]) /\ s \in Scopes
      /\ slot[f].seq \in Nat /\ slot[f].seq > rc[p].settled[s] /\ slot[f].seq <= rc[p].seq
      /\ Served(f) \in MaybeRecord
  BY <1>1, SettlingFacts
<1>3. h \in MaybeRecord /\ (h # None => h = rc[p].held /\ h.scope # s)
  BY <1>2, StateFields DEF HeldAfterClear, Held, MaybeRecord
<1>4. r \in States /\ Fenced(r) /\ r.seq = rc[p].seq
  BY <1>2, <1>3, ClearFenced
<1>5. rc' = [rc EXCEPT ![p] = r] /\ slot' = [slot EXCEPT ![f] = Idle]
  BY DEF SettleAbsent, Clearing
<1>6. granted' = granted /\ server' = server
  BY DEF SettleAbsent
<1>7. file' \in MaybeRecord /\ used' \in [fetches : Nat, turns : Nat] /\ spoiled' \in BOOLEAN
  <2>1. /\ file \in MaybeRecord /\ None \in MaybeRecord /\ spoiled \in BOOLEAN
        /\ used \in [fetches : Nat, turns : Nat]
        /\ [used EXCEPT !.turns = @ + 1] \in [fetches : Nat, turns : Nat]
    BY DEF ConfigInv, TypeOK, MaybeRecord
  <2> QED
    BY <2>1 DEF SettleAbsent
<1> HIDE DEF r
<1> QED
  BY <1>4, <1>5, <1>6, <1>7, Settles

LEMMA SettleOvertakenKeeps ==
    ASSUME ConfigInv, NEW f \in Fetches, SettleOvertaken(f)
    PROVE  ConfigInv'
<1> DEFINE p == ProcOf[f]
           s == slot[f].scope
           set == [rc[p].settled EXCEPT ![s] = slot[f].seq]
           r == [rc[p] EXCEPT !.settled = set]
<1>1. /\ p \in Procs /\ rc[p] \in States /\ Fenced(rc[p]) /\ s \in Scopes
      /\ slot[f].seq \in Nat /\ slot[f].seq > rc[p].settled[s] /\ slot[f].seq <= rc[p].seq
      /\ rc \in [Procs -> States]
  BY SettlingFacts DEF SettleOvertaken
<1>2. rc[p].settled \in [Scopes -> Nat] /\ rc[p].failed \in [Scopes -> Int]
  BY <1>1, StateFields
<1>3. set \in [Scopes -> Nat]
  BY <1>1, <1>2
<1>4. r \in States
  <2> HIDE DEF set, p
  <2> QED
    BY <1>1, <1>3, StateUpdates
<1>5. /\ r.settled = set /\ r.failed = rc[p].failed /\ r.closed = rc[p].closed
      /\ r.snap = rc[p].snap /\ r.cleared = rc[p].cleared /\ r.held = rc[p].held
      /\ r.seq = rc[p].seq
  BY <1>1 DEF States
<1>6. rc' = [rc EXCEPT ![p] = r] /\ slot' = [slot EXCEPT ![f] = Idle]
  BY <1>1 DEF SettleOvertaken, States
<1>7. \A t \in Scopes : set[t] <= rc[p].seq /\ rc[p].failed[t] <= set[t]
  BY <1>1, <1>2 DEF Fenced
<1>8. Fenced(r)
  <2> HIDE DEF r, set
  <2> QED
    BY <1>1, <1>5, <1>7 DEF Fenced
<1>9. /\ granted' = granted /\ server' = server /\ file' \in MaybeRecord
      /\ used' \in [fetches : Nat, turns : Nat] /\ spoiled' \in BOOLEAN
  BY DEF SettleOvertaken, ConfigInv, TypeOK
<1> HIDE DEF r
<1> QED
  BY <1>4, <1>5, <1>6, <1>8, <1>9, Settles

LEMMA InstallKeeps ==
    ASSUME ConfigInv, NEW f \in Fetches, NEW now \in Clocks, Install(f, now)
    PROVE  ConfigInv'
<1> DEFINE p == ProcOf[f]
           s == slot[f].scope
           rec == [scope |-> s, v |-> slot[f].v, tgt |-> slot[f].tgt, etag |-> TRUE,
                   sig |-> slot[f].sig, at |-> Stamp(now, Superseded(p, s, Served(f)))]
           r == Installation(rc[p], s, slot[f].seq, rec)
           x == [pc |-> "writing", rec |-> rec, served |-> Served(f), read |-> file,
                 fresh |-> slot[f].kind = "fresh"]
<1>1. /\ p \in Procs /\ rc[p] \in States /\ Fenced(rc[p]) /\ s \in Scopes
      /\ slot[f].seq \in Nat /\ slot[f].seq > rc[p].settled[s] /\ slot[f].seq <= rc[p].seq
      /\ slot[f].sig \in Targets /\ slot[f].v \in Nat /\ slot[f].tgt = slot[f].sig
      /\ Served(f) \in MaybeRecord
  BY SettlingFacts DEF Install
<1>2. Stamp(now, Superseded(p, s, Served(f))) \in Nat
  <2>1. now \in Nat /\ Held(p, s) \in MaybeRecord /\ Durable(s) \in MaybeRecord
    BY <1>1, Bounds, KnownRecords DEF ConfigInv
  <2> QED
    BY <1>1, <2>1, StampType DEF Superseded
<1>3. rec \in Records /\ rec.scope = s
  BY <1>1, <1>2 DEF Records
<1>4. rc' = [rc EXCEPT ![p] = r] /\ slot' = [slot EXCEPT ![f] = x]
  BY DEF Install, Installation
<1> HIDE DEF rec
<1>5. r \in States /\ Fenced(r) /\ r.seq = rc[p].seq
  BY <1>1, <1>3, InstallFenced
<1>6. x \in Slots /\ Tracked(x, r.seq)
  <2>1. file \in MaybeRecord
    BY DEF ConfigInv, TypeOK
  <2>2. x \in WritingSlots
    BY <1>1, <1>3, <2>1 DEF WritingSlots
  <2> QED
    BY <2>2 DEF Slots, Tracked
<1>7. /\ granted' = granted /\ server' = server /\ file' \in MaybeRecord
      /\ used' \in [fetches : Nat, turns : Nat] /\ spoiled' \in BOOLEAN
  BY DEF Install, ConfigInv, TypeOK
<1>8. rc[p].seq >= rc[p].seq
  BY <1>1, StateFields
<1> HIDE DEF r, x
<1> QED
  BY <1>4, <1>5, <1>6, <1>7, <1>8, FetchStep

LEMMA WriteKeeps ==
    ASSUME ConfigInv, NEW f \in Fetches,
           WriteOK(f) \/ (\E landed, cleared \in BOOLEAN : WriteFailed(f, landed, cleared))
    PROVE  ConfigInv'
<1>1. slot[f].rec \in Records
  BY SlotFields DEF WriteOK, WriteFailed, WritingSlots, ConfigInv
<1>2. saveDurable(slot[f].rec) \in MaybeRecord /\ None \in MaybeRecord
  BY <1>1, SavedRecord DEF MaybeRecord
<1>3. /\ file \in MaybeRecord /\ spoiled \in BOOLEAN /\ used \in [fetches : Nat, turns : Nat]
      /\ [used EXCEPT !.turns = @ + 1] \in [fetches : Nat, turns : Nat]
  BY DEF ConfigInv, TypeOK
<1>4. CASE WriteOK(f)
  <2>1. file' \in MaybeRecord /\ used' \in [fetches : Nat, turns : Nat] /\ spoiled' \in BOOLEAN
    BY <1>2, <1>3, <1>4 DEF WriteOK, Tramples
  <2> QED
    BY <1>4, <2>1, FetchEnds DEF WriteOK
<1>5. ASSUME NEW landed \in BOOLEAN, NEW cleared \in BOOLEAN, WriteFailed(f, landed, cleared)
      PROVE  ConfigInv'
  <2>1. file' \in MaybeRecord
    BY <1>2, <1>3, <1>5 DEF WriteFailed
  <2>2. used' \in [fetches : Nat, turns : Nat] /\ spoiled' \in BOOLEAN
    BY <1>3, <1>5 DEF WriteFailed
  <2> QED
    BY <1>5, <2>1, <2>2, FetchEnds DEF WriteFailed
<1> QED
  BY <1>4, <1>5

LEMMA WindowEndsKeeps ==
    ASSUME ConfigInv, NEW p \in Procs, NEW s \in Scopes, WindowEnds(p, s)
    PROVE  ConfigInv'
<1> DEFINE w == rc[p].window \ {s}
           r == [rc[p] EXCEPT !.window = w]
<1>1. rc \in [Procs -> States] /\ rc[p] \in States /\ Fenced(rc[p])
  BY DEF ConfigInv, TypeOK, FenceInv
<1>2. w \in SUBSET Scopes
  BY <1>1, StateFields
<1>3. r \in States
  BY <1>1, <1>2, StateUpdates
<1>4. /\ r.settled = rc[p].settled /\ r.failed = rc[p].failed /\ r.closed = rc[p].closed
      /\ r.snap = rc[p].snap /\ r.cleared = rc[p].cleared /\ r.held = rc[p].held
      /\ r.seq = rc[p].seq
  BY <1>1 DEF States
<1>5. rc' = [rc EXCEPT ![p] = r]
  BY <1>1 DEF WindowEnds
<1> HIDE DEF r
<1>6. Fenced(r)
  BY <1>1, <1>4 DEF Fenced
<1>7. TypeOK'
  BY <1>3, <1>5 DEF WindowEnds, ConfigInv, TypeOK
<1>8. \A q \in Procs : Fenced(rc'[q]) /\ rc'[q].seq = rc[q].seq
  BY <1>1, <1>4, <1>5, <1>6 DEF ConfigInv, FenceInv
<1>9. \A g \in Fetches : Tracked(slot'[g], rc'[ProcOf[g]].seq)
  BY <1>8, SlotFields DEF WindowEnds, ConfigInv, FenceInv
<1> QED
  BY <1>7, <1>8, <1>9 DEF ConfigInv, FenceInv

LEMMA RestartKeeps ==
    ASSUME ConfigInv, NEW p \in Procs, Restart(p)
    PROVE  ConfigInv'
<1> DEFINE r == NewState(p)
<1>1. r \in States /\ Fenced(r)
  BY NewStateFenced DEF ConfigInv
<1>2. /\ rc \in [Procs -> States] /\ slot \in [Fetches -> Slots]
      /\ [used EXCEPT !.turns = @ + 1] \in [fetches : Nat, turns : Nat]
  BY DEF ConfigInv, TypeOK
<1>3. rc' = [rc EXCEPT ![p] = r]
  BY DEF Restart
<1> HIDE DEF r
<1>4. \A f \in Fetches : slot'[f] = IF ProcOf[f] = p THEN Idle ELSE slot[f]
  BY DEF Restart
<1>5. TypeOK'
  <2>1. slot' \in [Fetches -> Slots]
    BY <1>2, RestSlot DEF Restart
  <2> QED
    BY <1>1, <1>2, <1>3, <2>1 DEF Restart, ConfigInv, TypeOK
<1>6. \A q \in Procs : Fenced(rc'[q]) /\ (q # p => rc'[q] = rc[q])
  BY <1>1, <1>2, <1>3 DEF ConfigInv, FenceInv
<1>7. \A f \in Fetches : Tracked(slot'[f], rc'[ProcOf[f]].seq)
  <2> SUFFICES ASSUME NEW f \in Fetches PROVE Tracked(slot'[f], rc'[ProcOf[f]].seq)
    OBVIOUS
  <2>1. CASE ProcOf[f] = p
    BY <1>4, <2>1, RestSlot DEF Tracked
  <2>2. CASE ProcOf[f] # p
    BY <1>4, <1>6, <2>2, SlotFields DEF ConfigInv, FenceInv
  <2> QED
    BY <2>1, <2>2
<1> QED
  BY <1>5, <1>6, <1>7 DEF ConfigInv, FenceInv

\* The steps of the service and of the host that touch no fetch.
LEMMA OutsideKeeps ==
    ASSUME ConfigInv,
           \/ Publish
           \/ \E mode \in {"up", "revoked", "unpublished"} : ChangeMode(mode)
           \/ \E p \in Procs : SetConsent(p)
    PROVE  ConfigInv'
<1>1. /\ granted' \in [Procs -> BOOLEAN] /\ UNCHANGED <<rc, file, slot, spoiled>>
      /\ server' \in [v : Nat, mode : {"up", "revoked", "unpublished"}]
      /\ used' \in [fetches : Nat, turns : Nat]
  <2>1. CASE Publish
    BY <2>1 DEF Publish, ConfigInv, TypeOK
  <2>2. CASE \E mode \in {"up", "revoked", "unpublished"} : ChangeMode(mode)
    BY <2>2 DEF ChangeMode, ConfigInv, TypeOK
  <2>3. CASE \E p \in Procs : SetConsent(p)
    <3>1. granted' \in [Procs -> BOOLEAN]
      BY <2>3, Zenon DEF SetConsent, ConfigInv, TypeOK
    <3> QED
      BY <2>3, <3>1 DEF SetConsent, ConfigInv, TypeOK
  <2> QED
    BY <2>1, <2>2, <2>3
<1>2. TypeOK'
  BY <1>1 DEF ConfigInv, TypeOK
<1> QED
  BY <1>1, <1>2 DEF ConfigInv, FenceInv

LEMMA ConfigInit == Init => ConfigInv
<1> SUFFICES ASSUME Init PROVE ConfigInv
  OBVIOUS
<1> DEFINE blank == [s \in Scopes |-> [on |-> FALSE, rec |-> None]]
<1>1. \A p \in Procs : NewState(p) = [held |-> None, snap |-> None, seq |-> 0,
         settled |-> [s \in Scopes |-> 0], closed |-> {}, cleared |-> blank,
         window |-> {}, failed |-> [s \in Scopes |-> -1]]
  BY DEF Init, NewState, Durable
<1>2. \A p \in Procs : NewState(p) \in States /\ Fenced(NewState(p))
  <2>1. blank \in [Scopes -> [on : BOOLEAN, rec : MaybeRecord]] /\ None \in MaybeRecord
    BY DEF MaybeRecord
  <2>2. \A s \in Scopes : ~blank[s].on
    OBVIOUS
  <2> HIDE DEF blank
  <2>3. \A p \in Procs : NewState(p) \in States
    BY <1>1, <2>1 DEF States
  <2>4. \A p \in Procs : Fenced(NewState(p))
    BY <1>1, <2>2 DEF Fenced
  <2> QED
    BY <2>3, <2>4
<1>3. rc \in [Procs -> States] /\ \A p \in Procs : Fenced(rc[p])
  BY <1>2 DEF Init
<1>4. /\ granted \in [Procs -> BOOLEAN] /\ file \in MaybeRecord /\ slot \in [Fetches -> Slots]
      /\ server \in [v : Nat, mode : {"up", "revoked", "unpublished"}]
      /\ used \in [fetches : Nat, turns : Nat] /\ spoiled \in BOOLEAN
  BY RestSlot DEF Init, MaybeRecord
<1>5. \A f \in Fetches : Tracked(slot[f], rc[ProcOf[f]].seq)
  BY RestSlot DEF Init, Tracked
<1> QED
  BY <1>3, <1>4, <1>5 DEF ConfigInv, TypeOK, FenceInv

LEMMA ConfigNext == ConfigInv /\ [Next]_vars => ConfigInv'
<1> SUFFICES ASSUME ConfigInv, [Next]_vars PROVE ConfigInv'
  OBVIOUS
<1>1. CASE \/ Publish
           \/ \E mode \in {"up", "revoked", "unpublished"} : ChangeMode(mode)
           \/ \E p \in Procs : SetConsent(p)
  BY <1>1, OutsideKeeps
<1>2. CASE \E p \in Procs : Restart(p)
  BY <1>2, RestartKeeps
<1>3. CASE \E p \in Procs, s \in Scopes : WindowEnds(p, s)
  BY <1>3, WindowEndsKeeps
<1>4. ASSUME NEW f \in Fetches, Begin(f) PROVE ConfigInv'
  BY <1>4, BeginKeeps
<1>5. ASSUME NEW f \in Fetches, Abandon(f) \/ SettleIgnored(f) PROVE ConfigInv'
  <2>1. /\ slot' = [slot EXCEPT ![f] = Idle] /\ UNCHANGED <<rc, granted, server>>
        /\ file' \in MaybeRecord /\ used' \in [fetches : Nat, turns : Nat]
        /\ spoiled' \in BOOLEAN
    BY <1>5 DEF Abandon, SettleIgnored, ConfigInv, TypeOK
  <2> QED
    BY <2>1, FetchEnds
<1>6. ASSUME NEW f \in Fetches, Answer(f) PROVE ConfigInv'
  BY <1>6, AnswerKeeps
<1>7. ASSUME NEW f \in Fetches, NEW want \in Targets, Dispatch(f, want) PROVE ConfigInv'
  BY <1>7, DispatchKeeps
<1>8. ASSUME NEW f \in Fetches, NEW hint \in BOOLEAN, SettleTransient(f, hint) PROVE ConfigInv'
  BY <1>8, SettleTransientKeeps
<1>9. ASSUME NEW f \in Fetches, SettleRefused(f) PROVE ConfigInv'
  BY <1>9, SettleRefusedKeeps
<1>10. ASSUME NEW f \in Fetches, SettleAbsent(f) PROVE ConfigInv'
  BY <1>10, SettleAbsentKeeps
<1>11. ASSUME NEW f \in Fetches, SettleOvertaken(f) PROVE ConfigInv'
  BY <1>11, SettleOvertakenKeeps
<1>12. ASSUME NEW f \in Fetches, NEW now \in Clocks, Install(f, now) PROVE ConfigInv'
  BY <1>12, InstallKeeps
<1>13. ASSUME NEW f \in Fetches, WriteOK(f) \/ (\E landed, cleared \in BOOLEAN : WriteFailed(f, landed, cleared))
       PROVE  ConfigInv'
  BY <1>13, WriteKeeps
<1>14. CASE UNCHANGED vars
  BY <1>14 DEF vars, ConfigInv, TypeOK, FenceInv
<1> QED
  BY <1>1, <1>2, <1>3, <1>4, <1>5, <1>6, <1>7, <1>8, <1>9, <1>10, <1>11, <1>12, <1>13, <1>14
     DEF Next

LEMMA ConfigAlways == Spec => []ConfigInv
BY ConfigInit, ConfigNext, PTL DEF Spec

-----------------------------------------------------------------------------
(* The theorems.                                                           *)

\* The state of every process, the cache file and every fetch keep their
\* shape, whatever the processes, fetches, targets and clock readings; in
\* every record whose ETag is known the body belongs to the signature.
THEOREM TypeCorrect == Spec => []TypeOK
<1>1. ConfigInv => TypeOK
  BY DEF ConfigInv
<1> QED
  BY <1>1, ConfigAlways, PTL

\* settleRemoteConfigLocked fails closed for any number of overlapping
\* fetches and of processes that share the file: once a fetch was refused or
\* found the scope unpublished, only a fetch begun later shows values of it.
THEOREM FailClosed == Spec => []RevokedStaysClosed
<1>1. ConfigInv => RevokedStaysClosed
  <2> SUFFICES ASSUME ConfigInv, NEW p \in Procs,
                      Shown(p) # None, Shown(p).scope = Scope(p)
               PROVE  Shown(p).seq > rc[p].failed[Scope(p)]
    BY DEF RevokedStaysClosed
  <2>1. Shown(p) = rc[p].snap /\ Scope(p) \notin rc[p].closed
    BY DEF Shown
  <2>2. Fenced(rc[p]) /\ Scope(p) \in Scopes
    BY ScopeType DEF ConfigInv, FenceInv
  <2> QED
    BY <2>1, <2>2 DEF Fenced
<1> QED
  BY <1>1, ConfigAlways, PTL

\* A 304 confirms a body made for the attributes of its own request, for any
\* set of targets, through any sequence of saves, restarts and cleared
\* publications.
THEOREM RevalidatesOwnTarget == Spec => []TargetNotMixed
<1>1. ConfigInv => TargetNotMixed
  BY SlotFields DEF ConfigInv, TargetNotMixed, AnsweredSlots
<1> QED
  BY <1>1, ConfigAlways, PTL

-----------------------------------------------------------------------------
(* No rollback of the getters.                                             *)

\* r is a fallback record of the fetch x.
Captured(x, r) ==
    \/ x.pc = "begun" /\ \E s \in Scopes : r = x.caches[s]
    \/ x.pc \in {"sent", "answered"} /\ r = x.cache

\* The records a process can still make use of, and those among them that do
\* not depend on a write under way.
Knows(p, r) ==
    \/ r = rc[p].held
    \/ \E s \in Scopes : r = rc[p].cleared[s].rec
    \/ \E f \in Fetches : ProcOf[f] = p /\ Captured(slot[f], r)

Keeps(p, r) ==
    \/ Free(p) /\ r = rc[p].held
    \/ \E s \in Scopes : r = rc[p].cleared[s].rec
    \/ \E f \in Fetches : ProcOf[f] = p /\ Captured(slot[f], r)

\* A stamp that is no later belongs to a version that is no later.
Agree(r, q) == r.at <= q.at => r.v <= q.v

\* r was once the content of the file.
Past(r) ==
    /\ file # None /\ r.scope = file.scope /\ r.at <= file.at
    /\ Agree(r, file) /\ Agree(file, r)

Writing(f) == slot[f].pc = "writing"

\* As long as nothing spoiled the file, every record a process goes back to is
\* an earlier content of it, and a write that finds the file as it was read
\* advances it.
PastInv ==
    ~spoiled => \A p \in Procs : \A r, q \in Records :
                   Keeps(p, r) /\ Keeps(p, q) => Past(r) /\ Agree(r, q)
AdvanceInv ==
    ~spoiled => \A f \in Fetches : Writing(f) =>
       /\ slot[f].read # None => file # None /\ slot[f].read.at <= file.at
       /\ (slot[f].read = file /\ file # None /\ file.scope = slot[f].rec.scope) =>
             file.at < slot[f].rec.at /\ file.v <= slot[f].rec.v

\* A process writes one record at a time, the one it holds.
WriterInv ==
    \A f \in Fetches : Writing(f) =>
       /\ slot[f].rec = rc[ProcOf[f]].held /\ rc[ProcOf[f]].seq > 0
       /\ \A g \in Fetches : Writing(g) /\ ProcOf[g] = ProcOf[f] => g = f

\* The getters show the held record.
SnapFits(r) ==
    r.snap # None => r.held # None /\ r.held.scope = r.snap.scope /\ r.held.v = r.snap.v

\* No version is ahead of the service, and an answer is no older than a record
\* that was captured when its fetch began or before.
VersionInv ==
    /\ file # None => file.v <= server.v
    /\ \A p \in Procs, r \in Records : Knows(p, r) => r.v <= server.v
AnswerInv ==
    \A f \in Fetches : slot[f].pc = "answered" =>
       /\ slot[f].v <= server.v
       /\ \A g \in Fetches, r \in Records :
             (ProcOf[g] = ProcOf[f] /\ Captured(slot[g], r) /\ slot[g].seq <= slot[f].seq) =>
                r.v <= slot[f].v
ClearedInv ==
    \A f \in Fetches, r \in Records :
       (/\ slot[f].pc = "answered" /\ r = rc[ProcOf[f]].cleared[slot[f].scope].rec
        /\ slot[f].seq > rc[ProcOf[f]].settled[slot[f].scope]) => r.v <= slot[f].v

RollInv ==
    /\ PastInv /\ AdvanceInv /\ WriterInv /\ \A p \in Procs : SnapFits(rc[p])
    /\ VersionInv /\ AnswerInv /\ ClearedInv

\* A kept record that is fresher than the held one, if that is of its scope.
Onward(p, r) ==
    /\ Keeps(p, r)
    /\ (rc[p].held # None /\ rc[p].held.scope = r.scope) => r.at > rc[p].held.at

\* The getters of p do not turn back in this step, if p goes on and nothing
\* spoils the file.
Forward(p) ==
    (/\ rc'[p].seq >= rc[p].seq /\ rc[p].snap # None /\ rc'[p].snap # None
     /\ rc[p].snap.scope = rc'[p].snap.scope /\ ~spoiled') => rc'[p].snap.v >= rc[p].snap.v

\* What a step other than a write and its beginning may make of the records of
\* its process: r is the new state of the process, x the new fetch.
Careful(f, r, x) ==
    LET p == ProcOf[f]
    IN  /\ x.pc # "writing" /\ slot[f].pc # "writing"
        /\ SnapFits(r) /\ r.seq >= rc[p].seq
        /\ r.held = rc[p].held \/ (Free(p) /\ (r.held = None \/ Onward(p, r.held)))
        /\ \A s \in Scopes :
              /\ r.settled[s] >= rc[p].settled[s]
              /\ \/ r.cleared[s].rec \in {None, rc[p].cleared[s].rec}
                 \/ /\ slot[f].pc = "answered" /\ r.settled[s] = slot[f].seq
                    /\ r.cleared[s].rec = slot[f].cache
        /\ \A q \in Records : Captured(x, q) =>
              \/ Captured(slot[f], q) /\ x.seq = slot[f].seq
              \/ x.pc = "begun" /\ x.seq > rc[p].seq /\ (Keeps(p, q) \/ q = file)
        /\ x.pc = "answered" => x.v = server.v

LEMMA CarefulStep ==
    ASSUME ConfigInv, ConfigInv', RollInv, NEW f \in Fetches, NEW r \in States, NEW x \in Slots,
           rc' = [rc EXCEPT ![ProcOf[f]] = r], slot' = [slot EXCEPT ![f] = x],
           server' = server, file' \in {file, None},
           ~spoiled' => ~spoiled /\ file' = file,
           Careful(f, r, x)
    PROVE  RollInv'
<1> DEFINE p == ProcOf[f]
<1>1. /\ p \in Procs /\ rc \in [Procs -> States] /\ slot \in [Fetches -> Slots]
      /\ None \notin Records /\ ProcOf \in [Fetches -> Procs]
  BY SlotFields, Bounds DEF ConfigInv, TypeOK
<1>2. /\ rc'[p] = r /\ \A q \in Procs : q # p => rc'[q] = rc[q]
      /\ slot'[f] = x /\ \A g \in Fetches : g # f => slot'[g] = slot[g]
  BY <1>1
<1>3. \A g \in Fetches : Writing(g)' = Writing(g) /\ (Writing(g) => g # f)
  BY <1>2 DEF Careful, Writing
<1>4. \A q \in Procs : Free(q)' = Free(q)
  BY <1>3 DEF Free, Writing
<1>5. \A q \in Procs, t \in Records : Knows(q, t)' => Knows(q, t) \/ t = file
  <2> SUFFICES ASSUME NEW q \in Procs, NEW t \in Records, Knows(q, t)'
               PROVE  Knows(q, t) \/ t = file
    OBVIOUS
  <2>1. CASE t = rc'[q].held
    BY <1>1, <1>2, <2>1 DEF Careful, Knows, Keeps, Onward
  <2>2. ASSUME NEW s \in Scopes, t = rc'[q].cleared[s].rec
        PROVE  Knows(q, t)
    BY <1>1, <1>2, <2>2 DEF Careful, Knows, Captured
  <2>3. ASSUME NEW g \in Fetches, ProcOf[g] = q, Captured(slot'[g], t)
        PROVE  Knows(q, t) \/ t = file
    <3>1. CASE g # f
      BY <1>2, <2>3, <3>1 DEF Knows
    <3>2. CASE g = f
      BY <1>2, <2>3, <3>2 DEF Careful, Knows, Keeps, Onward
    <3> QED
      BY <3>1, <3>2
  <2> QED
    BY <2>1, <2>2, <2>3 DEF Knows
<1>6. \A q \in Procs, t \in Records : Keeps(q, t)' => Keeps(q, t) \/ t = file
  <2> SUFFICES ASSUME NEW q \in Procs, NEW t \in Records, Keeps(q, t)'
               PROVE  Keeps(q, t) \/ t = file
    OBVIOUS
  <2>1. CASE Free(q)' /\ t = rc'[q].held
    BY <1>1, <1>2, <1>4, <2>1 DEF Careful, Keeps, Onward
  <2>2. ASSUME NEW s \in Scopes, t = rc'[q].cleared[s].rec
        PROVE  Keeps(q, t)
    BY <1>1, <1>2, <2>2 DEF Careful, Keeps, Captured
  <2>3. ASSUME NEW g \in Fetches, ProcOf[g] = q, Captured(slot'[g], t)
        PROVE  Keeps(q, t) \/ t = file
    <3>1. CASE g # f
      BY <1>2, <2>3, <3>1 DEF Keeps
    <3>2. CASE g = f
      BY <1>2, <2>3, <3>2 DEF Careful, Keeps, Onward
    <3> QED
      BY <3>1, <3>2
  <2> QED
    BY <2>1, <2>2, <2>3 DEF Keeps
<1>7. PastInv'
  <2> SUFFICES ASSUME ~spoiled', NEW q \in Procs, NEW t \in Records, NEW u \in Records,
                      Keeps(q, t)', Keeps(q, u)'
               PROVE  Past(t)' /\ Agree(t, u)'
    BY DEF PastInv
  <2>1. ~spoiled /\ file' = file
    OBVIOUS
  <2>2. (Keeps(q, t) \/ t = file) /\ (Keeps(q, u) \/ u = file)
    BY <1>6
  <2>3. file # None => file.at \in Nat /\ file.v \in Nat
    BY RecordFields DEF ConfigInv, TypeOK, MaybeRecord
  <2>4. t.at \in Nat /\ t.v \in Nat /\ u.at \in Nat /\ u.v \in Nat
    BY RecordFields
  <2>5. \A y, z \in Records : Keeps(q, y) /\ Keeps(q, z) => Past(y) /\ Agree(y, z)
    BY <2>1 DEF RollInv, PastInv
  <2>6. Past(t) /\ Agree(t, u)
    BY <1>1, <2>2, <2>3, <2>4, <2>5 DEF Past, Agree
  <2> QED
    BY <2>1, <2>6 DEF Past, Agree
<1>8. AdvanceInv' /\ WriterInv'
  <2>1. \A g \in Fetches : Writing(g) => slot'[g] = slot[g]
    BY <1>2, <1>3
  <2>2. AdvanceInv'
    BY <1>3, <2>1 DEF RollInv, AdvanceInv, Writing
  <2>3. \A g \in Fetches : Writing(g) => rc'[ProcOf[g]].held = rc[ProcOf[g]].held
    BY <1>1, <1>2 DEF Careful, Free, Writing
  <2>4. \A q \in Procs : rc[q].seq \in Nat /\ rc'[q].seq \in Nat /\ rc'[q].seq >= rc[q].seq
    <3>1. \A q \in Procs : rc[q].seq \in Nat /\ rc'[q].seq \in Nat
      BY StateFields DEF ConfigInv, TypeOK
    <3> QED
      BY <1>2, <3>1 DEF Careful
  <2>5. WriterInv'
    <3> SUFFICES ASSUME NEW g \in Fetches, Writing(g)'
                 PROVE  /\ slot'[g].rec = rc'[ProcOf[g]].held /\ rc'[ProcOf[g]].seq > 0
                        /\ \A h \in Fetches : Writing(h)' /\ ProcOf[h] = ProcOf[g] => h = g
      BY DEF WriterInv
    <3>1. ProcOf[g] \in Procs /\ Writing(g) /\ slot'[g] = slot[g]
      BY <1>1, <1>3, <2>1
    <3>2. /\ slot[g].rec = rc[ProcOf[g]].held /\ rc[ProcOf[g]].seq > 0
          /\ \A h \in Fetches : Writing(h) /\ ProcOf[h] = ProcOf[g] => h = g
      BY <3>1 DEF RollInv, WriterInv
    <3> QED
      BY <1>3, <2>3, <2>4, <3>1, <3>2
  <2> QED
    BY <2>2, <2>5
<1>9. \A q \in Procs : SnapFits(rc'[q])
  BY <1>2 DEF RollInv, Careful
<1>10. VersionInv'
  BY <1>1, <1>5 DEF RollInv, VersionInv, ConfigInv, TypeOK, MaybeRecord
<1>11. AnswerInv'
  <2> SUFFICES ASSUME NEW h \in Fetches, slot'[h].pc = "answered"
               PROVE  /\ slot'[h].v <= server.v
                      /\ \A g \in Fetches, t \in Records :
                            (/\ ProcOf[g] = ProcOf[h] /\ Captured(slot'[g], t)
                             /\ slot'[g].seq <= slot'[h].seq) => t.v <= slot'[h].v
    BY DEF AnswerInv
  <2>1. CASE h = f
    <3>1. slot'[h].v = server.v /\ server.v \in Nat
      BY <1>2, <2>1 DEF Careful, ConfigInv, TypeOK
    <3>2. \A g \in Fetches, t \in Records : Captured(slot'[g], t) => t.v <= server.v
      BY <1>1, <1>10 DEF VersionInv, Knows
    <3> QED
      BY <3>1, <3>2
  <2>2. CASE h # f
    <3>1. slot'[h] = slot[h] /\ slot[h].pc = "answered"
      BY <1>2, <2>2
    <3>2. slot[h].seq \in Nat /\ slot[h].seq <= rc[ProcOf[h]].seq
      BY <3>1, SlotFields DEF ConfigInv, FenceInv, Tracked, AnsweredSlots
    <3> SUFFICES ASSUME NEW g \in Fetches, NEW t \in Records, ProcOf[g] = ProcOf[h],
                        Captured(slot'[g], t), slot'[g].seq <= slot'[h].seq
                 PROVE  t.v <= slot'[h].v
      BY <3>1 DEF RollInv, AnswerInv
    <3>3. CASE g # f
      BY <1>2, <3>1, <3>3 DEF RollInv, AnswerInv
    <3>4. CASE g = f
      <4>1. rc[p].seq \in Nat /\ (x.pc = "begun" => x.seq \in Nat)
        BY <1>1, StateFields DEF Slots, BegunSlots, SentSlots, AnsweredSlots, WritingSlots, Idle
      <4>2. ~(x.pc = "begun" /\ x.seq > rc[p].seq)
        BY <1>2, <3>1, <3>2, <3>4, <4>1
      <4>3. Captured(slot[f], t) /\ slot[f].seq <= slot[h].seq
        BY <1>2, <3>1, <3>4, <4>2 DEF Careful
      <4> QED
        BY <3>1, <3>4, <4>3 DEF RollInv, AnswerInv
    <3> QED
      BY <3>3, <3>4
  <2> QED
    BY <2>1, <2>2
<1>12. ClearedInv'
  <2> SUFFICES ASSUME NEW h \in Fetches, NEW t \in Records, slot'[h].pc = "answered",
                      t = rc'[ProcOf[h]].cleared[slot'[h].scope].rec,
                      slot'[h].seq > rc'[ProcOf[h]].settled[slot'[h].scope]
               PROVE  t.v <= slot'[h].v
    BY DEF ClearedInv
  <2> DEFINE s == slot'[h].scope
  <2>1. /\ s \in Scopes /\ slot'[h].seq \in Nat
    BY SlotFields DEF ConfigInv, TypeOK, Slots, BegunSlots, SentSlots, AnsweredSlots, WritingSlots, Idle
  <2>2. CASE h = f
    <3>1. slot'[h].v = server.v
      BY <1>2, <2>2 DEF Careful
    <3>2. t.v <= server.v
      BY <1>1, <1>10, <2>1 DEF VersionInv, Knows
    <3> QED
      BY <3>1, <3>2
  <2>3. CASE h # f /\ ProcOf[h] # p
    BY <1>1, <1>2, <2>3 DEF RollInv, ClearedInv
  <2>4. CASE h # f /\ ProcOf[h] = p
    <3>1. slot'[h] = slot[h] /\ t = r.cleared[s].rec /\ slot[h].seq > r.settled[s]
      BY <1>2, <2>4
    <3>2. rc[p].settled[s] \in Nat /\ r.settled[s] \in Nat /\ r.settled[s] >= rc[p].settled[s]
      BY <1>1, <2>1, StateFields DEF Careful
    <3>3. CASE t = rc[p].cleared[s].rec
      BY <2>1, <2>4, <3>1, <3>2, <3>3 DEF RollInv, ClearedInv
    <3>4. CASE slot[f].pc = "answered" /\ r.settled[s] = slot[f].seq /\ t = slot[f].cache
      <4>1. Captured(slot[f], t) /\ slot[f].seq <= slot[h].seq
        BY <2>1, <3>1, <3>2, <3>4 DEF Captured
      <4> QED
        BY <2>4, <3>1, <4>1 DEF RollInv, AnswerInv
    <3> QED
      BY <1>1, <2>1, <3>1, <3>3, <3>4 DEF Careful
  <2> QED
    BY <2>2, <2>3, <2>4
<1> QED
  BY <1>7, <1>8, <1>9, <1>10, <1>11, <1>12 DEF RollInv

\* The types that the comparisons below need.
LEMMA HeldFields ==
    ASSUME TypeOK, NEW p \in Procs
    PROVE  /\ rc[p].held # None => rc[p].held \in Records
           /\ rc[p].snap # None => rc[p].snap.v \in Nat
BY StateFields DEF TypeOK, MaybeRecord

\* A careful step of f takes no getter back.
LEMMA CarefulForward ==
    ASSUME ConfigInv, ConfigInv', RollInv, NEW f \in Fetches, NEW r \in States, NEW x \in Slots,
           rc' = [rc EXCEPT ![ProcOf[f]] = r], ~spoiled' => ~spoiled, Careful(f, r, x)
    PROVE  \A q \in Procs : Forward(q)
<1> DEFINE p == ProcOf[f]
<1> SUFFICES ASSUME NEW q \in Procs, rc[q].snap # None, rc'[q].snap # None,
                    rc[q].snap.scope = rc'[q].snap.scope, ~spoiled'
             PROVE  rc'[q].snap.v >= rc[q].snap.v
  BY DEF Forward
<1>1. /\ p \in Procs /\ rc \in [Procs -> States] /\ TypeOK /\ TypeOK'
  BY SlotFields DEF ConfigInv, TypeOK
<1>2. rc'[p] = r /\ (q # p => rc'[q] = rc[q])
  BY <1>1
<1>3. rc[q].snap.v \in Nat /\ rc'[q].snap.v \in Nat
  BY <1>1, StateFields DEF TypeOK
<1>4. CASE q # p
  BY <1>2, <1>3, <1>4
<1>5. CASE q = p
  <2>1. SnapFits(rc[p]) /\ SnapFits(r)
    BY <1>1 DEF RollInv, Careful
  <2>2. /\ rc[p].held # None /\ rc[p].held.v = rc[p].snap.v
        /\ r.held # None /\ r.held.v = r.snap.v /\ rc[p].held.scope = r.held.scope
    BY <1>2, <1>5, <2>1 DEF SnapFits
  <2>3. CASE r.held = rc[p].held
    BY <1>2, <1>3, <1>5, <2>2, <2>3
  <2>4. CASE Free(p) /\ Onward(p, r.held)
    <3>1. /\ rc[p].held \in Records /\ r.held \in Records
          /\ Keeps(p, rc[p].held) /\ Keeps(p, r.held) /\ r.held.at > rc[p].held.at
      BY <1>1, <1>2, <1>5, <2>2, <2>4, HeldFields, StateFields DEF Keeps, Onward, MaybeRecord
    <3>2. Agree(rc[p].held, r.held)
      BY <1>1, <3>1 DEF RollInv, PastInv
    <3>3. rc[p].held.v <= r.held.v
      BY <3>1, <3>2, RecordFields DEF Agree
    <3> QED
      BY <1>2, <1>3, <1>5, <2>2, <3>3
  <2> QED
    BY <2>2, <2>3, <2>4 DEF Careful
<1> QED
  BY <1>4, <1>5

\* What is to be shown of every step.
Safe == RollInv' /\ \A p \in Procs : Forward(p)

LEMMA CarefulSafe ==
    ASSUME ConfigInv, ConfigInv', RollInv, NEW f \in Fetches, NEW r \in States, NEW x \in Slots,
           rc' = [rc EXCEPT ![ProcOf[f]] = r], slot' = [slot EXCEPT ![f] = x],
           server' = server, file' \in {file, None},
           ~spoiled' => ~spoiled /\ file' = file,
           Careful(f, r, x)
    PROVE  Safe
BY CarefulStep, CarefulForward DEF Safe

LEMMA BeginSafe ==
    ASSUME ConfigInv, ConfigInv', RollInv, NEW f \in Fetches, Begin(f)
    PROVE  Safe
<1> DEFINE p == ProcOf[f]
           r == [rc[p] EXCEPT !.seq = rc[p].seq + 1]
           caches == [s \in Scopes |-> loadCache(p, s)]
           x == [pc |-> "begun", seq |-> rc[p].seq + 1, caches |-> caches]
<1>1. /\ p \in Procs /\ rc[p] \in States /\ rc \in [Procs -> States] /\ rc[p].seq \in Nat
      /\ rc[p].settled \in [Scopes -> Nat] /\ None \notin Records /\ slot \in [Fetches -> Slots]
  BY SlotFields, StateFields, Bounds DEF ConfigInv, TypeOK
<1>2. rc' = [rc EXCEPT ![p] = r] /\ slot' = [slot EXCEPT ![f] = x]
  BY <1>1 DEF Begin
<1>3. /\ r.settled = rc[p].settled /\ r.snap = rc[p].snap /\ r.held = rc[p].held
      /\ r.cleared = rc[p].cleared /\ r.seq = rc[p].seq + 1
  BY <1>1 DEF States
<1>4. x.pc = "begun" /\ x.seq = rc[p].seq + 1 /\ \A s \in Scopes : x.caches[s] = loadCache(p, s)
  OBVIOUS
<1>5. Free(p) /\ slot[f].pc = "idle"
  BY DEF Begin
<1>6. \A s \in Scopes, q \in Records : q = loadCache(p, s) => Keeps(p, q) \/ q = file
  BY <1>1, <1>5 DEF loadCache, Held, Durable, Keeps
<1>7. SnapFits(r)
  BY <1>1, <1>3 DEF RollInv, SnapFits
<1>8. /\ r \in States /\ x \in Slots
  <2>1. rc'[p] = r /\ slot'[f] = x /\ rc' \in [Procs -> States] /\ slot' \in [Fetches -> Slots]
    BY <1>1, <1>2 DEF ConfigInv, TypeOK
  <2> QED
    BY <1>1, <2>1
<1> HIDE DEF x, r, p
<1>9. Careful(f, r, x)
  BY <1>1, <1>3, <1>4, <1>5, <1>6, <1>7 DEF Careful, Captured, p
<1> QED
  BY <1>2, <1>8, <1>9, CarefulSafe DEF Begin, p

\* A fetch that ends or moves on with its records, and leaves its process as
\* it is but for what is settled, the window and the getters' record.
LEMMA MovesOn ==
    ASSUME ConfigInv, ConfigInv', RollInv, NEW f \in Fetches, NEW r \in States, NEW x \in Slots,
           rc' = [rc EXCEPT ![ProcOf[f]] = r], slot' = [slot EXCEPT ![f] = x],
           server' = server, file' = file, spoiled' = spoiled,
           slot[f].pc # "writing", x.pc # "writing",
           r.seq = rc[ProcOf[f]].seq, r.cleared = rc[ProcOf[f]].cleared,
           \A s \in Scopes : r.settled[s] >= rc[ProcOf[f]].settled[s],
           \/ r.held = rc[ProcOf[f]].held
           \/ Free(ProcOf[f]) /\ r.held \in Records /\ Onward(ProcOf[f], r.held),
           SnapFits(r),
           \A q \in Records : Captured(x, q) => Captured(slot[f], q) /\ x.seq = slot[f].seq,
           x.pc = "answered" => x.v = server.v
    PROVE  Safe
<1>1. r.seq \in Nat
  BY StateFields
<1>2. Careful(f, r, x)
  BY <1>1 DEF Careful
<1> QED
  BY <1>2, CarefulSafe

\* What the record of a cache-served outcome changes.
LEMMA AdoptedRecords ==
    ASSUME ConfigInv, RollInv, NEW f \in Fetches, NEW s \in Scopes, NEW x \in MaybeRecord,
           x # None => x.scope = s, slot[f].seq \in Nat, Free(ProcOf[f]), Captured(slot[f], x)
    PROVE  \E c \in States :
              /\ Adopted(f, s, x) = [rc EXCEPT ![ProcOf[f]] = c]
              /\ c.seq = rc[ProcOf[f]].seq /\ c.cleared = rc[ProcOf[f]].cleared
              /\ c.settled = rc[ProcOf[f]].settled /\ SnapFits(c)
              /\ \/ c.held = rc[ProcOf[f]].held
                 \/ c.held \in Records /\ Onward(ProcOf[f], c.held)
<1> DEFINE p == ProcOf[f]
           c == Adoption(rc[p], s, slot[f].seq, x)
<1>1. /\ p \in Procs /\ rc[p] \in States /\ Fenced(rc[p]) /\ rc \in [Procs -> States]
      /\ SnapFits(rc[p])
  BY SlotFields DEF ConfigInv, TypeOK, FenceInv, RollInv
<1>2. CASE ~Adopts(f, s, x)
  BY <1>1, <1>2 DEF Adopted
<1>3. CASE Adopts(f, s, x)
  <2>1. /\ x \in Records /\ x.scope = s
        /\ slot[f].seq > rc[p].settled[s] /\ s \notin rc[p].closed
        /\ Held(p, s) # None => x.at > Held(p, s).at
    BY <1>3 DEF Adopts, MaybeRecord
  <2>2. c \in States
    BY <1>1, <2>1, AdoptFenced
  <2>3. Adopted(f, s, x) = [rc EXCEPT ![p] = c]
    BY <1>1, <1>3 DEF Adopted, Adoption
  <2>4. /\ c.seq = rc[p].seq /\ c.settled = rc[p].settled /\ c.cleared = rc[p].cleared
        /\ c.held = x /\ c.snap = [v |-> x.v, tgt |-> x.tgt, scope |-> s, seq |-> slot[f].seq]
    BY <1>1 DEF States, Adoption
  <2> HIDE DEF c
  <2>5. SnapFits(c)
    BY <2>1, <2>4, Bounds DEF SnapFits
  <2>6. Onward(p, x)
    BY <2>1 DEF Onward, Held, Keeps
  <2> QED
    BY <2>1, <2>2, <2>3, <2>4, <2>5, <2>6
<1> QED
  BY <1>2, <1>3

LEMMA RestHolds ==
    /\ Idle \in Slots /\ Idle.pc # "writing" /\ Idle.pc # "answered"
    /\ \A q \in Records : ~Captured(Idle, q)
BY RestSlot DEF Captured

LEMMA DispatchSafe ==
    ASSUME ConfigInv, ConfigInv', RollInv, NEW f \in Fetches, NEW want \in Targets,
           Dispatch(f, want)
    PROVE  Safe
<1> DEFINE p == ProcOf[f]
           s == Scope(p)
           sig == IF granted[p] THEN want ELSE NoTarget
           cache == slot[f].caches[s]
           x == [pc |-> "sent", seq |-> slot[f].seq, scope |-> s, sig |-> sig,
                 cache |-> cache, cond |-> Validator(cache, sig)]
<1>1. /\ p \in Procs /\ rc[p] \in States /\ rc \in [Procs -> States] /\ SnapFits(rc[p])
      /\ slot[f] \in BegunSlots /\ s \in Scopes /\ slot[f].pc = "begun" /\ Free(p)
      /\ slot \in [Fetches -> Slots]
      /\ server' = server /\ file' = file /\ spoiled' = spoiled
  BY SlotFields, ScopeType DEF ConfigInv, TypeOK, RollInv, Dispatch
<1>2. /\ slot[f].seq \in Nat /\ cache \in MaybeRecord /\ (cache # None => cache.scope = s)
      /\ Captured(slot[f], cache)
  BY <1>1 DEF BegunSlots, ConfigInv, FenceInv, Tracked, Captured
<1>3. \A t \in Scopes : rc[p].settled[t] >= rc[p].settled[t]
  BY <1>1, StateFields
<1>4. CASE s \notin rc[p].window
  <2>1. slot' = [slot EXCEPT ![f] = x] /\ rc' = [rc EXCEPT ![p] = rc[p]]
    BY <1>1, <1>4 DEF Dispatch
  <2>2. x \in Slots
    <3>1. slot'[f] = x
      BY <1>1, <2>1
    <3> QED
      BY <3>1 DEF ConfigInv, TypeOK
  <2>3. /\ x.pc = "sent" /\ x.seq = slot[f].seq /\ x.cache = cache
        /\ x.pc # "writing" /\ x.pc # "answered" /\ slot[f].pc # "writing"
    BY <1>1
  <2> HIDE DEF x, cache, p
  <2>4. \A q \in Records : Captured(x, q) => Captured(slot[f], q) /\ x.seq = slot[f].seq
    BY <1>2, <2>3 DEF Captured
  <2> QED
    BY <1>1, <1>3, <2>1, <2>2, <2>3, <2>4, MovesOn DEF p
<1>5. CASE s \in rc[p].window
  <2>1. slot' = [slot EXCEPT ![f] = Idle] /\ rc' = Adopted(f, s, cache)
    BY <1>5 DEF Dispatch
  <2> HIDE DEF cache, s
  <2>2. PICK c \in States : /\ Adopted(f, s, cache) = [rc EXCEPT ![p] = c]
                            /\ c.seq = rc[p].seq /\ c.cleared = rc[p].cleared
                            /\ c.settled = rc[p].settled /\ SnapFits(c)
                            /\ \/ c.held = rc[p].held
                               \/ c.held \in Records /\ Onward(p, c.held)
    BY <1>1, <1>2, AdoptedRecords
  <2>3. c.settled = rc[p].settled /\ slot[f].pc # "writing"
    BY <1>1, <2>2
  <2> HIDE DEF p
  <2> QED
    BY <1>1, <1>3, <2>1, <2>2, <2>3, RestHolds, MovesOn DEF p
<1> QED
  BY <1>4, <1>5

LEMMA AnswerSafe ==
    ASSUME ConfigInv, ConfigInv', RollInv, NEW f \in Fetches, Answer(f)
    PROVE  Safe
<1> DEFINE p == ProcOf[f]
<1>1. /\ p \in Procs /\ rc[p] \in States /\ rc \in [Procs -> States] /\ SnapFits(rc[p])
      /\ slot[f].pc = "sent" /\ slot \in [Fetches -> Slots] /\ slot' \in [Fetches -> Slots]
      /\ server' = server /\ file' = file /\ spoiled' = spoiled /\ rc' = rc
  BY SlotFields DEF ConfigInv, TypeOK, RollInv, Answer
<1>2. PICK kind : Answered(f, kind)
  BY DEF Answer
<1> DEFINE x == [pc |-> "answered", seq |-> slot[f].seq, scope |-> slot[f].scope,
                 sig |-> slot[f].sig, cache |-> slot[f].cache, kind |-> kind, v |-> server.v,
                 tgt |-> IF kind = "same" THEN slot[f].cache.tgt ELSE slot[f].sig]
<1>3. slot' = [slot EXCEPT ![f] = x] /\ rc' = [rc EXCEPT ![p] = rc[p]]
  BY <1>1, <1>2 DEF Answered
<1>4. /\ x.pc = "answered" /\ x.seq = slot[f].seq /\ x.cache = slot[f].cache /\ x.v = server.v
      /\ x.pc # "writing" /\ slot[f].pc # "writing"
  BY <1>1
<1> HIDE DEF x
<1>5. x \in Slots
  BY <1>1, <1>3
<1>6. \A q \in Records : Captured(x, q) => Captured(slot[f], q) /\ x.seq = slot[f].seq
  BY <1>1, <1>4 DEF Captured
<1>7. \A t \in Scopes : rc[p].settled[t] >= rc[p].settled[t]
  BY <1>1, StateFields
<1> HIDE DEF p
<1> QED
  BY <1>1, <1>3, <1>4, <1>5, <1>6, <1>7, MovesOn DEF p

\* A fetch that ends without a trace.
LEMMA EndSafe ==
    ASSUME ConfigInv, ConfigInv', RollInv, NEW f \in Fetches, Abandon(f) \/ SettleIgnored(f)
    PROVE  Safe
<1> DEFINE p == ProcOf[f]
<1>1. /\ p \in Procs /\ rc[p] \in States /\ rc \in [Procs -> States] /\ SnapFits(rc[p])
      /\ slot[f].pc # "writing" /\ slot' = [slot EXCEPT ![f] = Idle]
      /\ server' = server /\ file' = file /\ spoiled' = spoiled /\ rc' = rc
  BY SlotFields DEF ConfigInv, TypeOK, RollInv, Abandon, SettleIgnored, Settling
<1>2. rc' = [rc EXCEPT ![p] = rc[p]]
  BY <1>1
<1>3. \A t \in Scopes : rc[p].settled[t] >= rc[p].settled[t]
  BY <1>1, StateFields
<1> HIDE DEF p
<1> QED
  BY <1>1, <1>2, <1>3, RestHolds, MovesOn DEF p

LEMMA SettleTransientSafe ==
    ASSUME ConfigInv, ConfigInv', RollInv, NEW f \in Fetches, NEW hint \in BOOLEAN,
           SettleTransient(f, hint)
    PROVE  Safe
<1> DEFINE p == ProcOf[f]
           s == slot[f].scope
<1>1. Settling(f) /\ Applies(f)
  BY DEF SettleTransient
<1>2. /\ p \in Procs /\ s \in Scopes /\ slot[f].cache \in MaybeRecord /\ slot[f].seq \in Nat
      /\ slot[f].cache # None => slot[f].cache.scope = s
      /\ rc \in [Procs -> States] /\ rc[p] \in States
  BY <1>1, SettlingFacts
<1>3. slot[f].pc = "answered" /\ Free(p) /\ Captured(slot[f], slot[f].cache)
  BY <1>1 DEF Settling, Captured
<1>4. PICK c \in States : /\ Adopted(f, s, slot[f].cache) = [rc EXCEPT ![p] = c]
                          /\ c.seq = rc[p].seq /\ c.cleared = rc[p].cleared
                          /\ c.settled = rc[p].settled /\ SnapFits(c)
                          /\ \/ c.held = rc[p].held
                             \/ c.held \in Records /\ Onward(p, c.held)
  BY <1>2, <1>3, AdoptedRecords
<1>5. PICK w \in SUBSET Scopes : rc' = [[rc EXCEPT ![p] = c] EXCEPT ![p].window = w]
  <2>1. c.window \in SUBSET Scopes /\ c.window \union {s} \in SUBSET Scopes
    BY <1>2, StateFields
  <2>2. rc' = [[rc EXCEPT ![p] = c] EXCEPT ![p].window =
                  IF hint THEN c.window \union {s} ELSE c.window]
    BY <1>2, <1>4 DEF SettleTransient
  <2> QED
    BY <2>1, <2>2
<1> DEFINE r == [c EXCEPT !.window = w]
<1>6. rc' = [rc EXCEPT ![p] = r]
  BY <1>2, <1>5
<1>7. r \in States
  BY StateUpdates
<1>8. /\ r.settled = c.settled /\ r.snap = c.snap /\ r.cleared = c.cleared /\ r.held = c.held
      /\ r.seq = c.seq
  BY DEF States
<1> HIDE DEF r
<1>9. SnapFits(r)
  BY <1>4, <1>8 DEF SnapFits
<1>10. \A t \in Scopes : r.settled[t] = rc[p].settled[t] /\ rc[p].settled[t] \in Nat
  BY <1>2, <1>4, <1>8, StateFields
<1>11. /\ slot' = [slot EXCEPT ![f] = Idle]
       /\ server' = server /\ file' = file /\ spoiled' = spoiled
  BY DEF SettleTransient
<1>12. /\ r.seq = rc[p].seq /\ r.cleared = rc[p].cleared
       /\ r.held = rc[p].held \/ (r.held \in Records /\ Onward(p, r.held))
  BY <1>4, <1>8
<1>13. slot[f].pc # "writing"
  BY <1>3
<1>14. \A t \in Scopes : r.settled[t] >= rc[p].settled[t]
  BY <1>10
<1> HIDE DEF p
<1> QED
  BY <1>3, <1>6, <1>7, <1>9, <1>11, <1>12, <1>13, <1>14, RestHolds, MovesOn DEF p

LEMMA SettleRefusedSafe ==
    ASSUME ConfigInv, ConfigInv', RollInv, NEW f \in Fetches, SettleRefused(f)
    PROVE  Safe
<1> DEFINE p == ProcOf[f]
           r == Shut(rc[p], slot[f].scope, slot[f].seq)
<1>1. Settling(f) /\ Applies(f)
  BY DEF SettleRefused
<1>2. /\ p \in Procs /\ rc[p] \in States /\ slot[f].scope \in Scopes /\ slot[f].seq \in Nat
      /\ slot[f].seq > rc[p].settled[slot[f].scope] /\ slot[f].seq <= rc[p].seq
      /\ Fenced(rc[p])
  BY <1>1, SettlingFacts
<1>3. /\ r \in States /\ r.seq = rc[p].seq /\ r.snap = None /\ r.held = rc[p].held
      /\ r.cleared = rc[p].cleared
  BY <1>2, ShutFenced
<1>4. \A t \in Scopes : r.settled[t] >= rc[p].settled[t]
  <2>1. r.settled = [rc[p].settled EXCEPT ![slot[f].scope] = slot[f].seq]
    BY <1>2 DEF Shut, States
  <2>2. rc[p].settled \in [Scopes -> Nat]
    BY <1>2, StateFields
  <2> HIDE DEF r, p
  <2> QED
    BY <1>2, <2>1, <2>2
<1>5. SnapFits(r) /\ slot[f].pc # "writing"
  BY <1>1, <1>3 DEF SnapFits, Settling
<1>6. /\ rc' = [rc EXCEPT ![p] = r] /\ slot' = [slot EXCEPT ![f] = Idle]
      /\ server' = server /\ file' = file /\ spoiled' = spoiled
  BY DEF SettleRefused
<1> HIDE DEF r, p
<1> QED
  BY <1>3, <1>4, <1>5, <1>6, RestHolds, MovesOn DEF p

LEMMA SettleOvertakenSafe ==
    ASSUME ConfigInv, ConfigInv', RollInv, NEW f \in Fetches, SettleOvertaken(f)
    PROVE  Safe
<1> DEFINE p == ProcOf[f]
           s == slot[f].scope
           set == [rc[p].settled EXCEPT ![s] = slot[f].seq]
           r == [rc[p] EXCEPT !.settled = set]
<1>1. /\ p \in Procs /\ rc[p] \in States /\ s \in Scopes /\ slot[f].seq \in Nat
      /\ slot[f].seq > rc[p].settled[s] /\ rc \in [Procs -> States]
  BY SettlingFacts DEF SettleOvertaken
<1>2. rc[p].settled \in [Scopes -> Nat]
  BY <1>1, StateFields
<1>3. set \in [Scopes -> Nat] /\ \A t \in Scopes : set[t] >= rc[p].settled[t]
  <2> HIDE DEF p
  <2> QED
    BY <1>1, <1>2
<1>4. r \in States
  <2> HIDE DEF set, p
  <2> QED
    BY <1>1, <1>3, StateUpdates
<1>5. /\ r.settled = set /\ r.snap = rc[p].snap /\ r.cleared = rc[p].cleared
      /\ r.held = rc[p].held /\ r.seq = rc[p].seq
  BY <1>1 DEF States
<1>6. /\ rc' = [rc EXCEPT ![p] = r] /\ slot' = [slot EXCEPT ![f] = Idle]
      /\ server' = server /\ file' = file /\ spoiled' = spoiled
  BY <1>1 DEF SettleOvertaken, States
<1>7. SnapFits(r) /\ slot[f].pc # "writing"
  <2> HIDE DEF r
  <2> QED
    BY <1>1, <1>5 DEF SnapFits, RollInv, SettleOvertaken, Settling
<1>8. \A t \in Scopes : r.settled[t] >= rc[p].settled[t]
  BY <1>3, <1>5
<1> HIDE DEF r, p
<1> QED
  BY <1>4, <1>5, <1>6, <1>7, <1>8, RestHolds, MovesOn DEF p

LEMMA SettleAbsentSafe ==
    ASSUME ConfigInv, ConfigInv', RollInv, NEW f \in Fetches, SettleAbsent(f)
    PROVE  Safe
<1> DEFINE p == ProcOf[f]
           s == slot[f].scope
           h == HeldAfterClear(p, s)
           r == Clearing(rc[p], s, slot[f].seq, h, Served(f))
<1>1. Settling(f) /\ Applies(f)
  BY DEF SettleAbsent
<1>2. /\ p \in Procs /\ rc[p] \in States /\ Fenced(rc[p]) /\ s \in Scopes
      /\ slot[f].seq \in Nat /\ slot[f].seq > rc[p].settled[s] /\ slot[f].seq <= rc[p].seq
      /\ Served(f) \in MaybeRecord
  BY <1>1, SettlingFacts
<1>3. h \in MaybeRecord /\ (h # None => h = rc[p].held /\ h.scope # s)
  BY <1>2, StateFields DEF HeldAfterClear, Held, MaybeRecord
<1>4. r \in States /\ r.seq = rc[p].seq
  BY <1>2, <1>3, ClearFenced
<1>5. rc' = [rc EXCEPT ![p] = r] /\ slot' = [slot EXCEPT ![f] = Idle] /\ server' = server
  BY DEF SettleAbsent, Clearing
<1>6. file' \in {file, None} /\ (~spoiled' => ~spoiled /\ file' = file)
  BY DEF SettleAbsent
<1>7. Free(p) /\ slot[f].pc = "answered"
  BY <1>1 DEF Settling
<1>8. Served(f) \in {slot[f].cache, rc[p].cleared[s].rec}
  BY DEF Served
<1> HIDE DEF h
<1>9. /\ r.snap = None /\ r.held = h
      /\ r.settled = [rc[p].settled EXCEPT ![s] = slot[f].seq]
      /\ r.cleared = [rc[p].cleared EXCEPT ![s] = [on |-> TRUE, rec |-> Served(f)]]
  BY <1>2 DEF Clearing, Shut, States
<1>10. /\ rc[p].settled \in [Scopes -> Nat]
       /\ rc[p].cleared \in [Scopes -> [on : BOOLEAN, rec : MaybeRecord]]
  BY <1>2, StateFields
<1> HIDE DEF r, p, s
<1>11. \A t \in Scopes : r.settled[t] >= rc[p].settled[t]
  BY <1>2, <1>9, <1>10
<1>12. \A t \in Scopes : t # s => r.cleared[t].rec = rc[p].cleared[t].rec
  BY <1>2, <1>9, <1>10
<1>13. r.settled[s] = slot[f].seq /\ r.cleared[s].rec = Served(f)
  BY <1>2, <1>9, <1>10
<1>14. r.seq >= rc[p].seq /\ SnapFits(r)
  BY <1>2, <1>4, <1>9, StateFields DEF SnapFits
<1>15. Careful(f, r, Idle)
  <2>1. r.held = rc[p].held \/ (Free(p) /\ r.held = None)
    BY <1>3, <1>7, <1>9
  <2>2. \A t \in Scopes :
           \/ r.cleared[t].rec \in {None, rc[p].cleared[t].rec}
           \/ /\ slot[f].pc = "answered" /\ r.settled[t] = slot[f].seq
              /\ r.cleared[t].rec = slot[f].cache
    BY <1>7, <1>8, <1>12, <1>13
  <2> QED
    BY <1>7, <1>11, <1>14, <2>1, <2>2, RestHolds DEF Careful, p
<1> QED
  BY <1>4, <1>5, <1>6, <1>15, RestHolds, CarefulSafe DEF p

\* raiseStampAboveSuperseded: the stamp lies above all that it replaces.
LEMMA StampAbove ==
    ASSUME NEW now \in Nat, NEW a \in MaybeRecord, NEW b \in MaybeRecord, NEW c \in MaybeRecord,
           NEW d \in {a, b, c}, d # None
    PROVE  d.at < Stamp(now, {r.at : r \in {a, b, c} \ {None}})
<1> DEFINE T == {r.at : r \in {a, b, c} \ {None}}
           At(r) == IF r # None THEN r.at ELSE 0
<1>1. At(a) \in Nat /\ At(b) \in Nat /\ At(c) \in Nat
  BY RecordFields DEF MaybeRecord
<1>2. T \subseteq {At(a), At(b), At(c)} /\ d.at \in T
  OBVIOUS
<1> HIDE DEF T, At
<1>3. CASE \A t \in T : now > t
  <2>1. Stamp(now, T) = now /\ d.at \in Nat
    BY <1>1, <1>2, <1>3 DEF Stamp
  <2>2. d.at < Stamp(now, T)
    BY <1>2, <1>3, <2>1
  <2> QED
    BY <2>2 DEF T
<1>4. CASE ~\A t \in T : now > t
  <2>1. \E t \in T : \A u \in T : u <= t
    BY <1>1, <1>2, LargestOfThree
  <2> DEFINE top == CHOOSE t \in T : \A u \in T : u <= t
  <2>2. top \in T /\ \A u \in T : u <= top
    BY <2>1
  <2>3. \A t \in T : t \in Nat
    BY <1>1, <1>2
  <2>4. Stamp(now, T) = 1 + top
    BY <1>4 DEF Stamp
  <2> HIDE DEF top
  <2>5. d.at < Stamp(now, T)
    BY <1>2, <2>2, <2>3, <2>4
  <2> QED
    BY <2>5 DEF T
<1> QED
  BY <1>3, <1>4

\* An answer that installLocked does not find overtaken is no older than the
\* file of its scope, because what it was served is the file's present content
\* or has the same stamp.
LEMMA InstallAdvances ==
    ASSUME ConfigInv, RollInv, ~spoiled, NEW f \in Fetches, NEW now \in Clocks, Install(f, now),
           Durable(slot[f].scope) # None
    PROVE  Durable(slot[f].scope).v <= slot[f].v
<1> DEFINE p == ProcOf[f]
           s == slot[f].scope
           d == Durable(s)
<1>1. Settling(f) /\ Applies(f) /\ ~Overtaken(d, Served(f), Body(slot[f]))
  BY DEF Install
<1>2. /\ p \in Procs /\ s \in Scopes /\ slot[f].v \in Nat /\ Served(f) \in MaybeRecord
      /\ slot[f].pc = "answered"
  BY <1>1, SettlingFacts DEF Settling
<1>3. d = file /\ file \in Records
  BY DEF Durable, ConfigInv, TypeOK, MaybeRecord
<1>4. CASE Body(d) = Body(slot[f])
  BY <1>2, <1>3, <1>4, RecordFields DEF Body
<1>5. CASE Served(f) # None /\ d.at <= Served(f).at
  <2>1. Served(f) \in Records
    BY <1>2, <1>5 DEF MaybeRecord
  <2>2. CASE slot[f].cache # None
    <3>1. Served(f) = slot[f].cache /\ Captured(slot[f], Served(f))
      BY <1>2, <2>2 DEF Served, Captured
    <3>2. slot[f].seq <= slot[f].seq
      BY <1>1, SettlingFacts
    <3>3. Served(f).v <= slot[f].v
      BY <1>2, <2>1, <3>1, <3>2 DEF RollInv, AnswerInv
    <3>4. Keeps(p, Served(f))
      BY <3>1 DEF Keeps
    <3> QED
      BY <1>2, <1>3, <1>5, <2>1, <3>3, <3>4, RecordFields DEF RollInv, PastInv, Past, Agree
  <2>3. CASE slot[f].cache = None
    <3>1. Served(f) = rc[p].cleared[s].rec
      BY <2>3 DEF Served
    <3>2. Served(f).v <= slot[f].v
      BY <1>1, <1>2, <2>1, <3>1 DEF RollInv, ClearedInv, Applies
    <3>3. Keeps(p, Served(f))
      BY <1>2, <3>1 DEF Keeps
    <3> QED
      BY <1>2, <1>3, <1>5, <2>1, <3>2, <3>3, RecordFields DEF RollInv, PastInv, Past, Agree
  <2> QED
    BY <2>2, <2>3
<1>6. Served(f) # None => d.at \in Nat /\ Served(f).at \in Nat
  BY <1>2, <1>3, RecordFields DEF MaybeRecord
<1> HIDE DEF d
<1>7. (Served(f) # None /\ ~(d.at > Served(f).at)) => d.at <= Served(f).at
  BY <1>6
<1> QED
  BY <1>1, <1>4, <1>5, <1>7 DEF Overtaken, d

LEMMA InstallSafe ==
    ASSUME ConfigInv, ConfigInv', RollInv, NEW f \in Fetches, NEW now \in Clocks, Install(f, now)
    PROVE  Safe
<1> DEFINE p == ProcOf[f]
           s == slot[f].scope
           rec == [scope |-> s, v |-> slot[f].v, tgt |-> slot[f].tgt, etag |-> TRUE,
                   sig |-> slot[f].sig, at |-> Stamp(now, Superseded(p, s, Served(f)))]
           r == Installation(rc[p], s, slot[f].seq, rec)
           x == [pc |-> "writing", rec |-> rec, served |-> Served(f), read |-> file,
                 fresh |-> slot[f].kind = "fresh"]
<1>1. /\ p \in Procs /\ rc[p] \in States /\ s \in Scopes /\ Fenced(rc[p])
      /\ slot[f].seq \in Nat /\ slot[f].seq > rc[p].settled[s] /\ slot[f].seq <= rc[p].seq
      /\ slot[f].v \in Nat /\ Served(f) \in MaybeRecord /\ rc \in [Procs -> States]
      /\ slot \in [Fetches -> Slots] /\ None \notin Records /\ ProcOf \in [Fetches -> Procs]
      /\ Free(p) /\ slot[f].pc = "answered"
  BY SettlingFacts, Bounds DEF Install, Settling, ConfigInv, TypeOK
<1>2. /\ rc' = [rc EXCEPT ![p] = r] /\ slot' = [slot EXCEPT ![f] = x]
      /\ file' = file /\ server' = server /\ spoiled' = spoiled
  BY DEF Install, Installation
<1>3. rec.scope = s /\ rec.v = slot[f].v /\ rec.at = Stamp(now, Superseded(p, s, Served(f)))
  OBVIOUS
<1>4. x.pc = "writing" /\ x.rec = rec /\ x.read = file
  OBVIOUS
<1> HIDE DEF rec, x
<1>5. /\ r.settled = [rc[p].settled EXCEPT ![s] = slot[f].seq] /\ r.held = rec
      /\ r.cleared = [rc[p].cleared EXCEPT ![s] = [on |-> FALSE, rec |-> None]]
      /\ r.snap = [v |-> rec.v, tgt |-> rec.tgt, scope |-> s, seq |-> slot[f].seq]
      /\ r.seq = rc[p].seq
  BY <1>1 DEF Installation, States
<1>6. /\ rc[p].settled \in [Scopes -> Nat] /\ rc[p].seq \in Nat
      /\ rc[p].cleared \in [Scopes -> [on : BOOLEAN, rec : MaybeRecord]]
  BY <1>1, StateFields
<1> HIDE DEF r
<1>7. /\ rc'[p] = r /\ \A q \in Procs : q # p => rc'[q] = rc[q]
      /\ slot'[f] = x /\ \A g \in Fetches : g # f => slot'[g] = slot[g]
  BY <1>1, <1>2
<1>8. rec \in Records
  <2>1. x \in Slots
    BY <1>7 DEF ConfigInv, TypeOK
  <2>2. x \in WritingSlots
    BY <1>4, <2>1 DEF Slots, Idle, BegunSlots, SentSlots, AnsweredSlots
  <2> QED
    BY <1>4, <2>2 DEF WritingSlots
<1>9. (Durable(s) # None /\ ~spoiled) => Durable(s).at < rec.at /\ Durable(s).v <= rec.v
  <2>1. now \in Nat /\ Held(p, s) \in MaybeRecord /\ Durable(s) \in MaybeRecord
    BY <1>1, Bounds, KnownRecords DEF ConfigInv
  <2>2. Durable(s) # None => Durable(s).at < rec.at
    BY <1>1, <1>3, <2>1, StampAbove DEF Superseded
  <2> QED
    BY <1>3, <2>2, InstallAdvances
<1>10. \A t \in Scopes : /\ r.cleared[t].rec = IF t = s THEN None ELSE rc[p].cleared[t].rec
                         /\ r.settled[t] = IF t = s THEN slot[f].seq ELSE rc[p].settled[t]
  BY <1>1, <1>5, <1>6
<1>11. \A q \in Records : ~Captured(x, q)
  BY <1>4 DEF Captured
<1>12. /\ ~Free(p)' /\ \A g \in Fetches : Writing(g)' => g = f \/ (Writing(g) /\ ProcOf[g] # p)
       /\ \A q \in Procs : Free(q)' => Free(q) /\ q # p
  BY <1>1, <1>4, <1>7 DEF Free, Writing
<1>13. PastInv'
  <2>1. \A q \in Procs, t \in Records : Keeps(q, t)' => Keeps(q, t)
    <3> SUFFICES ASSUME NEW q \in Procs, NEW t \in Records, Keeps(q, t)'
                 PROVE  Keeps(q, t)
      OBVIOUS
    <3>1. CASE Free(q)' /\ t = rc'[q].held
      BY <1>7, <1>12, <3>1 DEF Keeps
    <3>2. ASSUME NEW u \in Scopes, t = rc'[q].cleared[u].rec
          PROVE  Keeps(q, t)
      BY <1>1, <1>7, <1>10, <3>2 DEF Keeps
    <3>3. ASSUME NEW g \in Fetches, ProcOf[g] = q, Captured(slot'[g], t)
          PROVE  Keeps(q, t)
      BY <1>7, <1>11, <3>3 DEF Keeps
    <3> QED
      BY <3>1, <3>2, <3>3 DEF Keeps
  <2> QED
    BY <1>2, <2>1 DEF RollInv, PastInv, Past, Agree
<1>14. AdvanceInv'
  <2> SUFFICES ASSUME ~spoiled, NEW g \in Fetches, Writing(g)'
               PROVE  /\ slot'[g].read # None => file # None /\ slot'[g].read.at <= file.at
                      /\ (/\ slot'[g].read = file /\ file # None
                          /\ file.scope = slot'[g].rec.scope) =>
                             file.at < slot'[g].rec.at /\ file.v <= slot'[g].rec.v
    BY <1>2 DEF AdvanceInv
  <2>1. CASE g = f
    <3>1. file # None => file.at \in Nat
      BY RecordFields DEF ConfigInv, TypeOK, MaybeRecord
    <3>2. (file # None /\ file.scope = s) => file.at < rec.at /\ file.v <= rec.v
      BY <1>9 DEF Durable
    <3> QED
      BY <1>3, <1>4, <1>7, <2>1, <3>1, <3>2
  <2>2. CASE g # f
    BY <1>7, <1>12, <2>2 DEF RollInv, AdvanceInv
  <2> QED
    BY <2>1, <2>2
<1>15. WriterInv'
  <2> SUFFICES ASSUME NEW g \in Fetches, Writing(g)'
               PROVE  /\ slot'[g].rec = rc'[ProcOf[g]].held /\ rc'[ProcOf[g]].seq > 0
                      /\ \A h \in Fetches : Writing(h)' /\ ProcOf[h] = ProcOf[g] => h = g
    BY DEF WriterInv
  <2>1. CASE g = f
    <3>1. r.seq > 0
      BY <1>1, <1>5, <1>6
    <3> QED
      BY <1>4, <1>5, <1>7, <1>12, <2>1, <3>1
  <2>2. CASE g # f
    <3>1. Writing(g) /\ ProcOf[g] # p /\ ProcOf[g] \in Procs
      BY <1>1, <1>12, <2>2
    <3> QED
      BY <1>7, <1>12, <2>2, <3>1 DEF RollInv, WriterInv
  <2> QED
    BY <2>1, <2>2
<1>16. \A q \in Procs : SnapFits(rc'[q])
  <2>1. SnapFits(r)
    BY <1>1, <1>3, <1>5, <1>8 DEF SnapFits
  <2> QED
    BY <1>7, <2>1 DEF RollInv
<1>17. VersionInv'
  <2>1. rec.v <= server.v
    BY <1>1, <1>3 DEF RollInv, AnswerInv
  <2>2. \A q \in Procs, t \in Records : Knows(q, t)' => Knows(q, t) \/ t = rec
    <3> SUFFICES ASSUME NEW q \in Procs, NEW t \in Records, Knows(q, t)'
                 PROVE  Knows(q, t) \/ t = rec
      OBVIOUS
    <3>1. CASE t = rc'[q].held
      BY <1>5, <1>7, <3>1 DEF Knows
    <3>2. ASSUME NEW u \in Scopes, t = rc'[q].cleared[u].rec
          PROVE  Knows(q, t)
      BY <1>1, <1>7, <1>10, <3>2 DEF Knows
    <3>3. ASSUME NEW g \in Fetches, ProcOf[g] = q, Captured(slot'[g], t)
          PROVE  Knows(q, t)
      BY <1>7, <1>11, <3>3 DEF Knows
    <3> QED
      BY <3>1, <3>2, <3>3 DEF Knows
  <2> QED
    BY <1>2, <2>1, <2>2 DEF RollInv, VersionInv
<1>18. AnswerInv'
  <2>1. \A h \in Fetches : slot'[h].pc = "answered" => slot'[h] = slot[h]
    BY <1>4, <1>7
  <2>2. \A g \in Fetches, t \in Records : Captured(slot'[g], t) => slot'[g] = slot[g]
    BY <1>7, <1>11
  <2> QED
    BY <1>2, <2>1, <2>2 DEF RollInv, AnswerInv
<1>19. ClearedInv'
  <2> SUFFICES ASSUME NEW h \in Fetches, NEW t \in Records, slot'[h].pc = "answered",
                      t = rc'[ProcOf[h]].cleared[slot'[h].scope].rec,
                      slot'[h].seq > rc'[ProcOf[h]].settled[slot'[h].scope]
               PROVE  t.v <= slot'[h].v
    BY DEF ClearedInv
  <2>1. slot'[h] = slot[h] /\ h # f /\ ProcOf[h] \in Procs
    BY <1>1, <1>4, <1>7
  <2>2. slot[h].scope \in Scopes
    BY <2>1, SlotFields DEF ConfigInv, AnsweredSlots
  <2>3. CASE ProcOf[h] # p
    BY <1>7, <2>1, <2>3 DEF RollInv, ClearedInv
  <2>4. CASE ProcOf[h] = p
    BY <1>1, <1>7, <1>10, <2>1, <2>2, <2>4 DEF RollInv, ClearedInv
  <2> QED
    BY <2>3, <2>4
<1>20. \A q \in Procs : Forward(q)
  <2> SUFFICES ASSUME NEW q \in Procs, rc[q].snap # None, rc'[q].snap # None,
                      rc[q].snap.scope = rc'[q].snap.scope, ~spoiled'
               PROVE  rc'[q].snap.v >= rc[q].snap.v
    BY DEF Forward
  <2>1. rc[q].snap.v \in Nat
    BY StateFields DEF ConfigInv, TypeOK
  <2>2. CASE q # p
    BY <1>7, <2>1, <2>2
  <2>3. CASE q = p
    <3>1. /\ rc[p].held \in Records /\ rc[p].held.v = rc[p].snap.v /\ rc[p].held.scope = s
          /\ r.snap.v = slot[f].v
      BY <1>1, <1>3, <1>5, <1>7, <2>3, StateFields DEF RollInv, SnapFits, MaybeRecord
    <3>2. Keeps(p, rc[p].held)
      BY <1>1 DEF Keeps
    <3>3. Past(rc[p].held)
      BY <1>1, <1>2, <3>1, <3>2 DEF RollInv, PastInv
    <3>4. Durable(s) = file /\ file # None /\ file \in Records
      BY <3>1, <3>3 DEF Past, Durable, ConfigInv, TypeOK, MaybeRecord
    <3>5. file.v <= slot[f].v
      BY <1>2, <1>3, <1>9, <3>4
    <3>6. rc[p].held.v <= file.v
      BY <3>1, <3>3, <3>4, RecordFields DEF Past, Agree
    <3> QED
      BY <1>1, <1>7, <2>1, <2>3, <3>1, <3>4, <3>5, <3>6, RecordFields
  <2> QED
    BY <2>2, <2>3
<1> QED
  BY <1>13, <1>14, <1>15, <1>16, <1>17, <1>18, <1>19, <1>20 DEF Safe, RollInv

\* The end of a write: the record on file may change, and the process is free.
LEMMA WriteSafe ==
    ASSUME ConfigInv, ConfigInv', RollInv, NEW f \in Fetches,
           WriteOK(f) \/ (\E landed, cleared \in BOOLEAN : WriteFailed(f, landed, cleared))
    PROVE  Safe
<1> DEFINE p == ProcOf[f]
           rec == slot[f].rec
<1>1. /\ p \in Procs /\ rc \in [Procs -> States] /\ slot \in [Fetches -> Slots]
      /\ None \notin Records /\ ProcOf \in [Fetches -> Procs] /\ Writing(f)
      /\ rec \in Records /\ file \in MaybeRecord /\ rc' = rc /\ server' = server
      /\ slot' = [slot EXCEPT ![f] = Idle]
  BY SlotFields, Bounds DEF ConfigInv, TypeOK, WriteOK, WriteFailed, Writing, WritingSlots
<1>2. /\ saveDurable(rec) \in Records /\ saveDurable(rec).v = rec.v
      /\ saveDurable(rec).at = rec.at /\ saveDurable(rec).scope = rec.scope
  BY <1>1, SavedRecord DEF saveDurable, Records
<1>3. file' \in {file, None, saveDurable(rec)}
  BY DEF WriteOK, WriteFailed
<1>4. ~spoiled' => /\ ~spoiled /\ file' = saveDurable(rec) /\ file = slot[f].read
                   /\ file # None => file.scope = rec.scope
  BY DEF WriteOK, WriteFailed, Tramples
<1>5. /\ rec = rc[p].held
      /\ \A g \in Fetches : Writing(g) /\ ProcOf[g] = p => g = f
  BY <1>1 DEF RollInv, WriterInv
<1>6. /\ slot'[f] = Idle /\ \A g \in Fetches : g # f => slot'[g] = slot[g]
  BY <1>1
<1>7. \A g \in Fetches : /\ Writing(g)' => Writing(g) /\ g # f
                         /\ slot'[g].pc = "answered" => slot'[g] = slot[g]
                         /\ \A t \in Records : Captured(slot'[g], t) => slot'[g] = slot[g]
  BY <1>6, RestHolds DEF Writing
<1>8. \A q \in Procs : q # p => Free(q)' = Free(q)
  BY <1>6 DEF Free
<1> HIDE DEF rec
<1>9. PastInv'
  <2> SUFFICES ASSUME ~spoiled', NEW q \in Procs, NEW t \in Records, NEW u \in Records,
                      Keeps(q, t)', Keeps(q, u)'
               PROVE  Past(t)' /\ Agree(t, u)
    BY DEF PastInv, Agree
  <2>1. /\ ~spoiled /\ file' = saveDurable(rec) /\ file = slot[f].read
        /\ file # None => file.scope = rec.scope
    BY <1>4
  <2>2. \A y \in Records : Keeps(q, y)' => Keeps(q, y) \/ (q = p /\ y = rec)
    BY <1>1, <1>5, <1>7, <1>8 DEF Keeps
  <2>3. \A y, z \in Records : Keeps(q, y) /\ Keeps(q, z) => Past(y) /\ Agree(y, z)
    BY <2>1 DEF RollInv, PastInv
  <2>4. file # None => file.at < rec.at /\ file.v <= rec.v
    BY <1>1, <2>1 DEF RollInv, AdvanceInv, rec
  <2>5. \A y \in Records : y.at \in Nat /\ y.v \in Nat
    BY RecordFields
  <2>6. file # None => file \in Records
    BY <1>1 DEF MaybeRecord
  <2>7. \A y \in Records : Keeps(q, y) =>
           y.scope = rec.scope /\ y.at < rec.at /\ y.v <= rec.v
    BY <1>1, <2>1, <2>3, <2>4, <2>5, <2>6 DEF Past, Agree
  <2>8. \A y \in Records : Keeps(q, y)' => Past(y)'
    <3> SUFFICES ASSUME NEW y \in Records, Keeps(q, y)' PROVE Past(y)'
      OBVIOUS
    <3>1. y.scope = rec.scope /\ y.at <= rec.at /\ y.v <= rec.v /\ (y.at = rec.at => y = rec)
      BY <1>1, <2>2, <2>5, <2>7
    <3>2. /\ file' # None /\ file'.v = rec.v /\ file'.at = rec.at /\ file'.scope = rec.scope
      BY <1>1, <1>2, <2>1
    <3> QED
      BY <1>1, <2>5, <3>1, <3>2 DEF Past, Agree
  <2>9. Agree(t, u)
    BY <1>1, <2>2, <2>3, <2>5, <2>7 DEF Agree
  <2> QED
    BY <2>8, <2>9
<1>10. AdvanceInv'
  <2> SUFFICES ASSUME ~spoiled', NEW g \in Fetches, Writing(g)'
               PROVE  /\ slot'[g].read # None => file' # None /\ slot'[g].read.at <= file'.at
                      /\ slot'[g].read # file'
    BY DEF AdvanceInv
  <2>1. /\ ~spoiled /\ file' = saveDurable(rec) /\ file = slot[f].read
        /\ file # None => file.scope = rec.scope
    BY <1>4
  <2>2. Writing(g) /\ slot'[g] = slot[g] /\ slot[g].read \in MaybeRecord
    BY <1>6, <1>7, SlotFields DEF Writing, WritingSlots, ConfigInv
  <2>3. slot[g].read # None => file # None /\ slot[g].read.at <= file.at
    BY <2>1, <2>2 DEF RollInv, AdvanceInv
  <2>4. file # None => file.at < rec.at
    BY <1>1, <2>1 DEF RollInv, AdvanceInv, rec
  <2>5. /\ rec.at \in Nat /\ (file # None => file.at \in Nat)
        /\ slot[g].read # None => slot[g].read.at \in Nat
    BY <1>1, <2>2, RecordFields DEF MaybeRecord
  <2>6. slot[g].read # None => slot[g].read.at < rec.at
    BY <2>3, <2>4, <2>5
  <2> QED
    BY <1>1, <1>2, <2>1, <2>2, <2>5, <2>6
<1>11. WriterInv'
  BY <1>1, <1>6, <1>7 DEF RollInv, WriterInv
<1>12. VersionInv'
  <2>1. \A q \in Procs, t \in Records : Knows(q, t)' => Knows(q, t)
    BY <1>1, <1>7 DEF Knows
  <2>2. rec.v <= server.v
    BY <1>1, <1>5 DEF RollInv, VersionInv, Knows
  <2> QED
    BY <1>1, <1>2, <1>3, <2>1, <2>2 DEF RollInv, VersionInv
<1>13. AnswerInv' /\ ClearedInv'
  BY <1>1, <1>7 DEF RollInv, AnswerInv, ClearedInv
<1>14. \A q \in Procs : SnapFits(rc'[q]) /\ Forward(q)
  <2>1. \A q \in Procs : rc[q].snap # None => rc[q].snap.v \in Nat
    BY StateFields DEF ConfigInv, TypeOK
  <2> QED
    BY <1>1, <2>1 DEF RollInv, Forward
<1> QED
  BY <1>9, <1>10, <1>11, <1>12, <1>13, <1>14 DEF Safe, RollInv

\* A step that leaves the records, the fetches and the file alone.
LEMMA OutsideSafe ==
    ASSUME ConfigInv, ConfigInv', RollInv, UNCHANGED <<file, slot, spoiled>>,
           server'.v >= server.v,
           \A p \in Procs : /\ rc'[p].held = rc[p].held /\ rc'[p].snap = rc[p].snap
                            /\ rc'[p].cleared = rc[p].cleared /\ rc'[p].settled = rc[p].settled
                            /\ rc'[p].seq = rc[p].seq
    PROVE  Safe
<1>1. /\ server.v \in Nat /\ server'.v \in Nat /\ ProcOf \in [Fetches -> Procs]
      /\ file \in MaybeRecord
  BY Bounds DEF ConfigInv, TypeOK
<1>2. \A p \in Procs, t \in Records : /\ Knows(p, t)' = Knows(p, t)
                                      /\ Keeps(p, t)' = Keeps(p, t)
  BY DEF Knows, Keeps, Free
<1>3. PastInv' /\ AdvanceInv'
  BY <1>2 DEF RollInv, PastInv, Past, Agree, AdvanceInv, Writing
<1>4. WriterInv'
  BY <1>1 DEF RollInv, WriterInv, Writing
<1>5. \A p \in Procs : SnapFits(rc'[p]) /\ Forward(p)
  <2>1. \A p \in Procs : rc[p].snap # None => rc[p].snap.v \in Nat
    BY StateFields DEF ConfigInv, TypeOK
  <2> QED
    BY <2>1 DEF RollInv, SnapFits, Forward
<1>6. VersionInv'
  <2>1. \A t \in Records : t.v \in Nat
    BY RecordFields
  <2>2. file # None => file.v \in Nat
    BY <1>1, <2>1 DEF MaybeRecord
  <2>3. file' # None => file'.v <= server'.v
    BY <1>1, <2>2 DEF RollInv, VersionInv
  <2>4. \A p \in Procs, t \in Records : Knows(p, t)' => t.v <= server'.v
    BY <1>1, <1>2, <2>1 DEF RollInv, VersionInv
  <2> QED
    BY <2>3, <2>4 DEF VersionInv
<1>7. AnswerInv'
  <2>1. \A f \in Fetches : slot[f].pc = "answered" => slot[f].v \in Nat
    BY SlotFields DEF ConfigInv, AnsweredSlots
  <2>2. \A f \in Fetches : slot[f].pc = "answered" => slot[f].v <= server'.v
    BY <1>1, <2>1 DEF RollInv, AnswerInv
  <2> QED
    BY <2>2 DEF RollInv, AnswerInv
<1>8. ClearedInv'
  BY <1>1 DEF RollInv, ClearedInv
<1> QED
  BY <1>3, <1>4, <1>5, <1>6, <1>7, <1>8 DEF Safe, RollInv

\* A process that starts again takes its record from the file.
LEMMA RestartSafe ==
    ASSUME ConfigInv, ConfigInv', RollInv, NEW p \in Procs, Restart(p)
    PROVE  Safe
<1> DEFINE r == NewState(p)
           d == Durable(Scope(p))
<1>1. /\ rc \in [Procs -> States] /\ rc' = [rc EXCEPT ![p] = r] /\ None \notin Records
      /\ UNCHANGED <<file, server, spoiled>> /\ ProcOf \in [Fetches -> Procs]
      /\ \A f \in Fetches : slot'[f] = IF ProcOf[f] = p THEN Idle ELSE slot[f]
  BY Bounds DEF ConfigInv, TypeOK, Restart
<1>2. /\ r.held = d /\ r.seq = 0 /\ \A s \in Scopes : r.cleared[s].rec = None
      /\ r.snap = IF d = None THEN None
                  ELSE [v |-> d.v, tgt |-> d.tgt, scope |-> d.scope, seq |-> 0]
  BY DEF NewState
<1>3. d # None => d = file /\ file \in Records
  BY DEF Durable, ConfigInv, TypeOK, MaybeRecord
<1> HIDE DEF r, d
<1>4. rc'[p] = r /\ \A q \in Procs : q # p => rc'[q] = rc[q]
  BY <1>1
<1>5. \A g \in Fetches :
         /\ Writing(g)' => Writing(g) /\ ProcOf[g] # p
         /\ slot'[g].pc = "answered" => slot'[g] = slot[g] /\ ProcOf[g] # p
         /\ \A t \in Records : Captured(slot'[g], t) => slot'[g] = slot[g] /\ ProcOf[g] # p
  BY <1>1, RestHolds DEF Writing
<1>6. \A q \in Procs : q # p => Free(q)' = Free(q)
  BY <1>1 DEF Free
<1>7. \A t \in Records : Knows(p, t)' \/ Keeps(p, t)' => t = file
  BY <1>1, <1>2, <1>3, <1>4, <1>5 DEF Knows, Keeps
<1>8. \A q \in Procs, t \in Records : q # p => /\ Knows(q, t)' => Knows(q, t)
                                               /\ Keeps(q, t)' => Keeps(q, t)
  BY <1>4, <1>5, <1>6 DEF Knows, Keeps
<1>9. PastInv'
  <2> SUFFICES ASSUME ~spoiled, NEW q \in Procs, NEW t \in Records, NEW u \in Records,
                      Keeps(q, t)', Keeps(q, u)'
               PROVE  Past(t) /\ Agree(t, u)
    BY <1>1 DEF PastInv, Past, Agree
  <2>1. CASE q # p
    BY <1>8, <2>1 DEF RollInv, PastInv
  <2>2. CASE q = p
    BY <1>1, <1>7, <2>2, RecordFields DEF Past, Agree
  <2> QED
    BY <2>1, <2>2
<1>10. AdvanceInv'
  <2>1. \A g \in Fetches : Writing(g)' => slot'[g] = slot[g]
    BY <1>1, <1>5
  <2> QED
    BY <1>1, <1>5, <2>1 DEF RollInv, AdvanceInv
<1>11. WriterInv'
  <2>1. \A g \in Fetches : Writing(g)' => slot'[g] = slot[g] /\ rc'[ProcOf[g]] = rc[ProcOf[g]]
    BY <1>1, <1>4, <1>5
  <2> QED
    BY <1>5, <2>1 DEF RollInv, WriterInv
<1>12. \A q \in Procs : SnapFits(rc'[q])
  <2>1. SnapFits(r)
    BY <1>2 DEF SnapFits
  <2> QED
    BY <1>4, <2>1 DEF RollInv
<1>13. VersionInv'
  BY <1>1, <1>7, <1>8 DEF RollInv, VersionInv
<1>14. AnswerInv' /\ ClearedInv'
  <2>1. AnswerInv'
    BY <1>1, <1>5 DEF RollInv, AnswerInv
  <2>2. \A g \in Fetches : slot'[g].pc = "answered" => rc'[ProcOf[g]] = rc[ProcOf[g]]
    BY <1>1, <1>4, <1>5
  <2>3. ClearedInv'
    BY <1>5, <2>2 DEF RollInv, ClearedInv
  <2> QED
    BY <2>1, <2>3
<1>15. \A q \in Procs : Forward(q)
  <2> SUFFICES ASSUME NEW q \in Procs, rc'[q].seq >= rc[q].seq,
                      rc[q].snap # None, rc'[q].snap # None,
                      rc[q].snap.scope = rc'[q].snap.scope, ~spoiled'
               PROVE  rc'[q].snap.v >= rc[q].snap.v
    BY DEF Forward
  <2>1. rc[q].snap.v \in Nat /\ rc[q].seq \in Nat
    BY StateFields DEF ConfigInv, TypeOK
  <2>2. CASE q # p
    BY <1>4, <2>1, <2>2
  <2>3. CASE q = p
    <3>1. rc[p].seq = 0
      BY <1>2, <1>4, <2>1, <2>3
    <3>2. Free(p)
      BY <3>1 DEF RollInv, WriterInv, Writing, Free
    <3>3. /\ rc[p].held \in Records /\ rc[p].held.v = rc[p].snap.v
      BY <1>1, <2>3, StateFields DEF RollInv, SnapFits, MaybeRecord
    <3>4. Past(rc[p].held)
      BY <1>1, <3>2, <3>3 DEF RollInv, PastInv, Keeps
    <3>5. r.snap.v = file.v /\ file \in Records
      BY <1>2, <1>3, <1>4, <2>3
    <3> QED
      BY <1>4, <2>3, <3>3, <3>4, <3>5, RecordFields DEF Past, Agree
  <2> QED
    BY <2>2, <2>3
<1> QED
  BY <1>9, <1>10, <1>11, <1>12, <1>13, <1>14, <1>15 DEF Safe, RollInv

LEMMA WindowEndsSafe ==
    ASSUME ConfigInv, ConfigInv', RollInv, NEW p \in Procs, NEW s \in Scopes, WindowEnds(p, s)
    PROVE  Safe
<1>1. rc \in [Procs -> States] /\ server.v \in Nat
  BY DEF ConfigInv, TypeOK
<1>2. \A q \in Procs : /\ rc'[q].held = rc[q].held /\ rc'[q].snap = rc[q].snap
                       /\ rc'[q].cleared = rc[q].cleared /\ rc'[q].settled = rc[q].settled
                       /\ rc'[q].seq = rc[q].seq
  BY <1>1 DEF WindowEnds, States
<1>3. UNCHANGED <<file, slot, spoiled>> /\ server'.v >= server.v
  BY <1>1 DEF WindowEnds
<1> QED
  BY <1>2, <1>3, OutsideSafe

LEMMA RollInit == Init => RollInv
<1> SUFFICES ASSUME Init PROVE RollInv
  OBVIOUS
<1>1. \A p \in Procs : /\ rc[p].held = None /\ rc[p].snap = None
                       /\ \A s \in Scopes : rc[p].cleared[s].rec = None
  BY DEF Init, NewState, Durable
<1>2. \A f \in Fetches : slot[f] = Idle /\ ~Writing(f) /\ slot[f].pc # "answered"
  BY RestHolds DEF Init, Writing
<1>3. \A p \in Procs, t \in Records : ~Knows(p, t) /\ ~Keeps(p, t)
  BY <1>1, <1>2, RestHolds, Bounds DEF Knows, Keeps
<1>4. file = None
  BY DEF Init
<1> QED
  BY <1>1, <1>2, <1>3, <1>4
     DEF RollInv, PastInv, AdvanceInv, WriterInv, SnapFits, VersionInv, AnswerInv, ClearedInv

LEMMA RollNext == ConfigInv /\ ConfigInv' /\ RollInv /\ [Next]_vars => Safe
<1> SUFFICES ASSUME ConfigInv, ConfigInv', RollInv, [Next]_vars PROVE Safe
  OBVIOUS
<1>1. server.v \in Nat
  BY DEF ConfigInv, TypeOK
<1>2. CASE \/ Publish
           \/ \E mode \in {"up", "revoked", "unpublished"} : ChangeMode(mode)
           \/ \E p \in Procs : SetConsent(p)
           \/ UNCHANGED vars
  <2>1. UNCHANGED <<rc, file, slot, spoiled>>
    BY <1>2 DEF Publish, ChangeMode, SetConsent, vars
  <2>2. server'.v >= server.v
    <3>1. server \in [v : Nat, mode : {"up", "revoked", "unpublished"}]
      BY DEF ConfigInv, TypeOK
    <3> QED
      BY <1>2, <3>1 DEF Publish, ChangeMode, SetConsent, vars
  <2> QED
    BY <2>1, <2>2, OutsideSafe
<1>3. CASE \E p \in Procs : Restart(p)
  BY <1>3, RestartSafe
<1>4. CASE \E p \in Procs, s \in Scopes : WindowEnds(p, s)
  BY <1>4, WindowEndsSafe
<1>5. ASSUME NEW f \in Fetches, Begin(f) PROVE Safe
  BY <1>5, BeginSafe
<1>6. ASSUME NEW f \in Fetches, Abandon(f) \/ SettleIgnored(f) PROVE Safe
  BY <1>6, EndSafe
<1>7. ASSUME NEW f \in Fetches, Answer(f) PROVE Safe
  BY <1>7, AnswerSafe
<1>8. ASSUME NEW f \in Fetches, NEW want \in Targets, Dispatch(f, want) PROVE Safe
  BY <1>8, DispatchSafe
<1>9. ASSUME NEW f \in Fetches, NEW hint \in BOOLEAN, SettleTransient(f, hint) PROVE Safe
  BY <1>9, SettleTransientSafe
<1>10. ASSUME NEW f \in Fetches, SettleRefused(f) PROVE Safe
  BY <1>10, SettleRefusedSafe
<1>11. ASSUME NEW f \in Fetches, SettleAbsent(f) PROVE Safe
  BY <1>11, SettleAbsentSafe
<1>12. ASSUME NEW f \in Fetches, SettleOvertaken(f) PROVE Safe
  BY <1>12, SettleOvertakenSafe
<1>13. ASSUME NEW f \in Fetches, NEW now \in Clocks, Install(f, now) PROVE Safe
  BY <1>13, InstallSafe
<1>14. ASSUME NEW f \in Fetches, WriteOK(f) \/ (\E landed, cleared \in BOOLEAN : WriteFailed(f, landed, cleared))
       PROVE  Safe
  BY <1>14, WriteSafe
<1> QED
  BY <1>2, <1>3, <1>4, <1>5, <1>6, <1>7, <1>8, <1>9, <1>10, <1>11, <1>12, <1>13, <1>14 DEF Next

\* Whatever the order in which overlapping fetches and other processes settle,
\* installLocked never turns the getters of a running process back to an older
\* version, for any number of processes, fetches, versions and clock readings,
\* until a write of the file fails, races, or replaces or clears a record.
THEOREM GettersOnlyAdvance == Spec => NoGetterRollback
<1>1. ConfigInv /\ ConfigInv' /\ RollInv /\ [Next]_vars => RollInv'
  BY RollNext DEF Safe
<1>2. Spec => [](ConfigInv /\ RollInv)
  BY <1>1, ConfigAlways, RollInit, PTL DEF Spec
<1>3. ConfigInv /\ ConfigInv' /\ RollInv /\ [Next]_vars => \A p \in Procs : Forward(p)
  BY RollNext DEF Safe
<1>4. ConfigInv /\ ConfigInv' /\ RollInv /\ [Next]_vars =>
         [\A p \in Procs :
            (/\ rc'[p].seq >= rc[p].seq
             /\ rc[p].snap # None /\ rc'[p].snap # None
             /\ rc[p].snap.scope = rc'[p].snap.scope
             /\ ~spoiled') => rc'[p].snap.v >= rc[p].snap.v]_vars
  BY <1>3 DEF Forward
<1> QED
  BY <1>2, <1>4, PTL DEF Spec, NoGetterRollback
=============================================================================
