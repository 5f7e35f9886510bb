------------------------ MODULE ExperimentFactsProofs ------------------------
(***************************************************************************)
(* Proofs about ExperimentFacts, for every set of applications and every   *)
(* number of withdrawals, denials, failing writes and restarts: a fact     *)
(* that was withdrawn is never handed to the transport, a stored           *)
(* application is on file, and a consent drop is counted once.             *)
(***************************************************************************)
EXTENDS ExperimentFacts, FiniteSetTheorems, WellFoundedInduction, TLAPS

Forms == {"intent", "fact"}
Stamp == [ks : Nat, fs : Nat]
Record == [app : Apps, extra : BOOLEAN, gen : Nat, ses : BOOLEAN, sealed : BOOLEAN, admitted : BOOLEAN,
           durable : BOOLEAN, done : BOOLEAN, ev : Stamp \union {None}, rc : Nat]
Fact == [app : Apps, ks : Nat, fs : Nat, in : Nat, seq : Nat, rc : Nat]
Spool == [mem : [Apps -> SUBSET Forms], file : [Apps -> SUBSET Forms], fs : [Apps -> Nat],
          res : SUBSET Apps, dirty : BOOLEAN]
Steps == {"top", "select", "chunk", "chunkflight", "resent", "built", "flight", "respool", "rejoin", "settled"}
Worker == [pc : Steps, batch : SUBSET Fact, held : SUBSET Fact, req : SUBSET Fact, reqPurge : Nat,
           respKey : Nat, sentC : Nat, seenKey : Nat, seenPurge : Nat, seenC : Nat, last : Nat,
           chunk : SUBSET Apps, pulledAt : Nat]
Ledger == [issued : [Apps -> Nat], stored : [Apps -> Nat]]
Used == [denials : Nat, withdrawals : Nat, faults : Nat, crashes : Nat, armed : SUBSET Apps, points : SUBSET Apps]

-----------------------------------------------------------------------------
(* Numbers, sequences.                                                     *)

\* A set of sequence numbers has a least one.
LEMMA LeastNumber ==
    ASSUME NEW T \in SUBSET Nat, T # {}
    PROVE  \E n \in T : \A m \in T : n <= m
<1>1. PICK n \in T : \A m \in T : <<m, n>> \notin OpToRel(<, Nat)
  BY NatLessThanWellFounded, WFMin
<1>2. \A m \in T : ~(m < n)
  BY <1>1 DEF OpToRel
<1> QED
  BY <1>2

\* One that is bounded has a largest one.
LEMMA LargestNumber ==
    ASSUME NEW T \in SUBSET Nat, T # {}, NEW b \in Nat, \A m \in T : m <= b
    PROVE  \E n \in T : \A m \in T : m <= n
<1> DEFINE U == {u \in Nat : \A m \in T : m <= u}
<1>1. PICK u \in U : \A v \in U : u <= v
  BY LeastNumber
<1>2. CASE u \in T
  BY <1>2
<1>3. CASE u \notin T
  <2>1. \A m \in T : m <= u - 1 /\ u >= 1
    BY <1>3
  <2>2. u - 1 \in Nat
    <3>1. PICK m \in T : TRUE
      OBVIOUS
    <3> QED
      BY <2>1, <3>1
  <2>3. u - 1 \in U
    BY <2>1, <2>2
  <2> QED
    BY <1>1, <2>3
<1> QED
  BY <1>2, <1>3

\* The oldest fact of a queue.
LEMMA OldestFact ==
    ASSUME NEW Q \in SUBSET Fact, Q # {}
    PROVE  \E y \in Q : \A z \in Q : y.seq <= z.seq
<1> DEFINE T == {y.seq : y \in Q}
<1>1. T \in SUBSET Nat /\ T # {}
  BY DEF Fact
<1>2. PICK n \in T : \A m \in T : n <= m
  BY <1>1, LeastNumber
<1> QED
  BY <1>2

\* What a sequence keeps when an element leaves it.
LEMMA WithoutOne ==
    ASSUME NEW S, NEW s \in Seq(S), NEW i \in DOMAIN s
    PROVE  /\ RemoveAt(s, i) \in Seq(S)
           /\ \A j \in DOMAIN RemoveAt(s, i) : \E k \in DOMAIN s : RemoveAt(s, i)[j] = s[k]
<1> DEFINE p == SubSeq(s, 1, i - 1)
           q == SubSeq(s, i + 1, Len(s))
<1>1. /\ p \in Seq(S) /\ Len(p) = i - 1 /\ \A j \in 1 .. Len(p) : p[j] = s[j]
      /\ q \in Seq(S) /\ Len(q) = Len(s) - i /\ \A j \in 1 .. Len(q) : q[j] = s[i + j]
  OBVIOUS
<1>2. RemoveAt(s, i) = p \o q
  BY DEF RemoveAt
<1> HIDE DEF p, q
<1>3. ASSUME NEW j \in DOMAIN (p \o q) PROVE \E k \in DOMAIN s : (p \o q)[j] = s[k]
  <2>1. CASE j <= Len(p)
    <3>1. (p \o q)[j] = s[j] /\ j \in DOMAIN s
      BY <1>1, <2>1
    <3> QED
      BY <3>1
  <2>2. CASE j > Len(p)
    <3>1. (p \o q)[j] = q[j - Len(p)] /\ j - Len(p) \in 1 .. Len(q)
      BY <1>1, <2>2
    <3>2. (p \o q)[j] = s[i + (j - Len(p))] /\ i + (j - Len(p)) \in DOMAIN s
      BY <1>1, <3>1
    <3> QED
      BY <3>2
  <2> QED
    BY <1>1, <2>1, <2>2
<1> QED
  BY <1>1, <1>2, <1>3

LEMMA TailOf ==
    ASSUME NEW S, NEW s \in Seq(S), s # <<>>
    PROVE  /\ Head(s) \in S /\ Tail(s) \in Seq(S) /\ Head(s) = s[1] /\ 1 \in DOMAIN s
           /\ \A j \in DOMAIN Tail(s) : \E k \in DOMAIN s : Tail(s)[j] = s[k]
<1>1. Head(s) \in S /\ Tail(s) \in Seq(S) /\ Head(s) = s[1] /\ 1 \in DOMAIN s
  OBVIOUS
<1>2. ASSUME NEW j \in DOMAIN Tail(s) PROVE Tail(s)[j] = s[j + 1] /\ j + 1 \in DOMAIN s
  OBVIOUS
<1> QED
  BY <1>1, <1>2

LEMMA AppendOf ==
    ASSUME NEW S, NEW s \in Seq(S), NEW e \in S
    PROVE  /\ Append(s, e) \in Seq(S)
           /\ \A j \in DOMAIN Append(s, e) : Append(s, e)[j] = e \/ \E k \in DOMAIN s : Append(s, e)[j] = s[k]
OBVIOUS

LEMMA ConsOf ==
    ASSUME NEW S, NEW s \in Seq(S), NEW e \in S
    PROVE  /\ <<e>> \o s \in Seq(S)
           /\ \A j \in DOMAIN (<<e>> \o s) : (<<e>> \o s)[j] = e \/ \E k \in DOMAIN s : (<<e>> \o s)[j] = s[k]
OBVIOUS

\* A finite set in some order.
LEMMA SetInOrder ==
    ASSUME NEW S, IsFiniteSet(S)
    PROVE  /\ Cardinality(S) \in Nat
           /\ SetToSeq(S) \in [1 .. Cardinality(S) -> S]
<1>1. Cardinality(S) \in Nat /\ ExistsBijection(1 .. Cardinality(S), S)
  BY FS_CardinalityType
<1>2. \E f \in [1 .. Cardinality(S) -> S] : IsInjective(f)
  BY <1>1 DEF ExistsBijection, Bijection, Injection, IsInjective
<1> QED
  BY <1>1, <1>2 DEF SetToSeq

-----------------------------------------------------------------------------
(* The spool's operations.                                                 *)

\* What every operation on the spool keeps: only stored facts wait to be
\* resent, what the mirror has lost the file has lost, and a clean mirror is
\* the file.
SpoolOK(s) ==
    /\ s.res \subseteq Facts(s)
    /\ \A a \in Apps : s.mem[a] = {} => s.file[a] = {}
    /\ ~s.dirty => s.file = s.mem

LEMMA SpoolFields ==
    ASSUME NEW s \in Spool
    PROVE  /\ s.mem \in [Apps -> SUBSET Forms] /\ s.file \in [Apps -> SUBSET Forms]
           /\ s.fs \in [Apps -> Nat] /\ s.res \in SUBSET Apps /\ s.dirty \in BOOLEAN
BY DEF Spool

\* saveLocked writes the mirror.
LEMMA SavedFacts ==
    ASSUME NEW s \in Spool
    PROVE  /\ Saved(s) \in Spool /\ Saved(s).mem = s.mem /\ Saved(s).file = s.mem
           /\ Saved(s).fs = s.fs /\ Saved(s).res = s.res /\ Saved(s).dirty = FALSE
BY DEF Saved, Spool

LEMMA WriteFacts ==
    ASSUME NEW s \in Spool, NEW ok \in BOOLEAN
    PROVE  /\ Write(s, ok) \in Spool /\ Write(s, ok).mem = s.mem
           /\ Write(s, ok).fs = s.fs /\ Write(s, ok).res = s.res
           /\ \/ Write(s, ok).file = s.mem /\ Write(s, ok).dirty = FALSE
              \/ Write(s, ok).file = s.file /\ Write(s, ok).dirty = TRUE
<1>1. CASE ok
  BY <1>1, SavedFacts DEF Write
<1>2. CASE ~ok
  BY <1>2 DEF Write, Spool
<1> QED
  BY <1>1, <1>2

\* Writing a mirror that only grew keeps the spool in order.
LEMMA WriteOK ==
    ASSUME NEW s \in Spool, NEW s1 \in Spool, NEW ok \in BOOLEAN, SpoolOK(s),
           s1.file = s.file, s1.res = s.res, \A a \in Apps : s.mem[a] \subseteq s1.mem[a]
    PROVE  /\ SpoolOK(Write(s1, ok))
           /\ \A a \in Apps : s.file[a] # {} => Write(s1, ok).file[a] # {}
<1> DEFINE t == Write(s1, ok)
<1>1. /\ t.mem = s1.mem /\ t.res = s.res /\ t \in Spool
      /\ (t.file = s1.mem /\ t.dirty = FALSE) \/ (t.file = s.file /\ t.dirty = TRUE)
  BY WriteFacts
<1>2. t.res \subseteq Facts(t)
  BY <1>1 DEF SpoolOK, Facts
<1> QED
  BY <1>1, <1>2 DEF SpoolOK

\* t is s without the given forms.
RemovedIs(s, t, form, as) ==
    /\ t \in Spool /\ SpoolOK(t) /\ t.fs = s.fs
    /\ \A a \in Apps : t.mem[a] = IF a \in as THEN s.mem[a] \ {form} ELSE s.mem[a]
    /\ \A a \in Apps : s.file[a] # {} /\ t.mem[a] # {} => t.file[a] # {}

\* retireExperimentApplication, ack and the purges: the forms are gone from
\* the mirror, and from the file with it.
LEMMA RemovedFacts ==
    ASSUME NEW s \in Spool, SpoolOK(s), NEW form \in Forms, NEW as \in SUBSET Apps
    PROVE  /\ Removed(s, form, as) \in Spool /\ SpoolOK(Removed(s, form, as))
           /\ Removed(s, form, as).fs = s.fs
           /\ \A a \in Apps : Removed(s, form, as).mem[a] = IF a \in as THEN s.mem[a] \ {form} ELSE s.mem[a]
           /\ \A a \in Apps : s.file[a] # {} /\ Removed(s, form, as).mem[a] # {}
                                 => Removed(s, form, as).file[a] # {}
<1> DEFINE t == Removed(s, form, as)
           m == [a \in Apps |-> IF a \in as THEN s.mem[a] \ {form} ELSE s.mem[a]]
           q == IF form = "fact" THEN s.res \ as ELSE s.res
           u == [s EXCEPT !.mem = m, !.res = q]
<1>1. CASE \A a \in as : form \notin s.mem[a]
  <2>1. t = s
    BY <1>1 DEF Removed
  <2>2. \A a \in Apps : s.mem[a] = IF a \in as THEN s.mem[a] \ {form} ELSE s.mem[a]
    BY <1>1, SpoolFields
  <2> QED
    BY <2>1, <2>2
<1>2. CASE ~\A a \in as : form \notin s.mem[a]
  <2>1. t = Saved(u)
    BY <1>2 DEF Removed
  <2>2. m \in [Apps -> SUBSET Forms] /\ q \in SUBSET Apps
    BY SpoolFields
  <2>3. \A a \in q : a \in Apps /\ "fact" \in m[a]
    <3> SUFFICES ASSUME NEW a \in q PROVE a \in Apps /\ "fact" \in m[a]
      OBVIOUS
    <3>1. a \in s.res /\ a \in Apps /\ "fact" \in s.mem[a]
      BY SpoolFields DEF SpoolOK, Facts
    <3> QED
      BY <3>1 DEF Forms
  <2>4. \A a \in Apps : m[a] = IF a \in as THEN s.mem[a] \ {form} ELSE s.mem[a]
    OBVIOUS
  <2> HIDE DEF m, q
  <2>5. u \in Spool /\ u.mem = m /\ u.res = q /\ u.fs = s.fs
    BY <2>2 DEF Spool
  <2> HIDE DEF u
  <2>6. t \in Spool /\ t.mem = m /\ t.file = m /\ t.fs = s.fs /\ t.res = q /\ t.dirty = FALSE
    BY <2>1, <2>5, SavedFacts
  <2> HIDE DEF t
  <2>7. SpoolOK(t)
    BY <2>3, <2>6 DEF SpoolOK, Facts
  <2> QED
    BY <2>4, <2>6, <2>7 DEF t
<1> QED
  BY <1>1, <1>2

LEMMA FactsRemoved ==
    ASSUME NEW s \in Spool, SpoolOK(s)
    PROVE  \A as \in SUBSET Apps : /\ RemovedIs(s, Removed(s, "fact", as), "fact", as)
                                  /\ RemovedIs(s, Removed(s, "intent", as), "intent", as)
BY RemovedFacts DEF RemovedIs, Forms

\* persistExperimentApplication adds at most the intent.
LEMMA PersistedFacts ==
    ASSUME NEW s \in Spool, SpoolOK(s), NEW r \in Record, NEW ok \in BOOLEAN
    PROVE  /\ Persisted(r, s, ok) \in Spool /\ SpoolOK(Persisted(r, s, ok))
           /\ Persisted(r, s, ok).fs = s.fs
           /\ \A a \in Apps : a # r.app => Persisted(r, s, ok).mem[a] = s.mem[a]
           /\ \A a \in Apps : s.file[a] # {} => Persisted(r, s, ok).file[a] # {}
<1> DEFINE t  == Persisted(r, s, ok)
           s1 == IF Withheld(r, s) THEN s ELSE [s EXCEPT !.mem[r.app] = @ \union {"intent"}]
<1>1. r.app \in Apps
  BY DEF Record
<1>2. t = IF r.done \/ (s1 = s /\ ~s.dirty) THEN s ELSE Write(s1, ok)
  BY DEF Persisted
<1>3. /\ s1 \in Spool /\ s1.file = s.file /\ s1.res = s.res /\ s1.fs = s.fs
      /\ \A a \in Apps : s.mem[a] \subseteq s1.mem[a] /\ (a # r.app => s1.mem[a] = s.mem[a])
  <2>1. CASE Withheld(r, s)
    BY <2>1
  <2>2. CASE ~Withheld(r, s)
    <3> DEFINE m == [s.mem EXCEPT ![r.app] = @ \union {"intent"}]
    <3>1. s1 = [s EXCEPT !.mem = m]
      BY <2>2, SpoolFields
    <3>2. m \in [Apps -> SUBSET Forms]
      BY <1>1, SpoolFields DEF Forms
    <3>3. \A a \in Apps : s.mem[a] \subseteq m[a] /\ (a # r.app => m[a] = s.mem[a])
      BY <1>1, SpoolFields
    <3> HIDE DEF m
    <3> QED
      BY <3>1, <3>2, <3>3 DEF Spool
  <2> QED
    BY <2>1, <2>2
<1> HIDE DEF s1, t
<1>4. CASE t = s
  BY <1>4 DEF t
<1>5. CASE t = Write(s1, ok)
  <2>1. t \in Spool /\ t.fs = s.fs /\ t.mem = s1.mem
    BY <1>3, <1>5, WriteFacts
  <2>2. SpoolOK(t) /\ \A a \in Apps : s.file[a] # {} => t.file[a] # {}
    BY <1>3, <1>5, WriteOK
  <2> QED
    BY <1>3, <2>1, <2>2 DEF t
<1> QED
  BY <1>2, <1>4, <1>5

\* replaceApplication puts the fact in the intent's place, or changes no form
\* of the mirror; whatever the failing write left on file, the application is there.
LEMMA ReplacedFacts ==
    ASSUME NEW s \in Spool, SpoolOK(s), NEW a \in Apps, s.mem[a] # {}, NEW ok \in BOOLEAN,
           NEW landed \in BOOLEAN, factPurge \in Nat
    PROVE  LET t == Replaced(s, a, ok, landed)
           IN  /\ t \in Spool /\ SpoolOK(t)
               /\ \A b \in Apps : t.fs[b] \in {s.fs[b], factPurge}
               /\ \A b \in Apps : b # a \/ ~ok => t.mem[b] = s.mem[b]
               /\ \A b \in Apps : s.file[b] # {} => t.file[b] # {}
<1> DEFINE t == Replaced(s, a, ok, landed)
           m == [s.mem EXCEPT ![a] = {"fact"}]
           g == [s.fs EXCEPT ![a] = IF "fact" \in s.mem[a] THEN @ ELSE factPurge]
           u == [s EXCEPT !.mem = m, !.fs = g]
           d == IF landed THEN m ELSE s.file
<1>1. InPlace(s, a) = u
  BY SpoolFields DEF InPlace
<1>2. m \in [Apps -> SUBSET Forms] /\ g \in [Apps -> Nat]
  BY SpoolFields DEF Forms
<1>3. \A b \in Apps : /\ g[b] \in {s.fs[b], factPurge}
                      /\ b # a => m[b] = s.mem[b]
                      /\ b = a => m[b] = {"fact"}
  BY SpoolFields
<1> HIDE DEF m, g
<1>4. u \in Spool /\ u.mem = m /\ u.res = s.res /\ u.fs = g
  BY <1>2 DEF Spool
<1>5. CASE ok
  <2>1. t = Saved(u)
    BY <1>1, <1>5 DEF Replaced
  <2> HIDE DEF u
  <2>2. t \in Spool /\ t.mem = m /\ t.file = m /\ t.fs = g /\ t.res = s.res /\ t.dirty = FALSE
    BY <1>4, <2>1, SavedFacts
  <2> HIDE DEF t
  <2>3. SpoolOK(t)
    BY <1>3, <2>2, SpoolFields DEF SpoolOK, Facts
  <2>4. \A b \in Apps : s.file[b] # {} => t.file[b] # {}
    BY <1>3, <2>2 DEF SpoolOK
  <2> QED
    BY <1>3, <1>5, <2>2, <2>3, <2>4 DEF t
<1>6. CASE ~ok
  <2>1. t = [s EXCEPT !.dirty = TRUE, !.file = IF landed THEN u.mem ELSE s.file]
    BY <1>1, <1>6 DEF Replaced
  <2>2. t = [s EXCEPT !.dirty = TRUE, !.file = d]
    BY <1>4, <2>1
  <2>3. d \in [Apps -> SUBSET Forms]
    BY <1>2, SpoolFields
  <2>4. \A b \in Apps : (s.mem[b] = {} => d[b] = {}) /\ (s.file[b] # {} => d[b] # {})
    BY <1>3 DEF SpoolOK
  <2> HIDE DEF t, d
  <2>5. t \in Spool /\ t.mem = s.mem /\ t.file = d /\ t.fs = s.fs /\ t.res = s.res /\ t.dirty = TRUE
    BY <2>2, <2>3 DEF Spool
  <2>6. SpoolOK(t)
    BY <2>4, <2>5 DEF SpoolOK, Facts
  <2> QED
    BY <2>4, <2>5, <2>6 DEF t
<1> QED
  BY <1>5, <1>6

\* t is s with the facts of some of the given applications added.
AppendedIs(s, t, as, stamp) ==
    /\ t \in Spool /\ SpoolOK(t)
    /\ \A b \in Apps : t.fs[b] \in {s.fs[b], stamp}
    /\ \A b \in Apps : b \notin as => t.mem[b] = s.mem[b]
    /\ \A b \in Apps : s.file[b] # {} => t.file[b] # {}

\* append adds facts, with the stamp of their request.
LEMMA AppendedFacts ==
    ASSUME NEW s \in Spool, SpoolOK(s), NEW as \in SUBSET Apps, NEW stamp \in Nat, NEW ok \in BOOLEAN
    PROVE  /\ Appended(s, as, stamp, ok) \in Spool /\ SpoolOK(Appended(s, as, stamp, ok))
           /\ \A b \in Apps : Appended(s, as, stamp, ok).fs[b] \in {s.fs[b], stamp}
           /\ \A b \in Apps : b \notin as => Appended(s, as, stamp, ok).mem[b] = s.mem[b]
           /\ \A b \in Apps : s.file[b] # {} => Appended(s, as, stamp, ok).file[b] # {}
<1> DEFINE t   == Appended(s, as, stamp, ok)
           new == as \ Facts(s)
           m   == [a \in Apps |-> IF a \in new THEN s.mem[a] \union {"fact"} ELSE s.mem[a]]
           g   == [a \in Apps |-> IF a \in new THEN stamp ELSE s.fs[a]]
           u   == [s EXCEPT !.mem = m, !.fs = g]
<1>1. t = IF new = {} /\ ~s.dirty THEN s ELSE Write(u, ok)
  BY DEF Appended
<1>2. m \in [Apps -> SUBSET Forms] /\ g \in [Apps -> Nat]
  BY SpoolFields DEF Forms
<1>3. \A b \in Apps : /\ g[b] \in {s.fs[b], stamp} /\ s.mem[b] \subseteq m[b]
                      /\ b \notin as => m[b] = s.mem[b]
  OBVIOUS
<1> HIDE DEF m, g
<1>4. u \in Spool /\ u.mem = m /\ u.res = s.res /\ u.fs = g /\ u.file = s.file
  BY <1>2 DEF Spool
<1> HIDE DEF u, t
<1>5. CASE t = s
  BY <1>5 DEF t
<1>6. CASE t = Write(u, ok)
  <2>1. t \in Spool /\ t.fs = g /\ t.mem = m
    BY <1>4, <1>6, WriteFacts
  <2>2. SpoolOK(t) /\ \A a \in Apps : s.file[a] # {} => t.file[a] # {}
    BY <1>3, <1>4, <1>6, WriteOK
  <2> QED
    BY <1>3, <2>1, <2>2 DEF t
<1> QED
  BY <1>1, <1>5, <1>6

LEMMA FactsAppended ==
    ASSUME NEW s \in Spool, SpoolOK(s), NEW ok \in BOOLEAN
    PROVE  \A as \in SUBSET Apps, stamp \in Nat : AppendedIs(s, Appended(s, as, stamp, ok), as, stamp)
BY AppendedFacts DEF AppendedIs

\* requeueResend.
LEMMA RequeuedFacts ==
    ASSUME NEW s \in Spool, SpoolOK(s), NEW as
    PROVE  /\ Requeued(s, as) \in Spool /\ SpoolOK(Requeued(s, as))
           /\ Requeued(s, as).mem = s.mem /\ Requeued(s, as).file = s.file /\ Requeued(s, as).fs = s.fs
<1> DEFINE q == s.res \union (as \intersect Facts(s))
           t == Requeued(s, as)
<1>1. q \in SUBSET Apps /\ q \subseteq Facts(s)
  BY SpoolFields DEF Facts, SpoolOK
<1>2. t = [s EXCEPT !.res = q]
  BY DEF Requeued
<1> HIDE DEF q, t
<1>3. t \in Spool /\ t.mem = s.mem /\ t.file = s.file /\ t.fs = s.fs /\ t.dirty = s.dirty /\ t.res = q
  BY <1>1, <1>2 DEF Spool
<1>4. SpoolOK(t)
  BY <1>1, <1>3 DEF SpoolOK, Facts
<1> QED
  BY <1>3, <1>4 DEF t

\* An application reported stored is on file.
LEMMA RetainedOnFile ==
    ASSUME NEW s \in Spool, SpoolOK(s), NEW r \in Record, Retained(r, s), ~r.done
    PROVE  s.file[r.app] # {}
BY SpoolFields DEF SpoolOK, Retained

\* Both forms of everything removed.
LEMMA AllRemoved ==
    ASSUME NEW s \in Spool, SpoolOK(s), NEW as, as = Apps
    PROVE  LET t == Removed(Removed(s, "intent", Apps), "fact", as)
           IN  t \in Spool /\ SpoolOK(t) /\ t.fs = s.fs /\ \A a \in Apps : t.mem[a] = {} /\ t.file[a] = {}
<1> DEFINE v == Removed(s, "intent", Apps)
           t == Removed(v, "fact", as)
<1>1. v \in Spool /\ SpoolOK(v) /\ v.fs = s.fs /\ \A a \in Apps : v.mem[a] = s.mem[a] \ {"intent"}
  BY RemovedFacts DEF Forms
<1> HIDE DEF v
<1>2. \A a \in Apps : a \in as
  BY SpoolFields
<1>3. t \in Spool /\ SpoolOK(t) /\ t.fs = v.fs /\ \A a \in Apps : t.mem[a] = v.mem[a] \ {"fact"}
  BY <1>1, <1>2, RemovedFacts DEF Forms
<1>4. \A a \in Apps : t.mem[a] = {}
  BY <1>1, <1>3, SpoolFields DEF Forms
<1>5. \A a \in Apps : t.file[a] = {}
  BY <1>3, <1>4 DEF SpoolOK
<1> QED
  BY <1>1, <1>3, <1>4, <1>5 DEF v

-----------------------------------------------------------------------------
(* The inductive invariant.                                                *)

TypeInv ==
    /\ consent \in [granted : BOOLEAN, epoch : Nat]
    /\ served \in BOOLEAN /\ confirmed \in BOOLEAN /\ declaring \in BOOLEAN /\ applied \in BOOLEAN
    /\ exposed \in Apps \union {None}
    /\ owed \in Seq(Record)
    /\ sweep \in Emission \union {None}
    /\ purgeEpoch \in Nat /\ factPurge \in Nat /\ key \in [epoch : Nat, mark : Nat]
    /\ noted \in Nat /\ low \in Nat /\ factSeq \in Nat /\ drained \in Nat
    /\ queue \in SUBSET Fact
    /\ w \in Worker
    /\ sp \in Spool
    /\ purgeOwed \in BOOLEAN
    /\ receipts \in Ledger
    /\ used \in Used
    /\ dead \in SUBSET used.armed /\ spared \in SUBSET Apps /\ kept \in SUBSET Apps

\* What holds of an application that is armed and was never withdrawn.
Unwithdrawn(a) == a \in used.armed /\ a \notin dead

\* A stamp a fact may carry: no generation the process has not reached and,
\* when the fact's application was withdrawn, one that a filter recognises.
Stamped(a, ks, fs) ==
    /\ ks <= key.epoch /\ fs <= factPurge
    /\ a \in dead => KeyWithdrawn(ks) \/ PurgeWithdrawn(fs)

\* A fact on its way; the watermark has not passed it, and its key is noted
\* as queued, or will be by the emission that queued it.
FactOK(x) ==
    /\ x.app \in used.armed
    /\ Stamped(x.app, x.ks, x.fs)
    /\ x.seq >= low /\ x.seq > 0
    /\ x.seq <= noted \/ (sweep # None /\ sweep.ph = "note" /\ x.seq = sweep.seq)

PipeInv == \A x \in InPipeline : FactOK(x)

\* An owed application.
RecordOK(r) == Unwithdrawn(r.app) /\ (r.ev # None => r.ev.ks <= key.epoch /\ r.ev.fs <= factPurge)

OwedInv == \A r \in Owed : RecordOK(r)

\* An emission under way; past its handoff it carries the fact's stamp.
EmissionOK(e) ==
    /\ e.app \in used.armed /\ e.ks <= key.epoch /\ e.fs <= factPurge
    /\ e.ph = "enqueue" => Stamped(e.app, e.ks, e.fs)

SweepInv ==
    /\ sweep # None => EmissionOK(sweep)
    /\ exposed # None => Unwithdrawn(exposed)

SpoolInv ==
    /\ SpoolOK(sp)
    /\ \A a \in Apps : sp.fs[a] <= factPurge
    /\ \A a \in Apps : sp.mem[a] # {} => Unwithdrawn(a)

\* Sequence numbers: the queue is ahead of what the worker took and of what
\* a denial drained.
OrderInv ==
    /\ \A x \in queue : x.seq > w.last /\ x.seq > drained /\ x.seq <= factSeq
    /\ \A x, y \in queue : x.seq = y.seq => x = y
    /\ w.last <= factSeq /\ drained <= factSeq /\ low <= factSeq + 1

\* The worker: what it holds where, that its batch has passed the filters of
\* the generations it last looked at, and what a withdrawal that lands
\* between its look and its use leaves for the last check to see.
WorkerOK(v) ==
    /\ v.chunk \subseteq used.armed
    /\ v.seenKey <= key.epoch /\ v.respKey <= key.epoch /\ v.pulledAt <= key.epoch
    /\ v.seenPurge <= factPurge /\ v.reqPurge <= factPurge
    /\ v.pc \in {"top", "select", "chunk", "chunkflight"} => v.held = {} /\ v.req = {}
    /\ v.pc \notin {"chunk", "chunkflight"} => v.chunk = {}
    /\ v.pc = "built" => v.req = v.batch
    /\ v.pc \in {"built", "flight", "respool"} => \A x \in v.req : x.fs >= v.reqPurge
    /\ \A x \in v.batch : x.fs >= v.seenPurge
    /\ key.epoch = v.seenKey => \A x \in v.batch : x.ks >= key.mark
    /\ v.pc = "respool" => \A x \in v.req : x.app \in dead => v.respKey < key.epoch /\ KeyWithdrawn(x.ks)
    /\ v.pc = "chunk" => \A a \in v.chunk : a \in dead => factPurge > 0 \/ KeyWithdrawn(v.pulledAt)

WorkerInv == WorkerOK(w)

FactInv == /\ TypeInv /\ PipeInv /\ OwedInv /\ SweepInv /\ SpoolInv /\ OrderInv /\ WorkerInv
           /\ StoredSurvives

LEMMA Bounds == IsFiniteSet(Apps) /\ None \notin Emission
BY ExperimentFactsAssumption

LEMMA WorkerFields ==
    ASSUME NEW v \in Worker
    PROVE  /\ v.pc \in Steps /\ v.batch \in SUBSET Fact /\ v.held \in SUBSET Fact /\ v.req \in SUBSET Fact
           /\ v.reqPurge \in Nat /\ v.respKey \in Nat /\ v.sentC \in Nat /\ v.seenKey \in Nat
           /\ v.seenPurge \in Nat /\ v.seenC \in Nat /\ v.last \in Nat /\ v.chunk \in SUBSET Apps
           /\ v.pulledAt \in Nat
BY DEF Worker

LEMMA FactFields ==
    ASSUME NEW x \in Fact
    PROVE  x.app \in Apps /\ x.ks \in Nat /\ x.fs \in Nat /\ x.in \in Nat /\ x.seq \in Nat /\ x.rc \in Nat
BY DEF Fact

LEMMA EmissionFields ==
    ASSUME NEW e \in Emission
    PROVE  /\ e.app \in Apps /\ e.gen \in Nat /\ e.ph \in {"seal", "build", "enqueue", "note"}
           /\ e.purge \in Nat /\ e.ks \in Nat /\ e.fs \in Nat /\ e.seq \in Nat /\ e.rc \in Nat
BY DEF Emission

LEMMA RecordFields ==
    ASSUME NEW r \in Record
    PROVE  /\ r.app \in Apps /\ r.extra \in BOOLEAN /\ r.gen \in Nat /\ r.ses \in BOOLEAN
           /\ r.sealed \in BOOLEAN /\ r.admitted \in BOOLEAN /\ r.durable \in BOOLEAN /\ r.done \in BOOLEAN
           /\ r.ev \in Stamp \union {None} /\ r.rc \in Nat
BY DEF Record

LEMMA KeyFields == ASSUME TypeInv PROVE key.epoch \in Nat /\ key.mark \in Nat
BY DEF TypeInv

LEMMA UsedFields ==
    ASSUME NEW u \in Used
    PROVE  /\ u.denials \in Nat /\ u.withdrawals \in Nat /\ u.faults \in Nat /\ u.crashes \in Nat
           /\ u.armed \in SUBSET Apps /\ u.points \in SUBSET Apps
BY DEF Used

\* newEventDelivery, and the receipts of new spool entries.
LEMMA IssuedFacts ==
    ASSUME TypeInv, NEW as
    PROVE  /\ Issued(as) \in Ledger /\ Issued(as).stored = receipts.stored
           /\ \A a \in Apps : Issued(as).issued[a] = IF a \in as THEN receipts.issued[a] + 1 ELSE receipts.issued[a]
<1> DEFINE f == [a \in Apps |-> IF a \in as THEN receipts.issued[a] + 1 ELSE receipts.issued[a]]
<1>1. receipts \in Ledger /\ Issued(as) = [receipts EXCEPT !.issued = f]
  BY DEF TypeInv, Issued
<1>2. \A a \in Apps : receipts.issued[a] \in Nat /\ receipts.issued[a] + 1 \in Nat
  BY <1>1 DEF Ledger
<1>3. f \in [Apps -> Nat]
  BY <1>2
<1>4. \A a \in Apps : f[a] = IF a \in as THEN receipts.issued[a] + 1 ELSE receipts.issued[a]
  OBVIOUS
<1> HIDE DEF f
<1> QED
  BY <1>1, <1>3, <1>4 DEF Ledger

LEMMA ShelvedFacts ==
    ASSUME TypeInv, NEW es, \A x \in es : x.rc \in Nat
    PROVE  /\ Shelved(es) \in Ledger /\ Shelved(es).issued = receipts.issued
           /\ \A a \in Apps : \/ Shelved(es).stored[a] = receipts.stored[a] /\ a \notin AppsOf(es) \ Facts(sp)
                             \/ \E x \in es : x.app = a /\ Shelved(es).stored[a] = x.rc
<1> DEFINE f == [a \in Apps |-> IF a \in AppsOf(es) \ Facts(sp)
                              THEN (CHOOSE x \in es : x.app = a).rc ELSE receipts.stored[a]]
<1>1. receipts \in Ledger /\ Shelved(es) = [receipts EXCEPT !.stored = f]
  BY DEF TypeInv, Shelved
<1>2. \A a \in AppsOf(es) : \E x \in es : x.app = a
  BY DEF AppsOf
<1>3. \A a \in AppsOf(es) : LET x == CHOOSE x \in es : x.app = a IN x \in es /\ x.app = a
  BY <1>2
<1>4. f \in [Apps -> Nat]
  BY <1>1, <1>3 DEF Ledger
<1>5. \A a \in Apps : \/ f[a] = receipts.stored[a] /\ a \notin AppsOf(es) \ Facts(sp)
                      \/ \E x \in es : x.app = a /\ f[a] = x.rc
  BY <1>3
<1> HIDE DEF f
<1>6. Shelved(es) \in Ledger /\ Shelved(es).stored = f /\ Shelved(es).issued = receipts.issued
  BY <1>1, <1>4 DEF Ledger
<1> QED
  BY <1>5, <1>6

\* The worker's filters let nothing withdrawn pass, though they look only
\* when a generation has moved since it last looked.
LEMMA FilterSound ==
    ASSUME TypeInv, WorkerInv, NEW es \in SUBSET w.batch
    PROVE  /\ StillAuthorized(es) \in SUBSET es
           /\ \A x \in StillAuthorized(es) : ~PurgeWithdrawn(x.fs) /\ ~KeyWithdrawn(x.ks)
<1> SUFFICES ASSUME NEW x \in StillAuthorized(es)
             PROVE  x \in es /\ ~PurgeWithdrawn(x.fs) /\ ~KeyWithdrawn(x.ks)
  OBVIOUS
<1>1. /\ x \in es /\ (factPurge # w.seenPurge => ~PurgeWithdrawn(x.fs))
      /\ (key.epoch # w.seenKey => ~KeyWithdrawn(x.ks))
  BY DEF StillAuthorized, KeySpares, SentinelSpares
<1>2. w \in Worker /\ factPurge \in Nat /\ x \in Fact
  BY <1>1, WorkerFields DEF TypeInv
<1>3. x.fs \in Nat /\ x.ks \in Nat /\ key.mark \in Nat
  BY <1>2, FactFields, KeyFields
<1>4. factPurge = w.seenPurge => ~PurgeWithdrawn(x.fs)
  BY <1>1, <1>2, <1>3 DEF PurgeWithdrawn, WorkerInv, WorkerOK
<1>5. key.epoch = w.seenKey => ~KeyWithdrawn(x.ks)
  BY <1>1, <1>2, <1>3 DEF KeyWithdrawn, WorkerInv, WorkerOK
<1> QED
  BY <1>1, <1>4, <1>5

LEMMA LookedFacts ==
    ASSUME TypeInv
    PROVE  /\ Looked \in Worker /\ Looked.pc = w.pc /\ Looked.batch = w.batch /\ Looked.held = w.held
           /\ Looked.req = w.req /\ Looked.reqPurge = w.reqPurge /\ Looked.respKey = w.respKey
           /\ Looked.seenKey = key.epoch /\ Looked.seenPurge = factPurge /\ Looked.last = w.last
           /\ Looked.chunk = w.chunk /\ Looked.pulledAt = w.pulledAt
<1>1. w \in Worker /\ factPurge \in Nat /\ key.epoch \in Nat
  BY KeyFields DEF TypeInv
<1> QED
  BY <1>1 DEF Looked, Worker

\* dropBatchOnConsentEpoch leaves a batch that every generation authorizes.
LEMMA DropBatchFacts ==
    ASSUME TypeInv, WorkerInv
    PROVE  /\ DropBatch \in Worker /\ DropBatch.pc = w.pc /\ DropBatch.held = w.held
           /\ DropBatch.batch \in SUBSET w.batch
           /\ \A x \in DropBatch.batch : ~PurgeWithdrawn(x.fs) /\ ~KeyWithdrawn(x.ks)
           /\ DropBatch.req = w.req /\ DropBatch.reqPurge = w.reqPurge /\ DropBatch.respKey = w.respKey
           /\ DropBatch.seenKey = key.epoch /\ DropBatch.seenPurge = factPurge /\ DropBatch.last = w.last
           /\ DropBatch.chunk = w.chunk /\ DropBatch.pulledAt = w.pulledAt
<1> DEFINE b == IF consent.epoch # w.seenC THEN {} ELSE StillAuthorized(w.batch)
<1>1. DropBatch = [Looked EXCEPT !.batch = b, !.seenC = consent.epoch]
  BY DEF DropBatch
<1>2. b \in SUBSET w.batch /\ \A x \in b : ~PurgeWithdrawn(x.fs) /\ ~KeyWithdrawn(x.ks)
  BY FilterSound
<1>3. w \in Worker /\ consent.epoch \in Nat
  BY DEF TypeInv
<1>4. b \in SUBSET Fact
  BY <1>2, <1>3, WorkerFields
<1> HIDE DEF b
<1>5. /\ DropBatch \in Worker /\ DropBatch.pc = Looked.pc /\ DropBatch.held = Looked.held
      /\ DropBatch.batch = b
      /\ DropBatch.req = Looked.req /\ DropBatch.reqPurge = Looked.reqPurge
      /\ DropBatch.respKey = Looked.respKey /\ DropBatch.seenKey = Looked.seenKey
      /\ DropBatch.seenPurge = Looked.seenPurge /\ DropBatch.last = Looked.last
      /\ DropBatch.chunk = Looked.chunk /\ DropBatch.pulledAt = Looked.pulledAt
  BY <1>1, <1>3, <1>4, LookedFacts DEF Worker
<1> QED
  BY <1>2, <1>5, LookedFacts

-----------------------------------------------------------------------------
(* The worker's steps.                                                     *)

\* A step of the worker adds nothing to the pipeline and moves no generation:
\* what it must still show is about the worker, the spool and the receipts.
LEMMA WorkerStep ==
    ASSUME FactInv,
           UNCHANGED <<consent, plane, owed, sweep, epochs, noted, factSeq, drained, purgeOwed, dead, spared>>,
           used' \in Used, used'.armed = used.armed,
           queue' \in SUBSET queue, w' \in Worker, WorkerOK(w'),
           w'.last \in {w.last} \union {x.seq : x \in queue}, \A x \in queue' : x.seq > w'.last,
           w'.batch \union w'.held \union w'.req \subseteq InPipeline,
           low' \in Nat, low' <= factSeq + 1,
           \A x \in queue' \union w'.batch \union w'.held \union w'.req : x.seq >= low',
           sp' \in Spool, SpoolOK(sp'), \A a \in Apps : sp'.fs[a] <= factPurge,
           \A a \in Apps : sp'.mem[a] # {} => sp.mem[a] # {} \/ Unwithdrawn(a),
           receipts' = receipts \/ receipts' \in Ledger,
           kept' \in SUBSET Apps, \A a \in kept' : sp'.file[a] # {}
    PROVE  FactInv'
<1>1. TypeInv'
  BY DEF FactInv, TypeInv, plane, epochs
<1>2. PipeInv'
  <2> SUFFICES ASSUME NEW x \in InPipeline' PROVE FactOK(x)'
    BY DEF PipeInv
  <2>1. x \in InPipeline /\ x.seq >= low'
    BY DEF InPipeline
  <2>2. FactOK(x)
    BY <2>1 DEF FactInv, PipeInv
  <2> QED
    BY <2>1, <2>2 DEF FactOK, Stamped, KeyWithdrawn, PurgeWithdrawn, epochs
<1>3. OwedInv'
  BY DEF FactInv, OwedInv, Owed, RecordOK, Unwithdrawn, epochs
<1>4. SweepInv'
  BY DEF FactInv, SweepInv, EmissionOK, Stamped, KeyWithdrawn, PurgeWithdrawn, Unwithdrawn, epochs, plane
<1>5. SpoolInv'
  BY DEF FactInv, SpoolInv, SpoolOK, Facts, Unwithdrawn, epochs
<1>6. OrderInv'
  <2>1. w'.last <= factSeq
    BY DEF FactInv, OrderInv
  <2>2. \A x \in queue' : x.seq > w'.last /\ x.seq > drained' /\ x.seq <= factSeq'
    BY DEF FactInv, OrderInv
  <2>3. \A x, y \in queue' : x.seq = y.seq => x = y
    BY DEF FactInv, OrderInv
  <2>4. w'.last <= factSeq' /\ drained' <= factSeq' /\ low' <= factSeq' + 1
    BY <2>1 DEF FactInv, OrderInv
  <2> QED
    BY <2>2, <2>3, <2>4 DEF OrderInv
<1>7. WorkerInv'
  BY DEF WorkerInv, WorkerOK, KeyWithdrawn, epochs
<1>8. StoredSurvives'
  BY DEF StoredSurvives
<1> QED
  BY <1>1, <1>2, <1>3, <1>4, <1>5, <1>6, <1>7, <1>8 DEF FactInv

\* The watermark is at or below everything the batch holds and at most one
\* past the last fact taken or drained.
LEMMA LowMarkFacts ==
    ASSUME TypeInv, OrderInv, NEW b \in SUBSET Fact
    PROVE  /\ LowMark(b) \in Nat /\ LowMark(b) <= factSeq + 1
           /\ \A x \in b : x.seq >= LowMark(b)
           /\ \A x \in queue : x.seq >= LowMark(b)
<1> DEFINE past == (IF w.last > drained THEN w.last ELSE drained) + 1
           held == {x.seq : x \in b} \union {past}
<1>1. w.last \in Nat /\ drained \in Nat /\ factSeq \in Nat /\ queue \in SUBSET Fact
  BY WorkerFields DEF TypeInv
<1>2. past \in Nat /\ past <= factSeq + 1 /\ past >= w.last + 1 /\ past >= drained + 1
  BY <1>1 DEF OrderInv
<1>3. \A x \in queue : x.seq >= w.last + 1 /\ x.seq >= drained + 1 /\ x.seq \in Nat
  BY <1>1, FactFields DEF OrderInv
<1>4. \A x \in queue : x.seq >= past
  BY <1>1, <1>3
<1>5. LowMark(b) = CHOOSE n \in held : \A m \in held : n <= m
  BY DEF LowMark
<1> HIDE DEF past
<1>6. held \in SUBSET Nat /\ past \in held /\ \A x \in b : x.seq \in held
  BY <1>2, FactFields
<1> HIDE DEF held
<1>7. LowMark(b) \in held /\ \A m \in held : LowMark(b) <= m
  <2>1. \E n \in held : \A m \in held : n <= m
    BY <1>6, LeastNumber
  <2> QED
    BY <1>5, <2>1
<1>8. LowMark(b) \in Nat /\ LowMark(b) <= past
  BY <1>6, <1>7
<1>9. ASSUME NEW x \in queue PROVE x.seq >= LowMark(b)
  BY <1>1, <1>2, <1>4, <1>8, FactFields
<1>10. LowMark(b) <= factSeq + 1
  BY <1>1, <1>2, <1>8
<1>11. ASSUME NEW x \in b PROVE x.seq >= LowMark(b)
  BY <1>6, <1>7, <1>8
<1> QED
  BY <1>8, <1>9, <1>10, <1>11

\* A worker that has just looked and holds only what the filters let pass.
LEMMA LookedOK ==
    ASSUME TypeInv, NEW v \in Worker, v.chunk \subseteq used.armed, v.seenKey = key.epoch, v.seenPurge = factPurge,
           v.respKey <= key.epoch, v.pulledAt <= key.epoch, v.reqPurge <= factPurge,
           v.pc \in {"top", "select", "chunk", "chunkflight"} => v.held = {} /\ v.req = {},
           v.pc \notin {"chunk", "chunkflight"} => v.chunk = {},
           v.pc = "built" => v.req = v.batch,
           v.pc \in {"built", "flight", "respool"} => \A x \in v.req : x.fs >= v.reqPurge,
           \A x \in v.batch : ~PurgeWithdrawn(x.fs) /\ ~KeyWithdrawn(x.ks),
           v.pc = "respool" => \A x \in v.req : x.app \notin dead,
           v.pc = "chunk" => v.chunk \intersect dead = {}
    PROVE  WorkerOK(v)
<1>1. key.epoch \in Nat /\ key.mark \in Nat /\ factPurge \in Nat
  BY KeyFields DEF TypeInv
<1>2. \A x \in v.batch : x.fs >= factPurge /\ x.ks >= key.mark
  BY <1>1, WorkerFields, FactFields DEF PurgeWithdrawn, KeyWithdrawn
<1>3. v.seenKey <= key.epoch /\ v.seenPurge <= factPurge
  BY <1>1
<1> QED
  BY <1>2, <1>3 DEF WorkerOK

\* A stamp that the filters let pass belongs to no withdrawn application.
LEMMA FactAlive ==
    ASSUME FactInv, NEW x \in InPipeline, ~PurgeWithdrawn(x.fs), ~KeyWithdrawn(x.ks)
    PROVE  x.app \notin dead
BY DEF FactInv, PipeInv, FactOK, Stamped

\* The facts of the pipeline, the invariant's parts at hand.
LEMMA FactParts ==
    ASSUME FactInv
    PROVE  /\ TypeInv /\ PipeInv /\ OwedInv /\ SweepInv /\ SpoolInv /\ OrderInv /\ WorkerInv
           /\ StoredSurvives /\ InPipeline \in SUBSET Fact /\ w \in Worker /\ sp \in Spool /\ SpoolOK(sp)
           /\ receipts \in Ledger /\ used \in Used /\ low \in Nat /\ factPurge \in Nat
           /\ factSeq \in Nat /\ key.epoch \in Nat /\ key.mark \in Nat
           /\ low <= factSeq + 1 /\ \A a \in Apps : sp.fs[a] <= factPurge
           /\ \A x \in InPipeline : x.seq >= low
           /\ \A x \in queue : x.seq > w.last
           /\ kept \in SUBSET Apps /\ \A a \in kept : sp.file[a] # {}
<1>1. TypeInv /\ PipeInv /\ OwedInv /\ SweepInv /\ SpoolInv /\ OrderInv /\ WorkerInv /\ StoredSurvives
  BY DEF FactInv
<1>2. w \in Worker /\ queue \in SUBSET Fact
  BY <1>1 DEF TypeInv
<1>3. InPipeline \in SUBSET Fact
  BY <1>2, WorkerFields DEF InPipeline
<1>4. \A x \in InPipeline : x.seq >= low
  BY <1>1 DEF PipeInv, FactOK
<1>5. key.epoch \in Nat /\ key.mark \in Nat
  BY <1>1, KeyFields
<1> QED
  BY <1>1, <1>2, <1>3, <1>4, <1>5 DEF TypeInv, SpoolInv, OrderInv, StoredSurvives

\* The top of the loop.
LEMMA WorkerTopKeeps == ASSUME FactInv, WorkerTop PROVE FactInv'
<1> USE FactParts
<1>1. /\ w.pc = "top" /\ low' = LowMark(w.batch) /\ w' = [DropBatch EXCEPT !.pc = "select"]
      /\ receipts' = receipts
      /\ UNCHANGED <<consent, plane, owed, sweep, epochs, noted, factSeq, queue, drained, sp, purgeOwed, used,
                     dead, spared, kept>>
  BY DEF WorkerTop, hist
<1>2. /\ w' \in Worker /\ w'.pc = "select" /\ w'.batch = DropBatch.batch /\ w'.held = w.held /\ w'.req = w.req
      /\ w'.reqPurge = w.reqPurge /\ w'.respKey = w.respKey /\ w'.seenKey = key.epoch
      /\ w'.seenPurge = factPurge /\ w'.last = w.last /\ w'.chunk = w.chunk /\ w'.pulledAt = w.pulledAt
  BY <1>1, DropBatchFacts DEF Worker, Steps
<1>3. w.held = {} /\ w.req = {} /\ w.chunk = {} /\ w.reqPurge <= factPurge
      /\ w.respKey <= key.epoch /\ w.pulledAt <= key.epoch
  BY <1>1 DEF WorkerInv, WorkerOK
<1>4. WorkerOK(w')
  BY <1>2, <1>3, DropBatchFacts, LookedOK
<1>5. w.batch \in SUBSET Fact
  BY WorkerFields
<1>6. /\ low' \in Nat /\ low' <= factSeq + 1
      /\ \A x \in queue' \union w'.batch \union w'.held \union w'.req : x.seq >= low'
  BY <1>1, <1>2, <1>3, <1>5, LowMarkFacts, DropBatchFacts
<1>7. w'.batch \union w'.held \union w'.req \subseteq InPipeline
  BY <1>2, <1>3, DropBatchFacts DEF InPipeline
<1> QED
  BY <1>1, <1>2, <1>4, <1>6, <1>7, WorkerStep

\* admitReceivedEvent takes the oldest event of the queue.
LEMMA AdmitsKeeps ==
    ASSUME FactInv, NEW then \in {"top", "resent"}, w.pc \in {"select", "settled"},
           then = "top" => w.pc = "select", Admits(then)
    PROVE  FactInv'
<1> USE FactParts
<1> DEFINE x    == CHOOSE y \in queue : \A z \in queue : y.seq <= z.seq
           late == x.in < consent.epoch
           b    == IF late \/ PurgeWithdrawn(x.fs) \/ KeyWithdrawn(x.ks) THEN DropBatch.batch
                   ELSE DropBatch.batch \union {x}
<1>1. /\ queue # {} /\ queue' = queue \ {x}
      /\ w' = [DropBatch EXCEPT !.pc = then, !.last = x.seq, !.batch = b]
      /\ receipts' = receipts
      /\ UNCHANGED <<consent, plane, owed, sweep, epochs, noted, low, factSeq, drained, sp, purgeOwed, used,
                     dead, spared, kept>>
  BY DropBatchFacts DEF Admits, hist, marks, Worker
<1>2. x \in queue /\ \A z \in queue : x.seq <= z.seq
  <2>1. queue \in SUBSET Fact
    BY DEF TypeInv
  <2>2. \E y \in queue : \A z \in queue : y.seq <= z.seq
    BY <1>1, <2>1, OldestFact
  <2> QED
    BY <2>2
<1>3. x \in InPipeline /\ x \in Fact
  BY <1>2 DEF InPipeline
<1>5. /\ b \in SUBSET Fact /\ b \subseteq InPipeline
      /\ \A y \in b : ~PurgeWithdrawn(y.fs) /\ ~KeyWithdrawn(y.ks)
  BY <1>3, DropBatchFacts, WorkerFields DEF InPipeline
<1>6. ASSUME NEW y \in queue' PROVE y.seq > x.seq
  <2>1. y \in queue /\ y # x
    BY <1>1
  <2>2. y.seq # x.seq /\ x.seq <= y.seq
    BY <1>2, <2>1 DEF OrderInv
  <2>3. y.seq \in Nat /\ x.seq \in Nat
    BY <1>3, <2>1, FactFields DEF TypeInv
  <2> QED
    BY <2>2, <2>3
<1>7. x.seq \in Nat
  BY <1>3, FactFields
<1> HIDE DEF x, late, b
<1>8. /\ w' \in Worker /\ w'.pc = then /\ w'.batch = b /\ w'.held = w.held /\ w'.req = w.req
      /\ w'.reqPurge = w.reqPurge /\ w'.respKey = w.respKey /\ w'.seenKey = key.epoch
      /\ w'.seenPurge = factPurge /\ w'.last = x.seq /\ w'.chunk = w.chunk /\ w'.pulledAt = w.pulledAt
  BY <1>1, <1>5, <1>7, DropBatchFacts DEF Worker, Steps
<1>9. /\ w.chunk = {} /\ w.reqPurge <= factPurge /\ w.respKey <= key.epoch /\ w.pulledAt <= key.epoch
      /\ then = "top" => w.held = {} /\ w.req = {}
  BY DEF WorkerInv, WorkerOK
<1>10. WorkerOK(w')
  BY <1>5, <1>8, <1>9, LookedOK
<1>11. w'.batch \union w'.held \union w'.req \subseteq InPipeline
  BY <1>5, <1>8 DEF InPipeline
<1>12. \A y \in queue' \union w'.batch \union w'.held \union w'.req : y.seq >= low'
  BY <1>1, <1>11 DEF InPipeline
<1>13. queue' \in SUBSET queue /\ \A y \in queue' : y.seq > w'.last
  BY <1>1, <1>6, <1>8
<1>14. w'.last \in {w.last} \union {y.seq : y \in queue}
  BY <1>2, <1>8
<1> QED
  BY <1>1, <1>8, <1>10, <1>11, <1>12, <1>13, <1>14, WorkerStep

LEMMA ReceiveKeeps == ASSUME FactInv, Receive PROVE FactInv'
BY AdmitsKeeps DEF Receive

LEMMA FlushDrainKeeps == ASSUME FactInv, FlushDrain PROVE FactInv'
BY AdmitsKeeps DEF FlushDrain

\* resendSpooledChunks: what waits to be resent is stored, hence not withdrawn.
LEMMA PullChunkKeeps == ASSUME FactInv, PullChunk PROVE FactInv'
<1> USE FactParts
<1>1. /\ w.pc = "select" /\ sp' = [sp EXCEPT !.res = {}] /\ receipts' = receipts
      /\ w' = [DropBatch EXCEPT !.pc = "chunk", !.chunk = sp.res, !.pulledAt = key.epoch]
      /\ UNCHANGED <<consent, plane, owed, sweep, epochs, noted, low, factSeq, queue, drained, purgeOwed, used,
                     dead, spared, kept>>
  BY DEF PullChunk, hist, marks
<1>2. sp.res \in SUBSET Apps
  BY SpoolFields
<1>3. /\ w' \in Worker /\ w'.pc = "chunk" /\ w'.batch = DropBatch.batch /\ w'.held = w.held /\ w'.req = w.req
      /\ w'.reqPurge = w.reqPurge /\ w'.respKey = w.respKey /\ w'.seenKey = key.epoch
      /\ w'.seenPurge = factPurge /\ w'.last = w.last /\ w'.chunk = sp.res /\ w'.pulledAt = key.epoch
  BY <1>1, <1>2, DropBatchFacts DEF Worker, Steps
<1>4. \A a \in sp.res : Unwithdrawn(a)
  BY <1>2 DEF SpoolInv, SpoolOK, Facts
<1>5. w.held = {} /\ w.req = {} /\ w.reqPurge <= factPurge /\ w.respKey <= key.epoch /\ key.epoch <= key.epoch
  BY <1>1 DEF WorkerInv, WorkerOK
<1>6. WorkerOK(w')
  BY <1>3, <1>4, <1>5, DropBatchFacts, LookedOK DEF Unwithdrawn
<1>7. /\ sp' \in Spool /\ sp'.mem = sp.mem /\ sp'.file = sp.file /\ sp'.fs = sp.fs /\ sp'.res = {}
      /\ sp'.dirty = sp.dirty
  BY <1>1 DEF Spool
<1>8. SpoolOK(sp')
  BY <1>7 DEF SpoolOK
<1>9. w'.batch \union w'.held \union w'.req \subseteq InPipeline
  BY <1>3, <1>5, DropBatchFacts DEF InPipeline
<1>10. \A x \in queue' \union w'.batch \union w'.held \union w'.req : x.seq >= low'
  BY <1>1, <1>9 DEF InPipeline
<1> QED
  BY <1>1, <1>3, <1>6, <1>7, <1>8, <1>9, <1>10, WorkerStep

\* A step that leaves the batch, the queue and the watermark alone.
LEMMA QuietWorkerStep ==
    ASSUME FactInv,
           UNCHANGED <<consent, plane, owed, sweep, epochs, marks, queue, drained, purgeOwed, dead, spared>>,
           used' \in Used, used'.armed = used.armed,
           w' \in Worker, WorkerOK(w'), w'.last = w.last,
           w'.batch \union w'.held \union w'.req \subseteq w.batch \union w.held \union w.req,
           sp' \in Spool, SpoolOK(sp'), \A a \in Apps : sp'.fs[a] <= factPurge,
           \A a \in Apps : sp'.mem[a] # {} => sp.mem[a] # {} \/ Unwithdrawn(a),
           receipts' = receipts \/ receipts' \in Ledger,
           kept' \in SUBSET Apps, \A a \in kept' : sp'.file[a] # {}
    PROVE  FactInv'
<1> USE FactParts
<1>1. w'.batch \union w'.held \union w'.req \subseteq InPipeline
  BY DEF InPipeline
<1>2. \A x \in queue' \union w'.batch \union w'.held \union w'.req : x.seq >= low'
  BY <1>1 DEF InPipeline, marks
<1> QED
  BY <1>1, <1>2, WorkerStep DEF marks

\* The chunk is looked at once more before it goes out.
LEMMA ChunkReadyFacts ==
    ASSUME FactInv, w.pc = "chunk"
    PROVE  /\ ChunkReady \in SUBSET w.chunk /\ ChunkReady \intersect dead = {}
<1> USE FactParts
<1>1. \A a \in w.chunk : a \in dead => factPurge > 0 \/ KeyWithdrawn(w.pulledAt)
  BY DEF WorkerInv, WorkerOK
<1> QED
  BY <1>1 DEF ChunkReady, ChunkPurged, PurgeWithdrawn

LEMMA SendChunkKeeps == ASSUME FactInv, SendChunk PROVE FactInv'
<1> USE FactParts
<1>1. /\ w.pc = "chunk"
      /\ UNCHANGED <<consent, plane, owed, sweep, epochs, marks, queue, drained, purgeOwed, used, dead, spared,
                     receipts, kept>>
  BY DEF SendChunk, hist
<1>2. ChunkReady \in SUBSET Apps /\ ChunkReady \subseteq used.armed
  BY <1>1, ChunkReadyFacts, WorkerFields DEF WorkerInv, WorkerOK
<1>3. consent.epoch \in Nat
  BY DEF TypeInv
<1>4. CASE w' = [w EXCEPT !.pc = "resent", !.chunk = {}] /\ sp' = IF AgeHeld THEN Requeued(sp, ChunkReady) ELSE sp
  <2>1. /\ w' \in Worker /\ w'.pc = "resent" /\ w'.batch = w.batch /\ w'.held = w.held /\ w'.req = w.req
        /\ w'.reqPurge = w.reqPurge /\ w'.respKey = w.respKey /\ w'.seenKey = w.seenKey
        /\ w'.seenPurge = w.seenPurge /\ w'.last = w.last /\ w'.chunk = {} /\ w'.pulledAt = w.pulledAt
    BY <1>4 DEF Worker, Steps
  <2>2. WorkerOK(w')
    BY <2>1 DEF WorkerInv, WorkerOK
  <2>3. sp' \in Spool /\ SpoolOK(sp') /\ sp'.mem = sp.mem /\ sp'.file = sp.file /\ sp'.fs = sp.fs
    BY <1>4, RequeuedFacts
  <2> QED
    BY <1>1, <2>1, <2>2, <2>3, QuietWorkerStep
<1>5. CASE w' = [w EXCEPT !.pc = "chunkflight", !.chunk = ChunkReady, !.sentC = consent.epoch] /\ sp' = sp
  <2>1. /\ w' \in Worker /\ w'.pc = "chunkflight" /\ w'.batch = w.batch /\ w'.held = w.held /\ w'.req = w.req
        /\ w'.reqPurge = w.reqPurge /\ w'.respKey = w.respKey /\ w'.seenKey = w.seenKey
        /\ w'.seenPurge = w.seenPurge /\ w'.last = w.last /\ w'.chunk = ChunkReady /\ w'.pulledAt = w.pulledAt
    BY <1>2, <1>3, <1>5 DEF Worker, Steps
  <2>2. WorkerOK(w')
    BY <1>1, <1>2, <2>1 DEF WorkerInv, WorkerOK
  <2> QED
    BY <1>1, <1>5, <2>1, <2>2, QuietWorkerStep
<1> QED
  BY <1>4, <1>5 DEF SendChunk

LEMMA ChunkSettledKeeps == ASSUME FactInv, ChunkSettled PROVE FactInv'
<1> USE FactParts
<1>1. /\ w.pc = "chunkflight" /\ sp' = Removed(sp, "fact", w.chunk) /\ kept' = kept \ w.chunk
      /\ w' = [w EXCEPT !.pc = "resent", !.chunk = {}]
      /\ UNCHANGED <<consent, plane, owed, sweep, epochs, marks, queue, drained, purgeOwed, used, dead, spared, receipts>>
  BY DEF ChunkSettled
<1>2. /\ w' \in Worker /\ w'.pc = "resent" /\ w'.batch = w.batch /\ w'.held = w.held /\ w'.req = w.req
      /\ w'.reqPurge = w.reqPurge /\ w'.respKey = w.respKey /\ w'.seenKey = w.seenKey
      /\ w'.seenPurge = w.seenPurge /\ w'.last = w.last /\ w'.chunk = {} /\ w'.pulledAt = w.pulledAt
  BY <1>1 DEF Worker, Steps
<1>3. WorkerOK(w')
  BY <1>1, <1>2 DEF WorkerInv, WorkerOK
<1>4. w.chunk \in SUBSET Apps
  BY WorkerFields
<1>5. /\ sp' \in Spool /\ SpoolOK(sp') /\ sp'.fs = sp.fs
      /\ \A a \in Apps : sp'.mem[a] = IF a \in w.chunk THEN sp.mem[a] \ {"fact"} ELSE sp.mem[a]
      /\ \A a \in Apps : sp.file[a] # {} /\ sp'.mem[a] # {} => sp'.file[a] # {}
  <2>1. RemovedIs(sp, sp', "fact", w.chunk)
    BY <1>1, <1>4, FactsRemoved
  <2> QED
    BY <2>1 DEF RemovedIs
<1>6. \A a \in kept' : sp'.file[a] # {}
  BY <1>1, <1>5 DEF SpoolOK
<1>7. \A a \in Apps : sp'.mem[a] # {} => sp.mem[a] # {}
  BY <1>5
<1> QED
  BY <1>1, <1>2, <1>3, <1>5, <1>6, <1>7, QuietWorkerStep

LEMMA ChunkFailedKeeps == ASSUME FactInv, ChunkFailed PROVE FactInv'
<1> USE FactParts
<1>1. /\ w.pc = "chunkflight"
      /\ UNCHANGED <<consent, plane, owed, sweep, epochs, marks, queue, drained, purgeOwed, used, dead, spared, kept>>
  BY DEF ChunkFailed, hist
<1>2. ASSUME NEW next \in {"top", "resent"}, w' = [w EXCEPT !.pc = next, !.chunk = {}]
      PROVE  w' \in Worker /\ w'.last = w.last /\ WorkerOK(w')
             /\ w'.batch \union w'.held \union w'.req \subseteq w.batch \union w.held \union w.req
  <2>1. /\ w' \in Worker /\ w'.pc = next /\ w'.batch = w.batch /\ w'.held = w.held /\ w'.req = w.req
        /\ w'.reqPurge = w.reqPurge /\ w'.respKey = w.respKey /\ w'.seenKey = w.seenKey
        /\ w'.seenPurge = w.seenPurge /\ w'.last = w.last /\ w'.chunk = {} /\ w'.pulledAt = w.pulledAt
    BY <1>2 DEF Worker, Steps
  <2>2. WorkerOK(w')
    BY <1>1, <2>1 DEF WorkerInv, WorkerOK
  <2> QED
    BY <2>1, <2>2
<1>3. CASE consent.epoch # w.sentC
  <2>1. receipts' = receipts /\ w' = [w EXCEPT !.pc = "resent", !.chunk = {}] /\ sp' = sp
    BY <1>3 DEF ChunkFailed
  <2> QED
    BY <1>1, <1>2, <2>1, QuietWorkerStep
<1>4. CASE consent.epoch = w.sentC
  <2>1. receipts' = receipts /\ w' = [w EXCEPT !.pc = "top", !.chunk = {}] /\ sp' = Requeued(sp, w.chunk)
    BY <1>4 DEF ChunkFailed
  <2>2. sp' \in Spool /\ SpoolOK(sp') /\ sp'.mem = sp.mem /\ sp'.file = sp.file /\ sp'.fs = sp.fs
    BY <2>1, RequeuedFacts
  <2> QED
    BY <1>1, <1>2, <2>1, <2>2, QuietWorkerStep
<1> QED
  BY <1>3, <1>4

\* publishWorkerBatch after the resend.
LEMMA BuildKeeps == ASSUME FactInv, Build PROVE FactInv'
<1> USE FactParts
<1> DEFINE es == IF consent.granted THEN StillAuthorized(w.batch) ELSE {}
           go == IF AgeHeld THEN {} ELSE es
<1>1. /\ w.pc \in {"resent", "select"}
      /\ w' = [Looked EXCEPT !.batch = go, !.held = @ \union (es \ go), !.req = go,
                  !.reqPurge = factPurge, !.pc = IF go = {} THEN "settled" ELSE "built"]
      /\ receipts' = receipts
      /\ UNCHANGED <<consent, plane, owed, sweep, epochs, marks, queue, drained, sp, purgeOwed, used, dead, spared, kept>>
  BY DEF Build, hist
<1>2. /\ es \in SUBSET w.batch /\ go \in SUBSET es
      /\ \A x \in es : ~PurgeWithdrawn(x.fs) /\ ~KeyWithdrawn(x.ks)
  BY FilterSound
<1>3. w.batch \in SUBSET Fact
  BY WorkerFields
<1> HIDE DEF es, go
<1>4. /\ w' \in Worker /\ w'.pc = (IF go = {} THEN "settled" ELSE "built") /\ w'.batch = go
      /\ w'.held = w.held \union (es \ go) /\ w'.req = go /\ w'.reqPurge = factPurge /\ w'.respKey = w.respKey
      /\ w'.seenKey = key.epoch /\ w'.seenPurge = factPurge /\ w'.last = w.last
      /\ w'.chunk = w.chunk /\ w'.pulledAt = w.pulledAt
  BY <1>1, <1>2, <1>3, LookedFacts DEF Worker, Steps
<1>5. w.chunk = {} /\ w.respKey <= key.epoch /\ w.pulledAt <= key.epoch /\ factPurge <= factPurge
  BY <1>1 DEF WorkerInv, WorkerOK
<1>6. \A x \in go : x.fs >= factPurge
  BY <1>2, <1>3, FactFields DEF PurgeWithdrawn
<1>7. WorkerOK(w')
  BY <1>2, <1>4, <1>5, <1>6, LookedOK
<1>8. w'.batch \union w'.held \union w'.req \subseteq w.batch \union w.held \union w.req
  BY <1>2, <1>4
<1> QED
  BY <1>1, <1>4, <1>7, <1>8, QuietWorkerStep

\* spoolFailedBatch keeps what no withdrawal has reached by then.
LEMMA RespoolingFacts ==
    ASSUME TypeInv, NEW v \in Worker
    PROVE  LET u == Respooling(v)
           IN  /\ u \in Worker /\ u.pc \in {"rejoin", "respool"} /\ u.batch = v.batch /\ u.held = v.held
               /\ u.req \in SUBSET v.req /\ u.reqPurge = v.reqPurge /\ u.respKey = key.epoch
               /\ u.seenKey = v.seenKey /\ u.seenPurge = v.seenPurge /\ u.last = v.last
               /\ u.chunk = v.chunk /\ u.pulledAt = v.pulledAt
               /\ \A x \in u.req : ~KeyWithdrawn(x.ks) /\ factPurge = v.reqPurge
<1> DEFINE q == {x \in RespoolPurged(v) : ~KeyWithdrawn(x.ks)}
           u == Respooling(v)
<1>1. u = [v EXCEPT !.pc = IF q = {} THEN "rejoin" ELSE "respool", !.req = q, !.respKey = key.epoch]
  BY DEF Respooling
<1>2. q \in SUBSET v.req /\ \A x \in q : ~KeyWithdrawn(x.ks) /\ factPurge = v.reqPurge
  BY DEF RespoolPurged
<1>3. q \in SUBSET Fact /\ key.epoch \in Nat
  BY <1>2, WorkerFields, KeyFields
<1> HIDE DEF q, u
<1>4. /\ u \in Worker /\ u.pc \in {"rejoin", "respool"} /\ u.batch = v.batch /\ u.held = v.held
      /\ u.req = q /\ u.reqPurge = v.reqPurge /\ u.respKey = key.epoch
      /\ u.seenKey = v.seenKey /\ u.seenPurge = v.seenPurge /\ u.last = v.last
      /\ u.chunk = v.chunk /\ u.pulledAt = v.pulledAt
  BY <1>1, <1>3 DEF Worker, Steps
<1> QED
  BY <1>2, <1>4 DEF u

\* dropWithdrawnBuiltBatch lets only facts of applications pass that nothing
\* has withdrawn.
LEMMA HandedFacts ==
    ASSUME FactInv, w.pc = "built"
    PROVE  /\ Handed(w.req) \in SUBSET w.req /\ w.req = w.batch
           /\ \A x \in Handed(w.req) : /\ ~PurgeWithdrawn(x.fs) /\ ~KeyWithdrawn(x.ks)
                                       /\ x.fs >= w.reqPurge /\ x.app \notin dead
<1> USE FactParts
<1>1. w.req = w.batch /\ \A x \in w.req : x.fs >= w.reqPurge
  BY DEF WorkerInv, WorkerOK
<1>2. /\ Handed(w.req) \in SUBSET w.req
      /\ \A x \in Handed(w.req) : ~PurgeWithdrawn(x.fs) /\ ~KeyWithdrawn(x.ks)
  BY <1>1, FilterSound DEF Handed
<1>3. ASSUME NEW x \in Handed(w.req) PROVE x.app \notin dead
  <2>1. x \in InPipeline
    BY <1>2 DEF InPipeline
  <2> QED
    BY <1>2, <2>1, FactAlive
<1> QED
  BY <1>1, <1>2, <1>3

LEMMA SendKeeps == ASSUME FactInv, Send PROVE FactInv'
<1> USE FactParts
<1> DEFINE es == Handed(w.req)
           w1 == [Looked EXCEPT !.batch = es, !.req = es]
<1>1. /\ w.pc = "built"
      /\ \/ w' = [w1 EXCEPT !.pc = "settled"] /\ es = {}
         \/ w' = Respooling(w1)
         \/ w' = [w1 EXCEPT !.pc = "rejoin"]
         \/ w' = [w1 EXCEPT !.pc = "flight", !.sentC = consent.epoch]
      /\ receipts' = receipts
      /\ UNCHANGED <<consent, plane, owed, sweep, epochs, marks, queue, drained, sp, purgeOwed, used, dead, spared, kept>>
  BY DEF Send, hist
<1>2. /\ es \in SUBSET w.req /\ w.req = w.batch
      /\ \A x \in es : ~PurgeWithdrawn(x.fs) /\ ~KeyWithdrawn(x.ks) /\ x.fs >= w.reqPurge /\ x.app \notin dead
  BY <1>1, HandedFacts
<1>3. es \in SUBSET Fact
  BY <1>2, WorkerFields
<1>5. w.chunk = {} /\ w.respKey <= key.epoch /\ w.pulledAt <= key.epoch /\ w.reqPurge <= factPurge
  BY <1>1 DEF WorkerInv, WorkerOK
<1> HIDE DEF es
<1>6. /\ w1 \in Worker /\ w1.batch = es
      /\ w1.held = w.held /\ w1.req = es /\ w1.reqPurge = w.reqPurge /\ w1.respKey = w.respKey
      /\ w1.seenKey = key.epoch /\ w1.seenPurge = factPurge /\ w1.last = w.last
      /\ w1.chunk = w.chunk /\ w1.pulledAt = w.pulledAt
  BY <1>3, LookedFacts DEF Worker
<1> HIDE DEF w1
<1>7. consent.epoch \in Nat
  BY DEF TypeInv
<1>8. ASSUME w'.pc \in {"settled", "rejoin", "flight"}, w' \in Worker,
             w'.batch = w1.batch, w'.held = w1.held, w'.req = w1.req, w'.reqPurge = w1.reqPurge,
             w'.respKey = w1.respKey, w'.seenKey = w1.seenKey, w'.seenPurge = w1.seenPurge, w'.last = w1.last,
             w'.chunk = w1.chunk, w'.pulledAt = w1.pulledAt
      PROVE  FactInv'
  <2>1. WorkerOK(w')
    BY <1>2, <1>5, <1>6, <1>8, LookedOK
  <2>2. w'.batch \union w'.held \union w'.req \subseteq w.batch \union w.held \union w.req
    BY <1>2, <1>6, <1>8
  <2> QED
    BY <1>1, <1>6, <1>8, <2>1, <2>2, QuietWorkerStep
<1>9. CASE w' = [w1 EXCEPT !.pc = "settled"]
  BY <1>6, <1>8, <1>9 DEF Worker, Steps
<1>10. CASE w' = [w1 EXCEPT !.pc = "rejoin"]
  BY <1>6, <1>8, <1>10 DEF Worker, Steps
<1>11. CASE w' = [w1 EXCEPT !.pc = "flight", !.sentC = consent.epoch]
  BY <1>6, <1>7, <1>8, <1>11 DEF Worker, Steps
<1>12. CASE w' = Respooling(w1)
  <2>1. /\ w' \in Worker /\ w'.pc \in {"rejoin", "respool"} /\ w'.batch = es /\ w'.held = w.held
        /\ w'.req \in SUBSET es /\ w'.reqPurge = w.reqPurge /\ w'.respKey = key.epoch
        /\ w'.seenKey = key.epoch /\ w'.seenPurge = factPurge /\ w'.last = w.last
        /\ w'.chunk = {} /\ w'.pulledAt = w.pulledAt
    BY <1>5, <1>6, <1>12, RespoolingFacts
  <2>2. WorkerOK(w')
    BY <1>2, <1>5, <2>1, LookedOK
  <2>3. w'.batch \union w'.held \union w'.req \subseteq w.batch \union w.held \union w.req
    BY <1>2, <2>1
  <2> QED
    BY <1>1, <2>1, <2>2, <2>3, QuietWorkerStep
<1> QED
  BY <1>1, <1>9, <1>10, <1>11, <1>12

LEMMA SettledKeeps == ASSUME FactInv, Settled PROVE FactInv'
<1> USE FactParts
<1> DEFINE as == AppsOf(w.req)
<1>1. /\ w.pc = "flight" /\ sp' = Removed(sp, "fact", as) /\ kept' = kept \ as
      /\ w' = [w EXCEPT !.pc = "settled", !.batch = {}, !.req = {}]
      /\ UNCHANGED <<consent, plane, owed, sweep, epochs, marks, queue, drained, purgeOwed, used, dead, spared, receipts>>
  BY DEF Settled
<1>2. /\ w' \in Worker /\ w'.pc = "settled" /\ w'.batch = {} /\ w'.held = w.held /\ w'.req = {}
      /\ w'.reqPurge = w.reqPurge /\ w'.respKey = w.respKey /\ w'.seenKey = w.seenKey
      /\ w'.seenPurge = w.seenPurge /\ w'.last = w.last /\ w'.chunk = w.chunk /\ w'.pulledAt = w.pulledAt
  BY <1>1 DEF Worker, Steps
<1>3. WorkerOK(w')
  BY <1>1, <1>2 DEF WorkerInv, WorkerOK
<1>4. as \in SUBSET Apps
  BY WorkerFields, FactFields DEF AppsOf
<1> HIDE DEF as
<1>5. /\ sp' \in Spool /\ SpoolOK(sp') /\ sp'.fs = sp.fs
      /\ \A a \in Apps : sp'.mem[a] = IF a \in as THEN sp.mem[a] \ {"fact"} ELSE sp.mem[a]
      /\ \A a \in Apps : sp.file[a] # {} /\ sp'.mem[a] # {} => sp'.file[a] # {}
  <2>1. sp' = Removed(sp, "fact", as) /\ "fact" \in Forms
    BY <1>1 DEF Forms
  <2>2. sp \in Spool /\ SpoolOK(sp)
    OBVIOUS
  <2>3. RemovedIs(sp, sp', "fact", as)
    BY <1>4, <2>1, <2>2, FactsRemoved
  <2> QED
    BY <2>3 DEF RemovedIs
<1>6. \A a \in kept' : sp'.file[a] # {}
  BY <1>1, <1>5 DEF SpoolOK
<1>7. \A a \in Apps : sp'.mem[a] # {} => sp.mem[a] # {}
  BY <1>5
<1> QED
  BY <1>1, <1>2, <1>3, <1>5, <1>6, <1>7, QuietWorkerStep

LEMMA FailedKeeps == ASSUME FactInv, Failed PROVE FactInv'
<1> USE FactParts
<1>1. /\ w.pc = "flight"
      /\ UNCHANGED <<consent, plane, owed, sweep, epochs, marks, queue, drained, sp, purgeOwed, used, dead, spared, kept>>
  BY DEF Failed, hist
<1>2. CASE consent.epoch # w.sentC
  <2>1. w' = [w EXCEPT !.pc = "rejoin"] /\ receipts' = receipts
    BY <1>2 DEF Failed
  <2>2. /\ w' \in Worker /\ w'.pc = "rejoin" /\ w'.batch = w.batch /\ w'.held = w.held /\ w'.req = w.req
        /\ w'.reqPurge = w.reqPurge /\ w'.respKey = w.respKey /\ w'.seenKey = w.seenKey
        /\ w'.seenPurge = w.seenPurge /\ w'.last = w.last /\ w'.chunk = w.chunk /\ w'.pulledAt = w.pulledAt
    BY <2>1 DEF Worker, Steps
  <2>3. WorkerOK(w')
    BY <1>1, <2>2 DEF WorkerInv, WorkerOK
  <2> QED
    BY <1>1, <2>1, <2>2, <2>3, QuietWorkerStep
<1>3. CASE consent.epoch = w.sentC
  <2>1. w' = Respooling(w) /\ receipts' = receipts
    BY <1>3 DEF Failed
  <2>2. /\ w' \in Worker /\ w'.pc \in {"rejoin", "respool"} /\ w'.batch = w.batch /\ w'.held = w.held
        /\ w'.req \in SUBSET w.req /\ w'.reqPurge = w.reqPurge /\ w'.respKey = key.epoch
        /\ w'.seenKey = w.seenKey /\ w'.seenPurge = w.seenPurge /\ w'.last = w.last
        /\ w'.chunk = w.chunk /\ w'.pulledAt = w.pulledAt
        /\ \A x \in w'.req : ~KeyWithdrawn(x.ks) /\ factPurge = w.reqPurge
    BY <2>1, RespoolingFacts
  <2>3. ASSUME NEW x \in w'.req PROVE x.app \notin dead /\ x.fs >= w'.reqPurge
    <3>1. x \in InPipeline /\ x \in Fact /\ x.fs >= w.reqPurge /\ factPurge = w.reqPurge /\ ~KeyWithdrawn(x.ks)
      BY <1>1, <2>2, WorkerFields DEF InPipeline, WorkerInv, WorkerOK
    <3>2. ~PurgeWithdrawn(x.fs)
      BY <3>1, FactFields DEF PurgeWithdrawn
    <3> QED
      BY <2>2, <3>1, <3>2, FactAlive
  <2>4. key.epoch <= key.epoch
    OBVIOUS
  <2>5. WorkerOK(w')
    BY <1>1, <2>2, <2>3, <2>4 DEF WorkerInv, WorkerOK
  <2> QED
    BY <1>1, <2>1, <2>2, <2>5, QuietWorkerStep
<1> QED
  BY <1>2, <1>3

\* The respool's append: what an age refusal has withdrawn since the filter
\* is withheld under the spool's lock.
LEMMA RespoolKeeps == ASSUME FactInv, NEW ok \in BOOLEAN, Respool(ok) PROVE FactInv'
<1> USE FactParts
<1> DEFINE es == {x \in w.req : ~RespoolWithheld(x)}
           as == AppsOf(es)
<1>1. /\ w.pc = "respool" /\ used' = [used EXCEPT !.faults = @ + IF ok THEN 0 ELSE 1]
      /\ sp' = IF consent.granted THEN Appended(sp, as, w.reqPurge, ok) ELSE sp
      /\ w' = [w EXCEPT !.pc = "rejoin"] /\ receipts' = IF consent.granted THEN Shelved(es) ELSE receipts
      /\ UNCHANGED <<consent, plane, owed, sweep, epochs, marks, queue, drained, purgeOwed, dead, spared, kept>>
  BY DEF Respool, Spend, hist
<1>2. used' \in Used /\ used'.armed = used.armed
  BY <1>1 DEF Used
<1>3. /\ w' \in Worker /\ w'.pc = "rejoin" /\ w'.batch = w.batch /\ w'.held = w.held /\ w'.req = w.req
      /\ w'.reqPurge = w.reqPurge /\ w'.respKey = w.respKey /\ w'.seenKey = w.seenKey
      /\ w'.seenPurge = w.seenPurge /\ w'.last = w.last /\ w'.chunk = w.chunk /\ w'.pulledAt = w.pulledAt
  BY <1>1 DEF Worker, Steps
<1>4. WorkerOK(w')
  BY <1>1, <1>3 DEF WorkerInv, WorkerOK
<1>5. ASSUME NEW a \in as PROVE a \in Apps /\ Unwithdrawn(a)
  <2>1. PICK x \in w.req : a = x.app /\ ~(key.epoch # w.respKey /\ KeyWithdrawn(x.ks))
    BY DEF AppsOf, RespoolWithheld
  <2>2. x \in InPipeline /\ x \in Fact
    BY WorkerFields DEF InPipeline
  <2>3. a \in used.armed
    BY <2>1, <2>2 DEF PipeInv, FactOK
  <2>4. x.app \in dead => w.respKey < key.epoch /\ KeyWithdrawn(x.ks)
    BY <1>1 DEF WorkerInv, WorkerOK
  <2>5. w.respKey < key.epoch => key.epoch # w.respKey
    BY WorkerFields
  <2> QED
    BY <2>1, <2>2, <2>3, <2>4, <2>5, FactFields DEF Unwithdrawn
<1>11. receipts' = receipts \/ receipts' \in Ledger
  <2>1. \A x \in es : x.rc \in Nat
    BY WorkerFields, FactFields
  <2> QED
    BY <1>1, <2>1, ShelvedFacts
<1> HIDE DEF es, as
<1>6. w.reqPurge \in Nat /\ w.reqPurge <= factPurge
  BY WorkerFields DEF WorkerInv, WorkerOK
<1>7. /\ sp' \in Spool /\ SpoolOK(sp')
      /\ \A b \in Apps : sp'.fs[b] \in {sp.fs[b], w.reqPurge}
      /\ \A b \in Apps : b \notin as => sp'.mem[b] = sp.mem[b]
      /\ \A b \in Apps : sp.file[b] # {} => sp'.file[b] # {}
  <2>1. CASE consent.granted
    <3>1. as \in SUBSET Apps
      BY <1>5
    <3>2. sp' = Appended(sp, as, w.reqPurge, ok)
      BY <1>1, <2>1
    <3>3. AppendedIs(sp, sp', as, w.reqPurge)
      BY <1>6, <3>1, <3>2, FactsAppended
    <3> QED
      BY <3>3 DEF AppendedIs
  <2>2. CASE ~consent.granted
    BY <1>1, <2>2
  <2> QED
    BY <2>1, <2>2
<1>8. \A a \in Apps : sp'.fs[a] <= factPurge
  BY <1>6, <1>7
<1>9. \A a \in Apps : sp'.mem[a] # {} => sp.mem[a] # {} \/ Unwithdrawn(a)
  BY <1>5, <1>7
<1>10. kept' \in SUBSET Apps /\ \A a \in kept' : sp'.file[a] # {}
  BY <1>1, <1>7
<1> QED
  BY <1>1, <1>2, <1>3, <1>4, <1>7, <1>8, <1>9, <1>10, <1>11, QuietWorkerStep

\* rejoinAgeHeld.
LEMMA RejoinKeeps == ASSUME FactInv, Rejoin PROVE FactInv'
<1> USE FactParts
<1> DEFINE b == w.batch \union {x \in w.held : Rejoins(x)}
<1>1. /\ w.pc \in {"settled", "rejoin"}
      /\ w' = [w EXCEPT !.pc = "top", !.batch = b, !.held = {}, !.req = {}]
      /\ UNCHANGED <<consent, plane, owed, sweep, epochs, marks, queue, drained, sp, purgeOwed, receipts, used, dead, spared, kept>>
  BY DEF Rejoin, hist
<1>2. b \in SUBSET Fact /\ b \subseteq w.batch \union w.held
  BY WorkerFields
<1>3. ASSUME NEW x \in b PROVE x.fs >= w.seenPurge /\ (key.epoch = w.seenKey => x.ks >= key.mark)
  <2>1. CASE x \in w.batch
    BY <2>1 DEF WorkerInv, WorkerOK
  <2>2. CASE x \notin w.batch
    <3>1. ~PurgeWithdrawn(x.fs) /\ ~KeyWithdrawn(x.ks)
      BY <2>2 DEF Rejoins
    <3>2. x.fs \in Nat /\ x.ks \in Nat /\ w.seenPurge \in Nat /\ w.seenPurge <= factPurge
      BY <1>2, FactFields, WorkerFields DEF WorkerInv, WorkerOK
    <3> QED
      BY <3>1, <3>2 DEF PurgeWithdrawn, KeyWithdrawn
  <2> QED
    BY <2>1, <2>2
<1> HIDE DEF b
<1>4. /\ w' \in Worker /\ w'.pc = "top" /\ w'.batch = b /\ w'.held = {} /\ w'.req = {}
      /\ w'.reqPurge = w.reqPurge /\ w'.respKey = w.respKey /\ w'.seenKey = w.seenKey
      /\ w'.seenPurge = w.seenPurge /\ w'.last = w.last /\ w'.chunk = w.chunk /\ w'.pulledAt = w.pulledAt
  BY <1>1, <1>2 DEF Worker, Steps
<1>5. WorkerOK(w')
  BY <1>1, <1>3, <1>4 DEF WorkerInv, WorkerOK
<1>6. w'.batch \union w'.held \union w'.req \subseteq w.batch \union w.held \union w.req
  BY <1>2, <1>4
<1> QED
  BY <1>1, <1>4, <1>5, <1>6, QuietWorkerStep

-----------------------------------------------------------------------------
(* Owed applications and their emission.                                   *)

LEMMA SweepFields ==
    ASSUME TypeInv, sweep # None
    PROVE  /\ sweep.app \in Apps /\ sweep.gen \in Nat /\ sweep.ph \in {"seal", "build", "enqueue", "note"}
           /\ sweep.purge \in Nat /\ sweep.ks \in Nat /\ sweep.fs \in Nat /\ sweep.seq \in Nat /\ sweep.rc \in Nat
           /\ sweep \in Emission
<1>1. sweep \in Emission
  BY DEF TypeInv
<1> QED
  BY <1>1, EmissionFields

\* A step of the applications' side: what it must show is about the list, the
\* emission, the spool and the applications armed.
LEMMA EmitStep ==
    ASSUME FactInv,
           UNCHANGED <<consent, served, confirmed, declaring, epochs, marks, queue, drained, w, purgeOwed, dead,
                       spared>>,
           receipts' = receipts \/ receipts' \in Ledger,
           applied' \in BOOLEAN, exposed' \in Apps \union {None}, used' \in Used, used.armed \subseteq used'.armed,
           owed' \in Seq(Record), OwedInv',
           sweep' \in Emission \union {None}, SweepInv',
           sweep' = sweep \/ (sweep # None => sweep.ph # "note"),
           sp' \in Spool, SpoolOK(sp'), \A a \in Apps : sp'.fs[a] <= factPurge,
           \A a \in Apps : sp'.mem[a] # {} => sp.mem[a] # {} \/ (a \in used'.armed /\ a \notin dead),
           kept' \in SUBSET Apps, \A a \in kept' : sp'.file[a] # {}
    PROVE  FactInv'
<1>1. TypeInv'
  BY DEF FactInv, TypeInv, epochs, marks
<1>2. PipeInv'
  <2> SUFFICES ASSUME NEW x \in InPipeline' PROVE FactOK(x)'
    BY DEF PipeInv
  <2>1. x \in InPipeline
    BY DEF InPipeline
  <2>2. FactOK(x)
    BY <2>1 DEF FactInv, PipeInv
  <2>3. x.seq <= noted' \/ (sweep' # None /\ sweep'.ph = "note" /\ x.seq = sweep'.seq)
    BY <2>2 DEF FactOK, marks
  <2> QED
    BY <2>2, <2>3 DEF FactOK, Stamped, KeyWithdrawn, PurgeWithdrawn, epochs, marks
<1>3. SpoolInv'
  BY DEF FactInv, SpoolInv, SpoolOK, Facts, Unwithdrawn, epochs
<1>4. OrderInv'
  BY DEF FactInv, OrderInv, marks
<1>5. WorkerInv'
  BY DEF FactInv, WorkerInv, WorkerOK, KeyWithdrawn, epochs
<1>6. StoredSurvives'
  BY DEF StoredSurvives
<1> QED
  BY <1>1, <1>2, <1>3, <1>4, <1>5, <1>6 DEF FactInv

\* A record that may be owed once the given applications are armed.
MayOwe(r, armed) ==
    r.app \in armed /\ r.app \notin dead /\ (r.ev # None => r.ev.ks <= key.epoch /\ r.ev.fs <= factPurge)

LEMMA OwedStep ==
    ASSUME UNCHANGED <<epochs, dead>>, \A j \in DOMAIN owed' : MayOwe(owed'[j], used'.armed)
    PROVE  OwedInv'
<1> SUFFICES ASSUME NEW q \in Owed' PROVE RecordOK(q)'
  BY DEF OwedInv
<1>1. PICK j \in DOMAIN owed' : q = owed'[j]
  BY DEF Owed
<1>2. MayOwe(q, used'.armed)
  BY <1>1
<1> QED
  BY <1>2 DEF MayOwe, RecordOK, Unwithdrawn, epochs

\* The list after a step: each record was there, or is the given one.
LEMMA OwedFrom ==
    ASSUME FactInv, UNCHANGED <<epochs, dead>>, used.armed \subseteq used'.armed,
           NEW r1, MayOwe(r1, used'.armed),
           \A j \in DOMAIN owed' : owed'[j] = r1 \/ \E k \in DOMAIN owed : owed'[j] = owed[k]
    PROVE  OwedInv'
<1>1. \A k \in DOMAIN owed : RecordOK(owed[k])
  BY DEF FactInv, OwedInv, Owed
<1>2. \A k \in DOMAIN owed : MayOwe(owed[k], used'.armed)
  BY <1>1 DEF RecordOK, Unwithdrawn, MayOwe
<1>3. \A j \in DOMAIN owed' : MayOwe(owed'[j], used'.armed)
  BY <1>2
<1> QED
  BY <1>3, OwedStep

\* The list after a step that adds nothing.
LEMMA OwedShrinks ==
    ASSUME FactInv, UNCHANGED <<epochs, dead>>, used.armed \subseteq used'.armed,
           \A j \in DOMAIN owed' : \E k \in DOMAIN owed : owed'[j] = owed[k]
    PROVE  OwedInv'
<1>1. \A k \in DOMAIN owed : RecordOK(owed[k])
  BY DEF FactInv, OwedInv, Owed
<1>2. \A k \in DOMAIN owed : MayOwe(owed[k], used'.armed)
  BY <1>1 DEF RecordOK, Unwithdrawn, MayOwe
<1>3. \A j \in DOMAIN owed' : MayOwe(owed'[j], used'.armed)
  BY <1>2
<1> QED
  BY <1>3, OwedStep

LEMMA SweepSame ==
    ASSUME FactInv, UNCHANGED <<epochs, dead, sweep, exposed>>, used.armed \subseteq used'.armed
    PROVE  SweepInv'
BY DEF FactInv, SweepInv, EmissionOK, Stamped, Unwithdrawn, KeyWithdrawn, PurgeWithdrawn, epochs

LEMMA SweepEnds ==
    ASSUME FactInv, UNCHANGED <<epochs, dead, exposed>>, sweep' = None, used.armed \subseteq used'.armed
    PROVE  SweepInv'
BY DEF FactInv, SweepInv, Unwithdrawn

LEMMA OwedParts ==
    ASSUME FactInv
    PROVE  /\ owed \in Seq(Record) /\ exposed \in Apps \union {None} /\ applied \in BOOLEAN
           /\ sweep \in Emission \union {None} /\ purgeEpoch \in Nat
           /\ \A i \in DOMAIN owed : owed[i] \in Record /\ owed[i] \in Owed /\ RecordOK(owed[i])
           /\ used.armed \in SUBSET Apps /\ dead \in SUBSET used.armed
BY UsedFields DEF FactInv, TypeInv, OwedInv, Owed

\* appendOwedLocked for a new application.
LEMMA ArmsKeeps ==
    ASSUME FactInv, NEW a \in Apps, NEW extra \in BOOLEAN, NEW ok \in BOOLEAN, Arms(a, extra, ok)
    PROVE  FactInv'
<1> DEFINE r    == NewRecord(a, extra, purgeEpoch, receipts.issued[a] + 1)
           over == Len(owed) >= MaxOwed
           gone == IF over THEN {Head(owed).app} ELSE {}
           s0   == Removed(sp, "intent", gone)
           s    == Persisted(r, s0, ok)
           r1   == [r EXCEPT !.admitted = TRUE, !.durable = Retained(r, s)]
           base == IF over THEN Tail(owed) ELSE owed
<1>1. /\ a \notin used.armed
      /\ used' = [used EXCEPT !.armed = @ \union {a}, !.faults = @ + IF ok THEN 0 ELSE 1,
                              !.points = IF extra THEN @ \union {a} ELSE @]
      /\ owed' = Append(base, r1) /\ sp' = s
      /\ kept' = (kept \ gone) \union (IF r1.durable THEN {r.app} ELSE {})
      /\ applied' = TRUE /\ receipts' = Issued({a})
      /\ UNCHANGED <<consent, served, confirmed, declaring, exposed, sweep, epochs, marks, queue,
                     drained, w, purgeOwed, dead, spared>>
  BY DEF Arms, Fresh, Admit
<1>2. r \in Record /\ r.app = a /\ r.ev = None /\ r.done = FALSE
  <2> DEFINE k == receipts.issued[a] + 1
  <2>1. purgeEpoch \in Nat /\ k \in Nat
    BY OwedParts, FactParts DEF Ledger
  <2>2. r = NewRecord(a, extra, purgeEpoch, k)
    OBVIOUS
  <2> HIDE DEF k, r
  <2> QED
    BY <2>1, <2>2 DEF NewRecord, Record
<1> HIDE DEF r
<1> USE FactParts, OwedParts
<1>3. used' \in Used /\ used'.armed = used.armed \union {a}
  <2> DEFINE ar == used.armed \union {a}
             fa == used.faults + IF ok THEN 0 ELSE 1
             po == IF extra THEN used.points \union {a} ELSE used.points
  <2>1. ar \in SUBSET Apps /\ fa \in Nat /\ po \in SUBSET Apps
    BY UsedFields
  <2>2. used' = [used EXCEPT !.armed = ar, !.faults = fa, !.points = po]
    BY <1>1
  <2> HIDE DEF ar, fa, po
  <2>3. used' \in Used /\ used'.armed = ar
    BY <2>1, <2>2 DEF Used
  <2> QED
    BY <2>3 DEF ar
<1>4. a \notin dead
  BY <1>1
<1>5. over => owed # <<>>
  <2>1. MaxOwed \in Nat \ {0}
    BY ExperimentFactsAssumption
  <2> QED
    BY <2>1
<1>6. gone \in SUBSET Apps
  BY <1>5, TailOf, RecordFields
<1>7. base \in Seq(Record) /\ \A j \in DOMAIN base : \E k \in DOMAIN owed : base[j] = owed[k]
  BY <1>5, TailOf
<1> HIDE DEF gone, base
<1>8. RemovedIs(sp, s0, "intent", gone)
  BY <1>6, FactsRemoved
<1> HIDE DEF s0
<1>9. s0 \in Spool /\ SpoolOK(s0)
  BY <1>8 DEF RemovedIs
<1>10. /\ s \in Spool /\ SpoolOK(s) /\ s.fs = s0.fs
       /\ \A b \in Apps : b # r.app => s.mem[b] = s0.mem[b]
       /\ \A b \in Apps : s0.file[b] # {} => s.file[b] # {}
  BY <1>2, <1>9, PersistedFacts
<1> HIDE DEF s
<1>11. Retained(r, s) \in BOOLEAN
  BY <1>2 DEF Retained
<1>12. r1 \in Record /\ r1.app = a /\ r1.ev = None /\ r1.durable = Retained(r, s)
  BY <1>2, <1>11 DEF Record
<1> HIDE DEF r1
<1>13. owed' \in Seq(Record) /\ \A j \in DOMAIN owed' : owed'[j] = r1 \/ \E k \in DOMAIN owed : owed'[j] = owed[k]
  BY <1>1, <1>7, <1>12, AppendOf
<1>14. OwedInv'
  <2>1. MayOwe(r1, used'.armed)
    BY <1>1, <1>3, <1>4, <1>12 DEF MayOwe
  <2> QED
    BY <1>1, <1>3, <1>13, <2>1, OwedFrom
<1>15. SweepInv'
  BY <1>1, <1>3, SweepSame
<1>16. \A b \in Apps : sp'.fs[b] <= factPurge
  BY <1>1, <1>8, <1>10 DEF RemovedIs
<1>17. \A b \in Apps : sp'.mem[b] # {} => sp.mem[b] # {} \/ (b \in used'.armed /\ b \notin dead)
  <2>1. \A b \in Apps : s0.mem[b] # {} => sp.mem[b] # {}
    BY <1>8 DEF RemovedIs
  <2> QED
    BY <1>1, <1>2, <1>3, <1>4, <1>10, <2>1
<1>18. kept' \in SUBSET Apps
  BY <1>1, <1>2
<1>19. ASSUME NEW b \in kept' PROVE sp'.file[b] # {}
  <2>1. CASE b \in kept \ gone
    <3>1. sp.file[b] # {} /\ sp.mem[b] # {} /\ b \in Apps
      BY <2>1, SpoolFields DEF SpoolOK
    <3>2. s0.mem[b] # {}
      BY <1>8, <2>1, <3>1 DEF RemovedIs
    <3>3. s0.file[b] # {}
      BY <1>8, <3>1, <3>2 DEF RemovedIs
    <3> QED
      BY <1>1, <1>10, <3>1, <3>3
  <2>2. CASE b \notin kept \ gone
    <3>1. b = r.app /\ Retained(r, s)
      BY <1>1, <1>12, <2>2
    <3> QED
      BY <1>1, <1>2, <1>10, <3>1, RetainedOnFile
  <2> QED
    BY <2>1, <2>2
<1>20. receipts' \in Ledger
  BY <1>1, IssuedFacts
<1> QED
  BY <1>1, <1>3, <1>20, <1>10, <1>13, <1>14, <1>15, <1>16, <1>17, <1>18, <1>19, EmitStep

LEMMA ApplyVariantKeeps ==
    ASSUME FactInv, NEW a \in Apps, NEW ok \in BOOLEAN, ApplyVariant(a, ok)
    PROVE  FactInv'
BY ArmsKeeps DEF ApplyVariant

LEMMA TrackPointKeeps ==
    ASSUME FactInv, NEW a \in Apps, NEW ok \in BOOLEAN, TrackPoint(a, ok)
    PROVE  FactInv'
BY ArmsKeeps DEF TrackPoint

\* An emission that may be under way once the given applications are armed.
MayEmit(e, armed) ==
    /\ e.app \in armed /\ e.ks <= key.epoch /\ e.fs <= factPurge
    /\ e.ph = "enqueue" => Stamped(e.app, e.ks, e.fs)

LEMMA SweepStep ==
    ASSUME FactInv, UNCHANGED <<epochs, dead, exposed>>, used.armed \subseteq used'.armed,
           sweep' # None => MayEmit(sweep', used'.armed)
    PROVE  SweepInv'
BY DEF FactInv, SweepInv, MayEmit, EmissionOK, Stamped, Unwithdrawn, KeyWithdrawn, PurgeWithdrawn, epochs

\* The record that an emission works on is owed, hence not withdrawn.
LEMMA MineFacts ==
    ASSUME FactInv, Current
    PROVE  Mine \in Record /\ Mine.app = sweep.app /\ RecordOK(Mine)
<1>1. \A r \in Owed : r \in Record /\ RecordOK(r)
  BY OwedParts DEF Owed
<1>2. Mine \in Owed /\ Holds(Mine)
  BY DEF Current, Mine
<1> QED
  BY <1>1, <1>2 DEF Holds

LEMMA UpdateFacts ==
    ASSUME FactInv, NEW r \in Record
    PROVE  /\ Update(r) \in Seq(Record)
           /\ \A j \in DOMAIN Update(r) : Update(r)[j] = r \/ \E k \in DOMAIN owed : Update(r)[j] = owed[k]
<1>1. owed \in Seq(Record)
  BY OwedParts
<1>2. \A j \in 1 .. Len(owed) : (IF Holds(owed[j]) THEN r ELSE owed[j]) \in Record
  BY <1>1
<1>3. Update(r) = [j \in 1 .. Len(owed) |-> IF Holds(owed[j]) THEN r ELSE owed[j]]
  BY <1>1 DEF Update
<1>4. Len(owed) \in Nat /\ DOMAIN owed = 1 .. Len(owed)
  BY <1>1
<1>5. Update(r) \in Seq(Record)
  BY <1>2, <1>3, <1>4
<1>6. DOMAIN Update(r) = 1 .. Len(owed)
  BY <1>3
<1>7. \A j \in 1 .. Len(owed) : Update(r)[j] = IF Holds(owed[j]) THEN r ELSE owed[j]
  BY <1>3
<1> QED
  BY <1>4, <1>5, <1>6, <1>7

\* A write's fault is counted.
LEMMA SpendFacts ==
    ASSUME used \in Used, NEW ok \in BOOLEAN, Spend(ok)
    PROVE  used' \in Used /\ used'.armed = used.armed /\ used'.points = used.points
<1> DEFINE fa == used.faults + IF ok THEN 0 ELSE 1
<1>1. used' = [used EXCEPT !.faults = fa]
  BY DEF Spend
<1>2. fa \in Nat
  BY UsedFields
<1> HIDE DEF fa
<1> QED
  BY <1>1, <1>2 DEF Used

\* emitOwedExposure stores the head of the list.
LEMMA SweepHeadKeeps == ASSUME FactInv, NEW ok \in BOOLEAN, SweepHead(ok) PROVE FactInv'
<1> DEFINE r    == Head(owed)
           s    == Persisted(r, sp, ok)
           r1   == [r EXCEPT !.admitted = TRUE, !.durable = @ \/ Retained(r, s)]
           keep == Retained(r, s)
           e    == [app |-> r.app, gen |-> r.gen, ph |-> IF r.sealed THEN "build" ELSE "seal",
                    purge |-> purgeEpoch, ks |-> key.epoch, fs |-> factPurge, seq |-> 0, rc |-> r.rc]
<1>1. /\ sweep = None /\ owed # <<>> /\ sp' = s
      /\ owed' = Tail(owed) \/ owed' = <<r1>> \o Tail(owed)
      /\ kept' = IF keep /\ ~r.done THEN kept \union {r.app} ELSE kept
      /\ sweep' = IF keep THEN e ELSE None
      /\ UNCHANGED <<consent, plane, epochs, marks, queue, drained, w, purgeOwed, receipts, dead, spared>>
  BY DEF SweepHead
<1>2. used' \in Used /\ used'.armed = used.armed
  BY FactParts, SpendFacts DEF SweepHead
<1>3. r \in Record /\ RecordOK(r) /\ Tail(owed) \in Seq(Record)
      /\ \A j \in DOMAIN Tail(owed) : \E k \in DOMAIN owed : Tail(owed)[j] = owed[k]
  <2>1. owed \in Seq(Record) /\ \A k \in DOMAIN owed : RecordOK(owed[k])
    BY OwedParts
  <2> QED
    BY <1>1, <2>1, TailOf
<1>4. r.app \in Apps /\ Unwithdrawn(r.app) /\ r.gen \in Nat /\ r.sealed \in BOOLEAN /\ r.done \in BOOLEAN
      /\ r.durable \in BOOLEAN /\ r.rc \in Nat
  BY <1>3, RecordFields DEF RecordOK
<1> DEFINE q == Tail(owed)
<1> HIDE DEF r, q
<1>5. /\ s \in Spool /\ SpoolOK(s) /\ s.fs = sp.fs
      /\ \A b \in Apps : b # r.app => s.mem[b] = sp.mem[b]
      /\ \A b \in Apps : sp.file[b] # {} => s.file[b] # {}
  BY <1>3, FactParts, PersistedFacts
<1> HIDE DEF s
<1>6. keep \in BOOLEAN
  BY <1>4 DEF Retained
<1>7. keep /\ ~r.done => s.file[r.app] # {}
  BY <1>3, <1>5, RetainedOnFile
<1> HIDE DEF keep
<1>8. r1 \in Record /\ r1.app = r.app /\ r1.ev = r.ev
  <2> DEFINE d == r.durable \/ keep
  <2>1. d \in BOOLEAN /\ r1 = [r EXCEPT !.admitted = TRUE, !.durable = d]
    BY <1>3, <1>4, <1>6 DEF keep, Record
  <2> HIDE DEF d
  <2> QED
    BY <1>3, <2>1 DEF Record
<1> HIDE DEF r1
<1>9. /\ owed' \in Seq(Record)
      /\ \A j \in DOMAIN owed' : owed'[j] = r1 \/ \E k \in DOMAIN owed : owed'[j] = owed[k]
  <2>1. CASE owed' = q
    BY <1>3, <2>1 DEF q
  <2>2. CASE owed' = <<r1>> \o q
    BY <1>3, <1>8, <2>2, ConsOf DEF q
  <2> QED
    BY <1>1, <2>1, <2>2 DEF q
<1>10. OwedInv'
  <2>1. MayOwe(r1, used'.armed)
    BY <1>2, <1>3, <1>8 DEF MayOwe, RecordOK, Unwithdrawn
  <2> QED
    BY <1>1, <1>2, <1>9, <2>1, OwedFrom
<1>11. e \in Emission /\ e.app = r.app /\ e.ks = key.epoch /\ e.fs = factPurge /\ e.ph # "enqueue"
  BY <1>4, FactParts, OwedParts DEF Emission
<1> HIDE DEF e
<1>12. key.epoch <= key.epoch /\ factPurge <= factPurge
  BY FactParts
<1>13. sweep' \in Emission \union {None} /\ SweepInv'
  <2>1. MayEmit(e, used'.armed)
    BY <1>2, <1>4, <1>11, <1>12 DEF MayEmit, Unwithdrawn
  <2>2. sweep' # None => MayEmit(sweep', used'.armed)
    BY <1>1, <2>1
  <2>3. sweep' \in Emission \union {None}
    BY <1>1, <1>11
  <2> QED
    BY <1>1, <1>2, <2>2, <2>3, SweepStep DEF plane
<1>14. \A a \in Apps : sp'.fs[a] <= factPurge
  BY <1>1, <1>5, FactParts
<1>15. \A a \in Apps : sp'.mem[a] # {} => sp.mem[a] # {} \/ (a \in used'.armed /\ a \notin dead)
  BY <1>1, <1>2, <1>4, <1>5 DEF Unwithdrawn
<1>16. kept' \in SUBSET Apps /\ \A a \in kept' : sp'.file[a] # {}
  BY <1>1, <1>4, <1>5, <1>7, FactParts
<1>17. applied' \in BOOLEAN /\ exposed' \in Apps \union {None}
  BY <1>1, OwedParts DEF plane
<1>18. sp' \in Spool /\ SpoolOK(sp')
  BY <1>1, <1>5
<1> QED
  BY <1>1, <1>2, <1>9, <1>10, <1>13, <1>14, <1>15, <1>16, <1>17, <1>18, EmitStep DEF plane

\* A step that retires one application: its record and its intent go.
LEMMA RetireKeeps ==
    ASSUME FactInv, NEW a \in Apps,
           UNCHANGED <<consent, plane, epochs, marks, queue, drained, w, purgeOwed, receipts, used, dead, spared>>,
           owed' \in Seq(Record), \A j \in DOMAIN owed' : \E k \in DOMAIN owed : owed'[j] = owed[k],
           sweep' \in {sweep, None}, sweep # None => sweep.ph # "note",
           sp' = Removed(sp, "intent", {a}), kept' = kept \ {a}
    PROVE  FactInv'
<1>1. RemovedIs(sp, sp', "intent", {a})
  <2>1. {a} \in SUBSET Apps
    OBVIOUS
  <2> QED
    BY <2>1, FactParts, FactsRemoved
<1>2. /\ sp' \in Spool /\ SpoolOK(sp') /\ sp'.fs = sp.fs
      /\ \A b \in Apps : sp'.mem[b] = IF b \in {a} THEN sp.mem[b] \ {"intent"} ELSE sp.mem[b]
      /\ \A b \in Apps : sp.file[b] # {} /\ sp'.mem[b] # {} => sp'.file[b] # {}
  BY <1>1 DEF RemovedIs
<1>3. kept' \in SUBSET Apps /\ \A b \in kept' : sp'.file[b] # {}
  BY <1>2, FactParts DEF SpoolOK
<1>4. OwedInv'
  BY OwedShrinks
<1>5. SweepInv'
  BY SweepSame, SweepEnds DEF plane
<1>6. applied' \in BOOLEAN /\ exposed' \in Apps \union {None} /\ sweep' \in Emission \union {None} /\ used' \in Used
  BY OwedParts, FactParts DEF plane
<1>7. \A b \in Apps : sp'.fs[b] <= factPurge /\ (sp'.mem[b] # {} => sp.mem[b] # {})
  BY <1>2, FactParts
<1> QED
  BY <1>2, <1>3, <1>4, <1>5, <1>6, <1>7, EmitStep DEF plane

LEMMA SweepExpiredKeeps == ASSUME FactInv, SweepExpired PROVE FactInv'
<1>1. /\ sweep = None /\ owed # <<>> /\ owed' = Tail(owed)
      /\ sp' = Removed(sp, "intent", {Head(owed).app}) /\ kept' = kept \ {Head(owed).app}
      /\ UNCHANGED <<consent, plane, sweep, epochs, marks, queue, drained, w, purgeOwed, receipts, used, dead, spared>>
  BY DEF SweepExpired
<1>2. /\ Head(owed) \in Record /\ Tail(owed) \in Seq(Record)
      /\ \A j \in DOMAIN Tail(owed) : \E k \in DOMAIN owed : Tail(owed)[j] = owed[k]
  BY <1>1, OwedParts, TailOf
<1>3. Head(owed).app \in Apps
  BY <1>2, RecordFields
<1> QED
  BY <1>1, <1>2, <1>3, RetireKeeps

LEMMA SealingIs == ASSUME Sealing PROVE sweep # None /\ sweep.ph = "seal"
BY DEF Sealing

LEMMA SealRefusedKeeps == ASSUME FactInv, SealRefused PROVE FactInv'
<1> DEFINE i == CHOOSE i \in DOMAIN owed : Holds(owed[i])
<1>1. /\ sweep # None /\ sweep.ph = "seal" /\ Current /\ owed' = RemoveAt(owed, i) /\ sweep' = None
      /\ sp' = Removed(sp, "intent", {sweep.app}) /\ kept' = kept \ {sweep.app}
      /\ UNCHANGED <<consent, plane, epochs, marks, queue, drained, w, purgeOwed, receipts, used, dead, spared>>
  BY SealingIs DEF SealRefused, Stands, WithoutMine
<1>2. i \in DOMAIN owed
  BY <1>1 DEF Current, Owed
<1> HIDE DEF i
<1>3. owed' \in Seq(Record) /\ \A j \in DOMAIN owed' : \E k \in DOMAIN owed : owed'[j] = owed[k]
  BY <1>1, <1>2, OwedParts, WithoutOne
<1>4. sweep.app \in Apps
  BY <1>1, FactParts, SweepFields
<1> QED
  BY <1>1, <1>3, <1>4, RetireKeeps

\* A step that touches only the list and the emission.
LEMMA ListStep ==
    ASSUME FactInv,
           UNCHANGED <<consent, plane, epochs, marks, queue, drained, w, sp, purgeOwed, receipts, dead, spared, kept>>,
           used' \in Used, used'.armed = used.armed,
           owed' \in Seq(Record), OwedInv', sweep' \in Emission \union {None}, SweepInv',
           sweep # None => sweep.ph # "note"
    PROVE  FactInv'
<1>1. applied' \in BOOLEAN /\ exposed' \in Apps \union {None}
  BY OwedParts DEF plane
<1>2. /\ sp' \in Spool /\ SpoolOK(sp') /\ \A a \in Apps : sp'.fs[a] <= factPurge
      /\ kept' \in SUBSET Apps /\ \A a \in kept' : sp'.file[a] # {}
  BY FactParts
<1> QED
  BY <1>1, <1>2, EmitStep DEF plane

LEMMA SealKeptKeeps == ASSUME FactInv, SealKept PROVE FactInv'
<1>1. /\ sweep # None /\ sweep.ph = "seal" /\ sweep' = None
      /\ UNCHANGED <<consent, plane, owed, epochs, marks, queue, drained, w, sp, purgeOwed, receipts, used, dead, spared, kept>>
  BY SealingIs DEF SealKept, hist
<1>2. owed' \in Seq(Record) /\ \A j \in DOMAIN owed' : \E k \in DOMAIN owed : owed'[j] = owed[k]
  BY <1>1, OwedParts
<1>3. OwedInv'
  BY <1>1, <1>2, OwedShrinks
<1>4. SweepInv' /\ used' \in Used
  BY <1>1, SweepEnds, FactParts DEF plane
<1> QED
  BY <1>1, <1>2, <1>3, <1>4, ListStep

\* The seal's stamp is the key generation after its answer.
LEMMA SealGrantedKeeps == ASSUME FactInv, SealGranted PROVE FactInv'
<1> DEFINE r == [Mine EXCEPT !.sealed = TRUE]
<1>1. /\ sweep # None /\ sweep.ph = "seal" /\ Current /\ owed' = Update(r)
      /\ sweep' = [sweep EXCEPT !.ph = "build", !.ks = key.epoch]
      /\ UNCHANGED <<consent, plane, epochs, marks, queue, drained, w, sp, purgeOwed, receipts, used, dead, spared, kept>>
  BY SealingIs DEF SealGranted, Stands, hist
<1>2. Mine \in Record /\ RecordOK(Mine)
  BY <1>1, MineFacts
<1>3. r \in Record /\ r.app = Mine.app /\ r.ev = Mine.ev
  BY <1>2 DEF Record
<1> HIDE DEF r
<1>4. owed' \in Seq(Record) /\ \A j \in DOMAIN owed' : owed'[j] = r \/ \E k \in DOMAIN owed : owed'[j] = owed[k]
  BY <1>1, <1>3, UpdateFacts
<1>5. OwedInv'
  <2>1. MayOwe(r, used'.armed)
    BY <1>1, <1>2, <1>3 DEF MayOwe, RecordOK, Unwithdrawn
  <2> QED
    BY <1>1, <1>4, <2>1, OwedFrom
<1>6. sweep \in Emission /\ key.epoch \in Nat
  BY <1>1, FactParts, SweepFields
<1>7. /\ sweep' \in Emission /\ sweep'.app = sweep.app /\ sweep'.ph = "build" /\ sweep'.ks = key.epoch
      /\ sweep'.fs = sweep.fs
  BY <1>1, <1>6 DEF Emission
<1>8. MayEmit(sweep', used'.armed)
  <2>1. sweep.app \in used.armed /\ sweep.fs <= factPurge /\ key.epoch <= key.epoch
    BY <1>1, <1>6, FactParts DEF SweepInv, EmissionOK
  <2> QED
    BY <1>1, <1>7, <2>1 DEF MayEmit
<1>9. SweepInv' /\ used' \in Used
  BY <1>1, <1>8, SweepStep, FactParts DEF plane
<1> QED
  BY <1>1, <1>4, <1>5, <1>7, <1>9, ListStep

\* durablyHandoffApplication: the fact's stamp is the emission's, or the one
\* of the attempt that first made it.
LEMMA HandoffKeeps == ASSUME FactInv, NEW ok \in BOOLEAN, Handoff(ok) PROVE FactInv'
<1> DEFINE r  == Mine
           ev == IF r.ev = None THEN [ks |-> sweep.ks, fs |-> sweep.fs] ELSE r.ev
           e  == [sweep EXCEPT !.ph = "enqueue", !.ks = ev.ks, !.fs = ev.fs]
           r1 == [r EXCEPT !.ev = ev]
           r2 == [r EXCEPT !.ev = ev, !.done = ok]
<1>1. /\ sweep # None /\ sweep.ph = "build"
      /\ UNCHANGED <<consent, plane, epochs, marks, queue, drained, w, purgeOwed, dead, spared, kept>>
  BY DEF Handoff, hist
<1>2. used' \in Used /\ used'.armed = used.armed
  BY FactParts, SpendFacts DEF Handoff
<1>3. sweep \in Emission /\ EmissionOK(sweep)
  BY <1>1, FactParts, SweepFields DEF SweepInv
<1>4. CASE ~Current \/ ~consent.granted
  <2>1. sweep' = None /\ UNCHANGED <<owed, sp, receipts>>
    BY <1>4 DEF Handoff
  <2>2. owed' \in Seq(Record) /\ \A j \in DOMAIN owed' : \E k \in DOMAIN owed : owed'[j] = owed[k]
    BY <2>1, OwedParts
  <2>3. OwedInv'
    BY <1>1, <1>2, <2>2, OwedShrinks
  <2>4. SweepInv'
    BY <1>1, <1>2, <2>1, SweepEnds DEF plane
  <2> QED
    BY <1>1, <1>2, <2>1, <2>2, <2>3, <2>4, ListStep
<1>5. CASE Current /\ consent.granted
  <2>1. r \in Record /\ r.app = sweep.app /\ RecordOK(r)
    BY <1>5, MineFacts
  <2>2. \/ r.done /\ UNCHANGED <<owed, sp, receipts>> /\ sweep' = e
        \/ sweep' = None /\ UNCHANGED <<sp, receipts>> /\ owed' = Update(r1)
        \/ /\ sp.mem[r.app] # {} /\ \E landed \in BOOLEAN : sp' = Replaced(sp, r.app, ok, landed)
           /\ owed' = Update(r2) /\ receipts' = IF ok THEN Shelved({r}) ELSE receipts
           /\ sweep' = IF ok THEN e ELSE None
    BY <1>5 DEF Handoff
  <2>3. ev \in Stamp /\ ev.ks <= key.epoch /\ ev.fs <= factPurge
    <3>1. CASE r.ev = None
      BY <1>3, <3>1, EmissionFields DEF EmissionOK, Stamp
    <3>2. CASE r.ev # None
      BY <2>1, <3>2, RecordFields DEF RecordOK
    <3> QED
      BY <3>1, <3>2
  <2> HIDE DEF ev, r
  <2>4. /\ r1 \in Record /\ r1.app = r.app /\ r1.ev = ev
        /\ r2 \in Record /\ r2.app = r.app /\ r2.ev = ev
    BY <2>1, <2>3 DEF Record
  <2>5. ev.ks \in Nat /\ ev.fs \in Nat
    BY <2>3 DEF Stamp
  <2>6. e \in Emission /\ e.app = sweep.app /\ e.ks = ev.ks /\ e.fs = ev.fs
    BY <1>3, <2>5 DEF Emission
  <2> HIDE DEF e, r1, r2
  <2>7. MayOwe(r1, used'.armed) /\ MayOwe(r2, used'.armed)
    BY <1>2, <2>1, <2>3, <2>4 DEF MayOwe, RecordOK, Unwithdrawn
  <2>8. MayEmit(e, used'.armed)
    BY <1>2, <2>1, <2>3, <2>6 DEF MayEmit, RecordOK, Unwithdrawn, Stamped
  <2>9. sweep' = e \/ sweep' = None
    BY <2>2
  <2>10. sweep' \in Emission \union {None} /\ SweepInv'
    <3>1. sweep' # None => MayEmit(sweep', used'.armed)
      BY <2>8, <2>9
    <3> QED
      BY <1>1, <1>2, <2>6, <2>9, <3>1, SweepStep DEF plane
  <2>11. CASE r.done /\ UNCHANGED <<owed, sp, receipts>> /\ sweep' = e
    <3>1. owed' \in Seq(Record) /\ \A j \in DOMAIN owed' : \E k \in DOMAIN owed : owed'[j] = owed[k]
      BY <2>11, OwedParts
    <3>2. OwedInv'
      BY <1>1, <1>2, <3>1, OwedShrinks
    <3> QED
      BY <1>1, <1>2, <2>10, <2>11, <3>1, <3>2, ListStep
  <2>12. CASE sweep' = None /\ UNCHANGED <<sp, receipts>> /\ owed' = Update(r1)
    <3>1. owed' \in Seq(Record) /\ \A j \in DOMAIN owed' : owed'[j] = r1 \/ \E k \in DOMAIN owed : owed'[j] = owed[k]
      BY <2>4, <2>12, UpdateFacts
    <3>2. OwedInv'
      BY <1>1, <1>2, <2>7, <3>1, OwedFrom
    <3> QED
      BY <1>1, <1>2, <2>10, <2>12, <3>1, <3>2, ListStep
  <2>13. CASE /\ sp.mem[r.app] # {} /\ \E landed \in BOOLEAN : sp' = Replaced(sp, r.app, ok, landed)
              /\ owed' = Update(r2) /\ receipts' = IF ok THEN Shelved({r}) ELSE receipts
              /\ sweep' = IF ok THEN e ELSE None
    <3>1. owed' \in Seq(Record) /\ \A j \in DOMAIN owed' : owed'[j] = r2 \/ \E k \in DOMAIN owed : owed'[j] = owed[k]
      BY <2>4, <2>13, UpdateFacts
    <3>2. OwedInv'
      BY <1>1, <1>2, <2>7, <3>1, OwedFrom
    <3>3. r.app \in Apps /\ Unwithdrawn(r.app)
      BY <2>1, RecordFields DEF RecordOK
    <3>4. /\ sp' \in Spool /\ SpoolOK(sp')
          /\ \A b \in Apps : sp'.fs[b] \in {sp.fs[b], factPurge}
          /\ \A b \in Apps : b # r.app => sp'.mem[b] = sp.mem[b]
          /\ \A b \in Apps : sp.file[b] # {} => sp'.file[b] # {}
      <4>1. PICK landed \in BOOLEAN : sp' = Replaced(sp, r.app, ok, landed)
        BY <2>13
      <4> QED
        BY <2>13, <3>3, <4>1, FactParts, ReplacedFacts
    <3>5. \A b \in Apps : sp'.fs[b] <= factPurge
      BY <3>4, FactParts
    <3>6. \A b \in Apps : sp'.mem[b] # {} => sp.mem[b] # {} \/ (b \in used'.armed /\ b \notin dead)
      BY <1>2, <3>3, <3>4 DEF Unwithdrawn
    <3>7. kept' \in SUBSET Apps /\ \A b \in kept' : sp'.file[b] # {}
      BY <1>1, <3>4, FactParts
    <3>9. receipts' = receipts \/ receipts' \in Ledger
      <4>1. \A x \in {r} : x.rc \in Nat
        BY <2>1, RecordFields
      <4> QED
        BY <2>13, <4>1, FactParts, ShelvedFacts
    <3>8. applied' \in BOOLEAN /\ exposed' \in Apps \union {None}
      BY <1>1, OwedParts DEF plane
    <3> QED
      BY <1>1, <1>2, <2>10, <3>1, <3>2, <3>4, <3>5, <3>6, <3>7, <3>8, <3>9, EmitStep DEF plane
  <2> QED
    BY <2>2, <2>11, <2>12, <2>13
<1> QED
  BY <1>4, <1>5

\* enqueueExperimentFact: the new fact is above the watermark, and its key is
\* about to be noted.
LEMMA EnqueueKeeps == ASSUME FactInv, Enqueue PROVE FactInv'
<1> DEFINE x == [app |-> sweep.app, ks |-> sweep.ks, fs |-> sweep.fs, in |-> consent.epoch, seq |-> factSeq + 1,
                 rc |-> sweep.rc]
<1>1. /\ sweep # None /\ sweep.ph = "enqueue"
      /\ UNCHANGED <<consent, plane, owed, epochs, noted, low, drained, w, sp, purgeOwed, receipts, used, dead, spared, kept>>
  BY DEF Enqueue, hist
<1>2. sweep \in Emission /\ EmissionOK(sweep)
  BY <1>1, FactParts, SweepFields DEF SweepInv
<1>3. owed' \in Seq(Record) /\ \A j \in DOMAIN owed' : \E k \in DOMAIN owed : owed'[j] = owed[k]
  BY <1>1, OwedParts
<1>4. OwedInv'
  BY <1>1, <1>3, OwedShrinks
<1>5. CASE ~(consent.granted /\ Cardinality(queue) < QueueSize)
  <2>1. sweep' = None /\ UNCHANGED <<factSeq, queue>>
    BY <1>5 DEF Enqueue
  <2>2. SweepInv'
    BY <1>1, <2>1, SweepEnds DEF plane
  <2>3. used' \in Used
    BY <1>1, FactParts
  <2> QED
    BY <1>1, <1>3, <1>4, <2>1, <2>2, <2>3, ListStep DEF marks
<1>6. CASE consent.granted /\ Cardinality(queue) < QueueSize
  <2>1. /\ factSeq' = factSeq + 1 /\ queue' = queue \union {x}
        /\ sweep' = [sweep EXCEPT !.ph = "note", !.seq = factSeq + 1]
    BY <1>6 DEF Enqueue, AttachedWith
  <2>2. factSeq \in Nat /\ low \in Nat /\ consent.epoch \in Nat
    BY FactParts DEF TypeInv
  <2>3. /\ sweep' \in Emission /\ sweep'.app = sweep.app /\ sweep'.ph = "note" /\ sweep'.seq = factSeq + 1
        /\ sweep'.ks = sweep.ks /\ sweep'.fs = sweep.fs
    <3>1. factSeq + 1 \in Nat
      BY <2>2
    <3>2. sweep' = [sweep EXCEPT !.ph = "note", !.seq = factSeq + 1]
      BY <2>1
    <3> QED
      BY <1>2, <3>1, <3>2 DEF Emission
  <2>4. /\ x \in Fact /\ x.app = sweep.app /\ x.ks = sweep.ks /\ x.fs = sweep.fs /\ x.seq = factSeq + 1
    BY <1>2, <2>2, EmissionFields DEF Fact
  <2> HIDE DEF x
  <2>5. SweepInv'
    <3>1. MayEmit(sweep', used'.armed)
      BY <1>1, <1>2, <2>3 DEF MayEmit, EmissionOK
    <3> QED
      BY <1>1, <3>1, SweepStep DEF plane
  <2>6. TypeInv'
    <3>1. queue' \in SUBSET Fact /\ factSeq' \in Nat
      BY <2>1, <2>2, <2>4, FactParts DEF TypeInv
    <3> QED
      BY <1>1, <2>3, <3>1, FactParts DEF TypeInv, plane, epochs
  <2>7. PipeInv'
    <3> SUFFICES ASSUME NEW y \in InPipeline' PROVE FactOK(y)'
      BY DEF PipeInv
    <3>1. CASE y \in InPipeline
      <4>1. FactOK(y)
        BY <3>1, FactParts DEF PipeInv
      <4>2. y.seq <= noted
        BY <1>1, <4>1 DEF FactOK
      <4> QED
        BY <1>1, <4>1, <4>2 DEF FactOK, Stamped, KeyWithdrawn, PurgeWithdrawn, epochs
    <3>2. CASE y \notin InPipeline
      <4>1. y = x
        BY <1>1, <2>1, <3>2 DEF InPipeline
      <4>2. y.app \in used.armed /\ Stamped(y.app, y.ks, y.fs)
        BY <1>1, <1>2, <2>4, <4>1 DEF EmissionOK
      <4>3. y.seq >= low /\ y.seq > 0
        BY <2>2, <2>4, <4>1, FactParts
      <4>4. sweep' # None /\ sweep'.ph = "note" /\ y.seq = sweep'.seq
        BY <2>3, <2>4, <4>1, Bounds
      <4> QED
        BY <1>1, <4>2, <4>3, <4>4 DEF FactOK, Stamped, KeyWithdrawn, PurgeWithdrawn, epochs
    <3> QED
      BY <3>1, <3>2
  <2>8. OrderInv'
    <3>1. w.last \in Nat /\ drained \in Nat /\ queue \in SUBSET Fact
      BY FactParts, WorkerFields DEF TypeInv
    <3>2. \A y \in queue : y.seq \in Nat /\ y.seq <= factSeq /\ y.seq > w.last /\ y.seq > drained
      BY <3>1, FactParts, FactFields DEF OrderInv
    <3>3. w.last <= factSeq /\ drained <= factSeq /\ low <= factSeq + 1
      BY FactParts DEF OrderInv
    <3>4. \A y \in queue' : y.seq > w.last /\ y.seq > drained /\ y.seq <= factSeq + 1
      BY <2>1, <2>2, <2>4, <3>1, <3>2, <3>3
    <3>5. \A y, z \in queue' : y.seq = z.seq => y = z
      <4>1. \A y \in queue : y.seq # x.seq
        BY <2>2, <2>4, <3>2
      <4>2. \A y, z \in queue : y.seq = z.seq => y = z
        BY FactParts DEF OrderInv
      <4> QED
        BY <2>1, <4>1, <4>2
    <3>6. w.last <= factSeq + 1 /\ drained <= factSeq + 1 /\ low <= (factSeq + 1) + 1
      BY <2>2, <3>1, <3>3
    <3> QED
      BY <1>1, <2>1, <3>4, <3>5, <3>6 DEF OrderInv
  <2>9. SpoolInv'
    BY <1>1, FactParts DEF SpoolInv, SpoolOK, Facts, Unwithdrawn, epochs
  <2>10. WorkerInv'
    BY <1>1, FactParts DEF WorkerInv, WorkerOK, KeyWithdrawn, epochs
  <2>11. StoredSurvives'
    BY <1>1, FactParts DEF StoredSurvives
  <2> QED
    BY <1>4, <2>5, <2>6, <2>7, <2>8, <2>9, <2>10, <2>11 DEF FactInv
<1> QED
  BY <1>5, <1>6

\* The end of emitOwedExposure: the key is noted at or above its fact.
LEMMA FinishKeeps == ASSUME FactInv, Finish PROVE FactInv'
<1>1. /\ sweep # None /\ sweep.ph = "note" /\ sweep' = None
      /\ noted' = IF sweep.seq > Forgotten THEN sweep.seq ELSE Forgotten
      /\ UNCHANGED <<consent, served, confirmed, declaring, applied, epochs, low, factSeq, queue, drained,
                     w, sp, purgeOwed, receipts, used, dead, spared, kept>>
  BY DEF Finish, hist
<1>2. sweep.seq \in Nat /\ noted \in Nat /\ low \in Nat /\ sweep.app \in Apps
  BY <1>1, FactParts, SweepFields DEF TypeInv
<1>3. Forgotten \in Nat
  BY <1>2 DEF Forgotten
<1>4. noted' \in Nat /\ noted' >= sweep.seq /\ noted' >= Forgotten
  BY <1>1, <1>2, <1>3
<1>5. exposed' = exposed \/ (exposed' = sweep.app /\ Current)
  BY DEF Finish
<1>6. exposed' \in Apps \union {None} /\ (exposed' # None => Unwithdrawn(exposed'))
  <2>1. Current => Unwithdrawn(sweep.app)
    BY MineFacts DEF RecordOK
  <2> QED
    BY <1>2, <1>5, <2>1, FactParts, OwedParts DEF SweepInv
<1>7. owed' \in Seq(Record) /\ \A j \in DOMAIN owed' : \E k \in DOMAIN owed : owed'[j] = owed[k]
  <2>1. owed' = owed \/ (owed # <<>> /\ owed' = Tail(owed))
    BY DEF Finish
  <2> QED
    BY <2>1, OwedParts, TailOf
<1>8. OwedInv'
  BY <1>1, <1>7, OwedShrinks
<1>9. TypeInv'
  BY <1>1, <1>4, <1>6, <1>7, FactParts DEF TypeInv, epochs
<1>10. PipeInv'
  <2> SUFFICES ASSUME NEW y \in InPipeline' PROVE FactOK(y)'
    BY DEF PipeInv
  <2>1. y \in InPipeline
    BY <1>1 DEF InPipeline
  <2>2. FactOK(y) /\ y.seq \in Nat /\ y.seq >= low
    BY <2>1, FactParts, FactFields DEF PipeInv
  <2>3. y.seq <= noted => Forgotten = noted
    BY <1>2, <2>2 DEF Forgotten
  <2>4. y.seq <= noted \/ y.seq = sweep.seq
    BY <2>2 DEF FactOK
  <2>5. y.seq <= noted'
    BY <1>2, <1>3, <1>4, <2>2, <2>3, <2>4
  <2> QED
    BY <1>1, <2>2, <2>5 DEF FactOK, Stamped, KeyWithdrawn, PurgeWithdrawn, epochs
<1>11. SweepInv'
  BY <1>1, <1>6 DEF SweepInv, Unwithdrawn
<1>12. SpoolInv'
  BY <1>1, FactParts DEF SpoolInv, SpoolOK, Facts, Unwithdrawn, epochs
<1>13. OrderInv'
  BY <1>1, FactParts DEF OrderInv
<1>14. WorkerInv'
  BY <1>1, FactParts DEF WorkerInv, WorkerOK, KeyWithdrawn, epochs
<1>15. StoredSurvives'
  BY <1>1, FactParts DEF StoredSurvives
<1> QED
  BY <1>8, <1>9, <1>10, <1>11, <1>12, <1>13, <1>14, <1>15 DEF FactInv

-----------------------------------------------------------------------------
(* Withdrawals.                                                            *)

\* A step that moves no generation and touches neither the emission's marks
\* nor the list: what it must show is about the spool.
LEMMA SpoolStep ==
    ASSUME FactInv,
           UNCHANGED <<consent, owed, sweep, exposed, epochs, marks, queue, drained, w, used, dead, spared>>,
           receipts' = receipts \/ receipts' \in Ledger,
           served' \in BOOLEAN, confirmed' \in BOOLEAN, declaring' \in BOOLEAN, applied' \in BOOLEAN,
           purgeOwed' \in BOOLEAN,
           sp' \in Spool, SpoolOK(sp'), \A a \in Apps : sp'.fs[a] <= factPurge,
           \A a \in Apps : sp'.mem[a] # {} => sp.mem[a] # {} \/ Unwithdrawn(a),
           kept' \in SUBSET Apps, \A a \in kept' : sp'.file[a] # {}
    PROVE  FactInv'
<1>1. TypeInv'
  BY FactParts DEF TypeInv, epochs, marks
<1>2. PipeInv'
  BY FactParts DEF PipeInv, InPipeline, FactOK, Stamped, KeyWithdrawn, PurgeWithdrawn, epochs, marks
<1>3. OwedInv'
  BY FactParts DEF OwedInv, Owed, RecordOK, Unwithdrawn, epochs
<1>4. SweepInv'
  BY SweepSame
<1>5. SpoolInv'
  BY FactParts DEF SpoolInv, SpoolOK, Facts, Unwithdrawn, epochs
<1>6. OrderInv'
  BY FactParts DEF OrderInv, marks
<1>7. WorkerInv'
  BY FactParts DEF WorkerInv, WorkerOK, KeyWithdrawn, epochs
<1>8. StoredSurvives'
  BY FactParts DEF StoredSurvives
<1> QED
  BY <1>1, <1>2, <1>3, <1>4, <1>5, <1>6, <1>7, <1>8 DEF FactInv

\* A step of the assignments' side.
LEMMA PlaneStep ==
    ASSUME FactInv,
           UNCHANGED <<consent, owed, sweep, exposed, epochs, marks, queue, drained, w, sp, receipts, used, dead, spared, kept>>,
           served' \in BOOLEAN, confirmed' \in BOOLEAN, declaring' \in BOOLEAN, applied' \in BOOLEAN,
           purgeOwed' \in BOOLEAN
    PROVE  FactInv'
<1>1. /\ sp' \in Spool /\ SpoolOK(sp') /\ \A a \in Apps : sp'.fs[a] <= factPurge
      /\ kept' \in SUBSET Apps /\ \A a \in kept' : sp'.file[a] # {}
  BY FactParts
<1> QED
  BY <1>1, SpoolStep

LEMMA DeclareKeeps == ASSUME FactInv, Declare PROVE FactInv'
<1>1. served \in BOOLEAN /\ applied \in BOOLEAN /\ purgeOwed \in BOOLEAN
  BY FactParts DEF TypeInv
<1> QED
  BY <1>1, PlaneStep DEF Declare, hist

LEMMA FetchAssignedKeeps == ASSUME FactInv, FetchAssigned PROVE FactInv'
<1>1. applied \in BOOLEAN /\ purgeOwed \in BOOLEAN
  BY FactParts DEF TypeInv
<1> QED
  BY <1>1, PlaneStep DEF FetchAssigned, hist

LEMMA UpkeepKeeps == ASSUME FactInv, Upkeep PROVE FactInv'
<1>1. /\ sp' = Saved(sp)
      /\ UNCHANGED <<consent, plane, owed, sweep, epochs, marks, queue, drained, w, purgeOwed, receipts, used, dead, spared, kept>>
  BY DEF Upkeep, hist
<1>2. /\ sp' \in Spool /\ sp'.mem = sp.mem /\ sp'.file = sp.mem /\ sp'.fs = sp.fs /\ sp'.res = sp.res
  BY <1>1, FactParts, SavedFacts
<1>3. SpoolOK(sp')
  BY <1>2, FactParts DEF SpoolOK, Facts
<1>4. \A a \in kept' : sp'.file[a] # {}
  BY <1>1, <1>2, FactParts DEF SpoolOK
<1>5. /\ served' \in BOOLEAN /\ confirmed' \in BOOLEAN /\ declaring' \in BOOLEAN /\ applied' \in BOOLEAN
      /\ purgeOwed' \in BOOLEAN /\ kept' \in SUBSET Apps
  BY <1>1, FactParts DEF TypeInv, plane
<1> QED
  BY <1>1, <1>2, <1>3, <1>4, <1>5, FactParts, SpoolStep DEF plane

\* applyEntryDropLocked captures only what is owed.
LEMMA FetchEndedKeeps == ASSUME FactInv, FetchEnded PROVE FactInv'
<1> DEFINE as == {r.app : r \in {r \in Owed : r.sealed}}
<1>1. /\ served' = FALSE /\ sp' = Appended(sp, as, factPurge, TRUE)
      /\ receipts' = Shelved({r \in Owed : r.sealed})
      /\ UNCHANGED <<consent, confirmed, declaring, applied, exposed, owed, sweep, epochs, marks, queue,
                     drained, w, purgeOwed, used, dead, spared, kept>>
  BY DEF FetchEnded, hist
<1>2. \A a \in as : a \in Apps /\ Unwithdrawn(a)
  <2>1. \A r \in Owed : r \in Record /\ RecordOK(r)
    BY OwedParts DEF Owed
  <2> QED
    BY <2>1, RecordFields DEF RecordOK
<1> HIDE DEF as
<1>3. AppendedIs(sp, sp', as, factPurge)
  <2>1. as \in SUBSET Apps /\ TRUE \in BOOLEAN
    BY <1>2
  <2> QED
    BY <1>1, <2>1, FactParts, FactsAppended
<1>4. /\ sp' \in Spool /\ SpoolOK(sp')
      /\ \A b \in Apps : sp'.fs[b] \in {sp.fs[b], factPurge}
      /\ \A b \in Apps : b \notin as => sp'.mem[b] = sp.mem[b]
      /\ \A b \in Apps : sp.file[b] # {} => sp'.file[b] # {}
  BY <1>3 DEF AppendedIs
<1>5. \A b \in Apps : sp'.fs[b] <= factPurge
  BY <1>4, FactParts
<1>6. \A b \in Apps : sp'.mem[b] # {} => sp.mem[b] # {} \/ Unwithdrawn(b)
  BY <1>2, <1>4
<1>7. kept' \in SUBSET Apps /\ \A a \in kept' : sp'.file[a] # {}
  BY <1>1, <1>4, FactParts
<1>8. confirmed' \in BOOLEAN /\ declaring' \in BOOLEAN /\ applied' \in BOOLEAN /\ purgeOwed' \in BOOLEAN
  BY <1>1, FactParts DEF TypeInv
<1>9. receipts' \in Ledger
  <2>1. \A r \in {r \in Owed : r.sealed} : r.rc \in Nat
    BY OwedParts, RecordFields DEF Owed
  <2> QED
    BY <1>1, <2>1, FactParts, ShelvedFacts
<1> QED
  BY <1>1, <1>4, <1>5, <1>6, <1>7, <1>8, <1>9, SpoolStep

\* purgeWithdrawnExperimentFacts, the second pass.
LEMMA PurgeSweepKeeps == ASSUME FactInv, PurgeSweep PROVE FactInv'
<1> DEFINE v  == Removed(sp, "intent", Apps)
           as == {a \in Apps : sp.fs[a] < factPurge}
<1>1. /\ purgeOwed' = FALSE /\ sp' = Removed(v, "fact", as) /\ kept' = {a \in kept : sp'.mem[a] # {}}
      /\ UNCHANGED <<consent, plane, owed, sweep, epochs, marks, queue, drained, w, receipts, used, dead, spared>>
  BY DEF PurgeSweep
<1>2. RemovedIs(sp, v, "intent", Apps)
  BY FactParts, FactsRemoved
<1> HIDE DEF v
<1>3. v \in Spool /\ SpoolOK(v)
  BY <1>2 DEF RemovedIs
<1>4. as \in SUBSET Apps
  OBVIOUS
<1> HIDE DEF as
<1>5. RemovedIs(v, sp', "fact", as)
  BY <1>1, <1>3, <1>4, FactsRemoved
<1>6. sp' \in Spool /\ SpoolOK(sp') /\ \A a \in Apps : sp'.fs[a] <= factPurge
  BY <1>2, <1>5, FactParts DEF RemovedIs
<1>7. \A a \in Apps : (sp'.mem[a] # {} => v.mem[a] # {}) /\ (v.mem[a] # {} => sp.mem[a] # {})
  BY <1>2, <1>5 DEF RemovedIs
<1>8. ASSUME NEW a \in kept' PROVE sp'.file[a] # {}
  <2>1. a \in Apps /\ sp.file[a] # {} /\ sp'.mem[a] # {}
    BY <1>1, FactParts
  <2>2. v.file[a] # {}
    BY <1>2, <1>7, <2>1 DEF RemovedIs
  <2> QED
    BY <1>5, <2>1, <2>2 DEF RemovedIs
<1>9. kept' \in SUBSET Apps
  BY <1>1, FactParts
<1>10. served' \in BOOLEAN /\ confirmed' \in BOOLEAN /\ declaring' \in BOOLEAN /\ applied' \in BOOLEAN
  BY <1>1, FactParts DEF TypeInv, plane
<1> QED
  BY <1>1, <1>6, <1>7, <1>8, <1>9, <1>10, SpoolStep DEF plane

\* Everything on its way was armed.
LEMMA PendingArmed ==
    ASSUME FactInv
    PROVE  Pending \subseteq used.armed /\ AppsOf(w.req) \subseteq used.armed
<1>1. \A x \in InPipeline : x.app \in used.armed
  BY FactParts DEF PipeInv, FactOK
<1>2. \A r \in Owed : r.app \in used.armed
  BY FactParts DEF OwedInv, RecordOK, Unwithdrawn
<1>3. \A a \in Apps : sp.mem[a] # {} => a \in used.armed
  BY FactParts DEF SpoolInv, Unwithdrawn
<1>4. w.chunk \subseteq used.armed
  BY FactParts DEF WorkerInv, WorkerOK
<1>5. sweep # None => sweep.app \in used.armed
  BY FactParts DEF SweepInv, EmissionOK
<1> QED
  BY <1>1, <1>2, <1>3, <1>4, <1>5 DEF Pending, AppsOf, InPipeline

LEMMA SpentFacts ==
    ASSUME used \in Used, used' = Spent
    PROVE  used' \in Used /\ used'.armed = used.armed /\ used'.points = used.points
<1> DEFINE n == used.withdrawals + 1
<1>1. used' = [used EXCEPT !.withdrawals = n]
  BY DEF Spent
<1>2. n \in Nat
  BY UsedFields
<1> HIDE DEF n
<1> QED
  BY <1>1, <1>2 DEF Used

\* An age refusal moves the key's generation past every stamp in the pipeline.
LEMMA KeyWithdrawal ==
    ASSUME FactInv, WithdrawApplications, used' = Spent,
           UNCHANGED <<consent, marks, queue, drained, w, purgeOwed, receipts>>,
           served' \in BOOLEAN, confirmed' \in BOOLEAN, declaring' \in BOOLEAN,
           sweep' = sweep \/ (sweep' = None /\ (sweep # None => sweep.ph # "note"))
    PROVE  FactInv'
<1>1. /\ owed' = <<>> /\ exposed' = None /\ applied' = FALSE
      /\ sp' = Removed(Removed(sp, "intent", Apps), "fact", Apps)
      /\ dead' = dead \union Pending /\ kept' = {} /\ UNCHANGED <<purgeEpoch, factPurge, spared>>
  BY DEF WithdrawApplications
<1>2. key' \in [epoch : Nat, mark : Nat] /\ key'.epoch = key.epoch + 1 /\ key'.mark = key.epoch + 1
  BY FactParts DEF WithdrawApplications, Marked
<1>3. used' \in Used /\ used'.armed = used.armed
  BY FactParts, SpentFacts
<1>4. dead' \in SUBSET used.armed
  BY <1>1, PendingArmed, OwedParts
<1>5. sp' \in Spool /\ SpoolOK(sp') /\ sp'.fs = sp.fs /\ \A a \in Apps : sp'.mem[a] = {} /\ sp'.file[a] = {}
  <2>1. sp' = Removed(Removed(sp, "intent", Apps), "fact", Apps)
    BY <1>1
  <2>2. sp \in Spool /\ SpoolOK(sp)
    BY FactParts
  <2> QED
    BY <2>1, <2>2, AllRemoved
<1>6. key.epoch \in Nat /\ key.mark \in Nat /\ factPurge \in Nat
  BY FactParts
<1>7. TypeInv'
  <2>1. owed' \in Seq(Record) /\ sweep' \in Emission \union {None}
    BY <1>1, OwedParts
  <2> QED
    BY <1>1, <1>2, <1>3, <1>4, <1>5, <2>1, FactParts DEF TypeInv, marks
<1>8. \A k \in Nat : k <= key.epoch => k <= key'.epoch /\ k < key'.mark /\ k # key'.epoch
  BY <1>2, <1>6
<1>9. PipeInv'
  <2> SUFFICES ASSUME NEW x \in InPipeline' PROVE FactOK(x)'
    BY DEF PipeInv
  <2>1. x \in InPipeline /\ FactOK(x) /\ x.ks \in Nat
    BY FactParts, FactFields DEF InPipeline, PipeInv
  <2>2. x.ks <= key'.epoch /\ x.ks < key'.mark
    BY <1>8, <2>1 DEF FactOK, Stamped
  <2> QED
    BY <1>1, <1>3, <2>1, <2>2 DEF FactOK, Stamped, KeyWithdrawn, marks
<1>10. OwedInv'
  BY <1>1 DEF OwedInv, Owed
<1>11. SweepInv'
  <2>1. CASE sweep' = None
    BY <1>1, <2>1 DEF SweepInv
  <2>2. CASE sweep' = sweep /\ sweep # None
    <3>1. EmissionOK(sweep) /\ sweep.ks \in Nat
      BY <2>2, FactParts, SweepFields DEF SweepInv
    <3>2. sweep.ks <= key'.epoch /\ sweep.ks < key'.mark
      BY <1>8, <3>1 DEF EmissionOK
    <3> QED
      BY <1>1, <1>3, <2>2, <3>1, <3>2 DEF SweepInv, EmissionOK, Stamped, KeyWithdrawn
  <2> QED
    BY <2>1, <2>2
<1>12. SpoolInv'
  BY <1>1, <1>5, FactParts DEF SpoolInv, SpoolOK, Facts
<1>13. OrderInv'
  BY FactParts DEF OrderInv, marks
<1>14. WorkerInv'
  <2>1. /\ w.seenKey \in Nat /\ w.respKey \in Nat /\ w.pulledAt \in Nat
        /\ w.seenKey <= key.epoch /\ w.respKey <= key.epoch /\ w.pulledAt <= key.epoch
    BY FactParts, WorkerFields DEF WorkerInv, WorkerOK
  <2>2. /\ w.seenKey <= key'.epoch /\ w.respKey <= key'.epoch /\ w.pulledAt <= key'.epoch
        /\ w.respKey < key'.epoch /\ w.pulledAt < key'.mark /\ key'.epoch # w.seenKey
    BY <1>2, <1>8, <2>1
  <2>3. \A x \in w.req : x.ks < key'.mark
    <3> SUFFICES ASSUME NEW x \in w.req PROVE x.ks < key'.mark
      OBVIOUS
    <3>1. x \in InPipeline /\ x.ks \in Nat
      BY FactParts, FactFields DEF InPipeline
    <3> QED
      BY <1>8, <3>1, FactParts DEF PipeInv, FactOK, Stamped
  <2> QED
    BY <1>1, <1>3, <2>2, <2>3, FactParts DEF WorkerInv, WorkerOK, KeyWithdrawn
<1>15. StoredSurvives'
  BY <1>1, FactParts DEF StoredSurvives
<1> QED
  BY <1>7, <1>9, <1>10, <1>11, <1>12, <1>13, <1>14, <1>15 DEF FactInv

LEMMA SealRefusedAgeKeeps == ASSUME FactInv, SealRefusedAge PROVE FactInv'
<1>1. confirmed \in BOOLEAN /\ declaring \in BOOLEAN
  BY FactParts DEF TypeInv
<1>2. sweep # None /\ sweep.ph = "seal"
  BY SealingIs DEF SealRefusedAge
<1> QED
  BY <1>1, <1>2, KeyWithdrawal DEF SealRefusedAge

LEMMA FetchRefusedAgeKeeps == ASSUME FactInv, FetchRefusedAge PROVE FactInv'
<1>1. confirmed \in BOOLEAN
  BY FactParts DEF TypeInv
<1> QED
  BY <1>1, KeyWithdrawal DEF FetchRefusedAge

\* The sentinel moves the purge generation past every stamp in the pipeline;
\* what a failed request is respooling keeps the age refusal it had.
LEMMA EverythingWithdrawn ==
    ASSUME FactInv, WithdrawEverything, used' = Spent, purgeOwed' \in BOOLEAN,
           UNCHANGED <<consent, marks, queue, drained, w, receipts>>,
           sweep' = sweep \/ (sweep' = None /\ (sweep # None => sweep.ph # "note"))
    PROVE  FactInv'
<1> DEFINE as     == {a \in Apps : sp.fs[a] < factPurge + 1}
           racing == IF w.pc = "respool" THEN AppsOf(w.req) ELSE {}
<1>1. /\ served' = FALSE /\ confirmed' = FALSE /\ applied' = FALSE /\ exposed' = None /\ owed' = <<>>
      /\ purgeEpoch' = purgeEpoch + 1 /\ factPurge' = factPurge + 1
      /\ sp' = Removed(Removed(sp, "intent", Apps), "fact", as)
      /\ dead' = dead \union (Pending \ racing) /\ spared' = spared \union racing
      /\ kept' = {} /\ UNCHANGED <<declaring, key>>
  BY DEF WithdrawEverything
<1>2. factPurge \in Nat /\ purgeEpoch \in Nat
  BY FactParts, OwedParts
<1>3. used' \in Used /\ used'.armed = used.armed
  BY FactParts, SpentFacts
<1>4. dead' \in SUBSET used.armed
  BY <1>1, PendingArmed, OwedParts
<1>5. racing \in SUBSET Apps
  BY PendingArmed, OwedParts
<1>6. w.pc = "respool" => \A x \in w.req : x.app \in dead' => x.app \in dead
  BY <1>1 DEF AppsOf
<1>7. as = Apps
  <2>1. \A a \in Apps : sp.fs[a] <= factPurge /\ sp.fs[a] \in Nat
    BY FactParts, SpoolFields
  <2> QED
    BY <1>2, <2>1
<1> HIDE DEF as, racing
<1>8. sp' \in Spool /\ SpoolOK(sp') /\ sp'.fs = sp.fs /\ \A a \in Apps : sp'.mem[a] = {} /\ sp'.file[a] = {}
  <2>1. sp' = Removed(Removed(sp, "intent", Apps), "fact", as)
    BY <1>1
  <2>2. sp \in Spool /\ SpoolOK(sp)
    BY FactParts
  <2> QED
    BY <1>7, <2>1, <2>2, AllRemoved
<1>9. TypeInv'
  <2>1. owed' \in Seq(Record) /\ sweep' \in Emission \union {None} /\ factPurge' \in Nat /\ purgeEpoch' \in Nat
    BY <1>1, <1>2, OwedParts
  <2> QED
    BY <1>1, <1>3, <1>4, <1>5, <1>8, <2>1, FactParts DEF TypeInv, marks
<1>10. \A f \in Nat : f <= factPurge => f <= factPurge' /\ f < factPurge'
  BY <1>1, <1>2
<1>11. PipeInv'
  <2> SUFFICES ASSUME NEW x \in InPipeline' PROVE FactOK(x)'
    BY DEF PipeInv
  <2>1. x \in InPipeline /\ FactOK(x) /\ x.fs \in Nat
    BY FactParts, FactFields DEF InPipeline, PipeInv
  <2>2. x.fs <= factPurge' /\ x.fs < factPurge'
    BY <1>10, <2>1 DEF FactOK, Stamped
  <2> QED
    BY <1>1, <1>3, <2>1, <2>2 DEF FactOK, Stamped, PurgeWithdrawn, marks
<1>12. OwedInv'
  BY <1>1 DEF OwedInv, Owed
<1>13. SweepInv'
  <2>1. CASE sweep' = None
    BY <1>1, <2>1 DEF SweepInv
  <2>2. CASE sweep' = sweep /\ sweep # None
    <3>1. EmissionOK(sweep) /\ sweep.fs \in Nat
      BY <2>2, FactParts, SweepFields DEF SweepInv
    <3>2. sweep.fs <= factPurge' /\ sweep.fs < factPurge'
      BY <1>10, <3>1 DEF EmissionOK
    <3> QED
      BY <1>1, <1>3, <2>2, <3>1, <3>2 DEF SweepInv, EmissionOK, Stamped, PurgeWithdrawn
  <2> QED
    BY <2>1, <2>2
<1>14. SpoolInv'
  <2>1. \A a \in Apps : sp'.fs[a] <= factPurge'
    BY <1>8, <1>10, FactParts, SpoolFields
  <2> QED
    BY <1>8, <2>1 DEF SpoolInv, SpoolOK, Facts
<1>15. OrderInv'
  BY FactParts DEF OrderInv, marks
<1>16. WorkerInv'
  <2>1. w.seenPurge <= factPurge' /\ w.reqPurge <= factPurge' /\ factPurge' > 0
    BY <1>1, <1>2, <1>10, FactParts, WorkerFields DEF WorkerInv, WorkerOK
  <2>2. WorkerOK(w)
    BY FactParts DEF WorkerInv
  <2>3. w.pc = "respool" => \A x \in w.req : x.app \in dead' => w.respKey < key.epoch /\ KeyWithdrawn(x.ks)
    BY <1>6, <2>2 DEF WorkerOK
  <2> QED
    BY <1>1, <1>3, <2>1, <2>2, <2>3 DEF WorkerInv, WorkerOK, KeyWithdrawn
<1>17. StoredSurvives'
  BY <1>1, FactParts DEF StoredSurvives
<1> QED
  BY <1>9, <1>11, <1>12, <1>13, <1>14, <1>15, <1>16, <1>17 DEF FactInv

LEMMA SealSentinelKeeps == ASSUME FactInv, SealSentinel PROVE FactInv'
<1>1. purgeOwed \in BOOLEAN
  BY FactParts DEF TypeInv
<1>2. sweep # None /\ sweep.ph = "seal"
  BY SealingIs DEF SealSentinel
<1> QED
  BY <1>1, <1>2, EverythingWithdrawn DEF SealSentinel

LEMMA FetchSentinelKeeps == ASSUME FactInv, FetchSentinel PROVE FactInv'
BY EverythingWithdrawn DEF FetchSentinel

\* pruneExperimentFactKeys forgets a withdrawal only when nothing is in the
\* pipeline: whatever is there is noted at or above the watermark.
LEMMA PruneKeeps == ASSUME FactInv, Prune PROVE FactInv'
<1>1. /\ sweep = None /\ noted' = Forgotten /\ w.pc \notin {"chunk", "chunkflight"}
      /\ key' = IF Live THEN key ELSE [key EXCEPT !.mark = 0]
      /\ UNCHANGED <<consent, plane, owed, sweep, purgeEpoch, factPurge, low, factSeq, queue, drained, w, sp,
                     purgeOwed, receipts, used, dead, spared, kept>>
  BY DEF Prune, hist
<1>2. noted \in Nat /\ low \in Nat /\ key \in [epoch : Nat, mark : Nat]
  BY FactParts DEF TypeInv
<1>3. ASSUME NEW x \in InPipeline PROVE Forgotten = noted /\ x.seq <= noted /\ Forgotten # 0
  <2>1. FactOK(x) /\ x.seq \in Nat
    BY FactParts, FactFields DEF PipeInv
  <2>2. x.seq <= noted /\ x.seq >= low /\ x.seq > 0
    BY <1>1, <2>1 DEF FactOK
  <2> QED
    BY <1>2, <2>1, <2>2 DEF Forgotten
<1>4. Forgotten \in Nat
  BY <1>2 DEF Forgotten
<1>5. InPipeline # {} \/ owed # <<>> => Live
  BY <1>3 DEF Live
<1>6. /\ key' \in [epoch : Nat, mark : Nat] /\ key'.epoch = key.epoch
      /\ Live => key'.mark = key.mark
  BY <1>1, <1>2
<1>7. TypeInv'
  BY <1>1, <1>4, <1>6, FactParts DEF TypeInv, plane
<1>8. PipeInv'
  <2> SUFFICES ASSUME NEW x \in InPipeline' PROVE FactOK(x)'
    BY DEF PipeInv
  <2>1. x \in InPipeline
    BY <1>1 DEF InPipeline
  <2>2. FactOK(x) /\ x.seq <= noted' /\ key'.mark = key.mark
    BY <1>1, <1>3, <1>5, <1>6, <2>1, FactParts DEF PipeInv
  <2> QED
    BY <1>1, <1>6, <2>2 DEF FactOK, Stamped, KeyWithdrawn, PurgeWithdrawn
<1>9. OwedInv'
  <2> SUFFICES ASSUME NEW q \in Owed' PROVE RecordOK(q)'
    BY DEF OwedInv
  <2>1. RecordOK(q)
    BY <1>1, FactParts DEF OwedInv, Owed
  <2> QED
    BY <1>1, <1>6, <2>1 DEF RecordOK, Unwithdrawn
<1>10. SweepInv'
  BY <1>1, FactParts DEF SweepInv, Unwithdrawn, plane
<1>11. SpoolInv'
  BY <1>1, FactParts DEF SpoolInv, SpoolOK, Facts, Unwithdrawn
<1>12. OrderInv'
  BY <1>1, FactParts DEF OrderInv
<1>13. WorkerInv'
  <2>1. WorkerOK(w)
    BY FactParts DEF WorkerInv
  <2>2. CASE InPipeline = {}
    <3>1. w.batch = {} /\ w.held = {} /\ w.req = {}
      BY <2>2 DEF InPipeline
    <3> QED
      BY <1>1, <1>6, <2>1, <3>1 DEF WorkerInv, WorkerOK
  <2>3. CASE InPipeline # {}
    BY <1>1, <1>5, <1>6, <2>1, <2>3 DEF WorkerInv, WorkerOK, KeyWithdrawn
  <2> QED
    BY <2>2, <2>3
<1>14. StoredSurvives'
  BY <1>1, FactParts DEF StoredSurvives
<1> QED
  BY <1>7, <1>8, <1>9, <1>10, <1>11, <1>12, <1>13, <1>14 DEF FactInv

-----------------------------------------------------------------------------
(* Consent, restart.                                                       *)

\* onAnalyticsPurge arms again only an application that was not withdrawn.
LEMMA RearmedFacts ==
    ASSUME FactInv
    PROVE  /\ Rearmed \in Seq(Record) /\ \A j \in DOMAIN Rearmed : MayOwe(Rearmed[j], used.armed)
           /\ \A j \in DOMAIN Rearmed : \/ \E r \in Owed : ~r.extra /\ r.app = Rearmed[j].app
                                        \/ exposed # None /\ exposed = Rearmed[j].app
<1> DEFINE autos == {r.app : r \in {r \in Owed : ~r.extra /\ r.ses}}
           again == IF autos # {} THEN autos ELSE {exposed} \ {None}
           a     == CHOOSE a \in again : TRUE
           n     == NewRecord(a, FALSE, purgeEpoch + 1, receipts.issued[a] + 1)
<1>1. Rearmed = IF served /\ again # {} THEN <<n>> ELSE <<>>
  BY DEF Rearmed
<1>2. \A b \in autos : b \in Apps /\ Unwithdrawn(b) /\ \E r \in Owed : ~r.extra /\ r.app = b
  <2>1. \A r \in Owed : r \in Record /\ RecordOK(r)
    BY OwedParts DEF Owed
  <2> QED
    BY <2>1, RecordFields DEF RecordOK
<1>3. \A b \in again : /\ b \in Apps /\ Unwithdrawn(b)
                       /\ (\E r \in Owed : ~r.extra /\ r.app = b) \/ (exposed # None /\ exposed = b)
  BY <1>2, FactParts, OwedParts DEF SweepInv
<1>4. purgeEpoch + 1 \in Nat
  BY OwedParts
<1> HIDE DEF again
<1>5. again # {} => a \in again
  OBVIOUS
<1> HIDE DEF a
<1>6. again # {} => n \in Record /\ n.app = a /\ n.ev = None
  <2> DEFINE g == purgeEpoch + 1
             k == receipts.issued[a] + 1
  <2>1. again # {} => a \in Apps /\ k \in Nat
    BY <1>3, <1>5, FactParts DEF Ledger
  <2>2. n = NewRecord(a, FALSE, g, k) /\ g \in Nat
    BY <1>4
  <2> HIDE DEF g, k, n
  <2> QED
    BY <2>1, <2>2 DEF NewRecord, Record
<1> HIDE DEF n
<1>7. CASE served /\ again # {}
  <2>1. Rearmed = <<n>> /\ MayOwe(n, used.armed)
    BY <1>1, <1>3, <1>5, <1>6, <1>7 DEF MayOwe, Unwithdrawn
  <2>2. DOMAIN Rearmed = {1} /\ Rearmed[1] = n
    BY <2>1
  <2> QED
    BY <1>3, <1>5, <1>6, <1>7, <2>1, <2>2
<1>8. CASE ~(served /\ again # {})
  BY <1>1, <1>8
<1> QED
  BY <1>7, <1>8

\* A denial's drained mark is the last sequence number of the queue.
LEMMA DrainedFacts ==
    ASSUME TypeInv, OrderInv
    PROVE  LET all == {x.seq : x \in queue} \union {drained}
               d   == CHOOSE n \in all : \A m \in all : m <= n
           IN  d \in Nat /\ d <= factSeq
<1> DEFINE all == {x.seq : x \in queue} \union {drained}
<1>1. drained \in Nat /\ queue \in SUBSET Fact /\ factSeq \in Nat
  BY DEF TypeInv
<1>2. all \in SUBSET Nat /\ all # {} /\ \A m \in all : m <= factSeq
  BY <1>1, FactFields DEF OrderInv
<1> HIDE DEF all
<1>3. \E n \in all : \A m \in all : m <= n
  BY <1>1, <1>2, LargestNumber
<1>4. (CHOOSE n \in all : \A m \in all : m <= n) \in all
  BY <1>3
<1> QED
  BY <1>2, <1>4 DEF all

\* applyConsentDecision of a denial.
LEMMA DenyKeeps == ASSUME FactInv, Deny PROVE FactInv'
<1> DEFINE u == [sp EXCEPT !.mem = [a \in Apps |-> {}], !.res = {}]
<1>1. /\ used' = [used EXCEPT !.denials = @ + 1]
      /\ consent' = [granted |-> FALSE, epoch |-> consent.epoch + 1]
      /\ receipts' = Issued(AppsOf(ToSet(Rearmed))) /\ queue' = {} /\ owed' = Rearmed /\ exposed' = None
      /\ purgeEpoch' = purgeEpoch + 1 /\ sp' = Saved(u) /\ kept' = {}
      /\ UNCHANGED <<served, confirmed, declaring, applied, sweep, factPurge, key, marks, w, purgeOwed, dead, spared>>
  BY DEF Deny
<1>2. used' \in Used /\ used'.armed = used.armed
  <2> DEFINE n == used.denials + 1
  <2>1. used' = [used EXCEPT !.denials = n] /\ n \in Nat
    BY <1>1, FactParts, UsedFields
  <2> HIDE DEF n
  <2> QED
    BY <2>1, FactParts DEF Used
<1>3. consent' \in [granted : BOOLEAN, epoch : Nat] /\ purgeEpoch' \in Nat
  <2>1. consent.epoch \in Nat /\ purgeEpoch \in Nat
    BY FactParts DEF TypeInv
  <2> QED
    BY <1>1, <2>1
<1>4. receipts' \in Ledger
  BY <1>1, FactParts, IssuedFacts
<1>5. drained' \in Nat /\ drained' <= factSeq
  BY FactParts, DrainedFacts DEF Deny
<1>6. /\ sp' \in Spool /\ SpoolOK(sp') /\ sp'.fs = sp.fs /\ \A a \in Apps : sp'.mem[a] = {}
  <2> DEFINE m == [a \in Apps |-> {}]
  <2>1. m \in [Apps -> SUBSET Forms] /\ \A a \in Apps : m[a] = {}
    OBVIOUS
  <2>2. u = [sp EXCEPT !.mem = m, !.res = {}]
    OBVIOUS
  <2> HIDE DEF m
  <2>3. u \in Spool /\ u.mem = m /\ u.res = {} /\ u.fs = sp.fs
    BY <2>1, <2>2, FactParts DEF Spool
  <2> HIDE DEF u
  <2>4. sp' \in Spool /\ sp'.mem = m /\ sp'.file = m /\ sp'.res = {} /\ sp'.fs = sp.fs
    BY <1>1, <2>3, SavedFacts
  <2> QED
    BY <2>1, <2>4 DEF SpoolOK, Facts
<1>7. owed' \in Seq(Record) /\ \A j \in DOMAIN owed' : MayOwe(owed'[j], used'.armed)
  BY <1>1, <1>2, RearmedFacts
<1>8. OwedInv'
  <2> SUFFICES ASSUME NEW q \in Owed' PROVE RecordOK(q)'
    BY DEF OwedInv
  <2>1. MayOwe(q, used'.armed)
    BY <1>7 DEF Owed
  <2> QED
    BY <1>1, <2>1 DEF MayOwe, RecordOK, Unwithdrawn
<1>9. TypeInv'
  BY <1>1, <1>2, <1>3, <1>4, <1>5, <1>6, <1>7, FactParts DEF TypeInv, marks
<1>10. PipeInv'
  <2> SUFFICES ASSUME NEW x \in InPipeline' PROVE FactOK(x)'
    BY DEF PipeInv
  <2>1. x \in InPipeline
    BY <1>1 DEF InPipeline
  <2>2. FactOK(x)
    BY <2>1, FactParts DEF PipeInv
  <2> QED
    BY <1>1, <1>2, <2>2 DEF FactOK, Stamped, KeyWithdrawn, PurgeWithdrawn, marks
<1>11. SweepInv'
  BY <1>1, <1>2, FactParts DEF SweepInv, EmissionOK, Stamped, KeyWithdrawn, PurgeWithdrawn
<1>12. SpoolInv'
  BY <1>1, <1>6, FactParts DEF SpoolInv, SpoolOK, Facts
<1>13. OrderInv'
  BY <1>1, <1>5, FactParts DEF OrderInv, marks
<1>14. WorkerInv'
  BY <1>1, <1>2, FactParts DEF WorkerInv, WorkerOK, KeyWithdrawn
<1>15. StoredSurvives'
  BY <1>1 DEF StoredSurvives
<1> QED
  BY <1>8, <1>9, <1>10, <1>11, <1>12, <1>13, <1>14, <1>15 DEF FactInv

LEMMA GrantKeeps == ASSUME FactInv, Grant PROVE FactInv'
<1>1. /\ consent' = [consent EXCEPT !.granted = TRUE]
      /\ UNCHANGED <<plane, owed, sweep, epochs, marks, queue, drained, w, sp, purgeOwed, receipts, used, dead, spared, kept>>
  BY DEF Grant, hist
<1>2. consent' \in [granted : BOOLEAN, epoch : Nat]
  BY <1>1, FactParts DEF TypeInv
<1>3. TypeInv'
  BY <1>1, <1>2, FactParts DEF TypeInv, plane, epochs, marks
<1>4. PipeInv' /\ OwedInv'
  BY <1>1, FactParts DEF PipeInv, InPipeline, FactOK, Stamped, KeyWithdrawn, PurgeWithdrawn, OwedInv, Owed,
                         RecordOK, Unwithdrawn, epochs, marks
<1>5. SweepInv'
  BY <1>1, SweepSame DEF plane
<1>6. SpoolInv' /\ OrderInv' /\ StoredSurvives'
  BY <1>1, FactParts DEF SpoolInv, SpoolOK, Facts, Unwithdrawn, OrderInv, StoredSurvives, epochs, marks
<1>7. WorkerInv'
  BY <1>1, FactParts DEF WorkerInv, WorkerOK, KeyWithdrawn, epochs
<1> QED
  BY <1>3, <1>4, <1>5, <1>6, <1>7 DEF FactInv

LEMMA IdleFacts ==
    /\ Idle \in Worker /\ Idle.pc = "top" /\ Idle.batch = {} /\ Idle.held = {} /\ Idle.req = {}
    /\ Idle.reqPurge = 0 /\ Idle.respKey = 0 /\ Idle.seenKey = 0 /\ Idle.seenPurge = 0 /\ Idle.last = 0
    /\ Idle.chunk = {} /\ Idle.pulledAt = 0
BY DEF Idle, Worker, Steps

LEMMA NewLedger ==
    ASSUME NEW n \in Nat
    PROVE  ReceiptsFrom(n) \in Ledger /\ \A a \in Apps : ReceiptsFrom(n).issued[a] = n /\ ReceiptsFrom(n).stored[a] = n
BY DEF ReceiptsFrom, Ledger

\* A start loads what is on file: a fact for its intent.
LEMMA LoadedFacts ==
    ASSUME NEW f \in [Apps -> SUBSET Forms]
    PROVE  /\ Loaded(f) \in [Apps -> SUBSET Forms]
           /\ \A a \in Apps : Loaded(f)[a] = {} <=> f[a] = {}
<1>1. \A a \in Apps : f[a] \in SUBSET Forms
  OBVIOUS
<1>2. \A a \in Apps : (IF "fact" \in f[a] THEN {"fact"} ELSE f[a]) \in SUBSET Forms
  BY <1>1 DEF Forms
<1> QED
  BY <1>1, <1>2 DEF Loaded

\* restoreExperimentApplications owes again only what is on file.
LEMMA RestartKeeps == ASSUME FactInv, Restart PROVE FactInv'
<1> DEFINE mem  == Loaded(sp.file)
           owes == {a \in Apps : "intent" \in mem[a]}
           res  == {a \in Apps : "fact" \in mem[a]}
           fs   == [a \in Apps |-> 0]
           q    == SetToSeq(owes)
           rec(i) == [NewRecord(q[i], q[i] \in used.points, 0, 1)
                         EXCEPT !.ses = FALSE, !.admitted = TRUE, !.durable = TRUE]
<1>1. /\ used' = [used EXCEPT !.crashes = @ + 1]
      /\ consent' = [consent EXCEPT !.epoch = 0]
      /\ confirmed' = FALSE /\ declaring' = FALSE /\ applied' = FALSE /\ exposed' = None
      /\ sweep' = None /\ purgeEpoch' = 0 /\ factPurge' = 0 /\ key' = [epoch |-> 0, mark |-> 0]
      /\ noted' = 0 /\ low' = 0 /\ factSeq' = 0 /\ queue' = {} /\ drained' = 0
      /\ w' = Idle /\ purgeOwed' = FALSE /\ receipts' = ReceiptsFrom(1)
      /\ UNCHANGED <<served, dead, spared, kept>>
  BY DEF Restart, hist
<1>2. sp' = [mem |-> mem, file |-> sp.file, fs |-> fs, res |-> res, dirty |-> mem # sp.file]
  BY DEF Restart
<1>3. owed' = [i \in DOMAIN q |-> rec(i)]
  BY DEF Restart
<1>4. used' \in Used /\ used'.armed = used.armed
  <2> DEFINE n == used.crashes + 1
  <2>1. used' = [used EXCEPT !.crashes = n] /\ n \in Nat
    BY <1>1, FactParts, UsedFields
  <2> HIDE DEF n
  <2> QED
    BY <2>1, FactParts DEF Used
<1>5. consent' \in [granted : BOOLEAN, epoch : Nat]
  BY <1>1, FactParts DEF TypeInv
<1>6. /\ mem \in [Apps -> SUBSET Forms] /\ sp.file \in [Apps -> SUBSET Forms]
      /\ \A a \in Apps : mem[a] = {} <=> sp.file[a] = {}
  BY FactParts, SpoolFields, LoadedFacts
<1> HIDE DEF mem
<1>7. fs \in [Apps -> Nat] /\ (\A a \in Apps : fs[a] = 0) /\ res \in SUBSET Apps
  OBVIOUS
<1>8. /\ sp' \in Spool /\ sp'.mem = mem /\ sp'.file = sp.file /\ sp'.fs = fs /\ sp'.res = res
      /\ sp'.dirty = (mem # sp.file)
  <2> HIDE DEF fs, res
  <2>1. (mem # sp.file) \in BOOLEAN
    OBVIOUS
  <2> QED
    BY <1>2, <1>6, <1>7, <2>1 DEF Spool
<1>9. \A a \in Apps : mem[a] # {} => Unwithdrawn(a)
  BY <1>6, FactParts DEF SpoolInv, SpoolOK
<1>10. owes \in SUBSET Apps /\ \A a \in owes : Unwithdrawn(a)
  BY <1>9
<1>11. q \in [1 .. Cardinality(owes) -> owes] /\ Cardinality(owes) \in Nat
  BY <1>10, Bounds, FS_Subset, SetInOrder
<1> HIDE DEF owes, q
<1>12. ASSUME NEW i \in 1 .. Cardinality(owes)
       PROVE  rec(i) \in Record /\ MayOwe(rec(i), used.armed) /\ rec(i).ev = None
  <2> DEFINE a == q[i]
             b == a \in used.points
             n == NewRecord(a, b, 0, 1)
  <2>1. a \in Apps /\ Unwithdrawn(a) /\ b \in BOOLEAN
    BY <1>10, <1>11
  <2> HIDE DEF a, b
  <2>2. n \in Record /\ n.app = a /\ n.ev = None
    BY <2>1 DEF NewRecord, Record
  <2>3. rec(i) = [n EXCEPT !.ses = FALSE, !.admitted = TRUE, !.durable = TRUE]
    BY DEF a, b
  <2> HIDE DEF n, rec
  <2>4. rec(i) \in Record /\ rec(i).app = a /\ rec(i).ev = None
    BY <2>2, <2>3 DEF Record
  <2> QED
    BY <2>1, <2>4 DEF MayOwe, Unwithdrawn
<1>13. owed' \in Seq(Record) /\ \A j \in DOMAIN owed' : MayOwe(owed'[j], used.armed) /\ owed'[j].ev = None
  <2> HIDE DEF rec
  <2>2. owed' = [i \in 1 .. Cardinality(owes) |-> rec(i)]
    BY <1>3, <1>11
  <2>3. owed' \in [1 .. Cardinality(owes) -> Record]
    BY <1>12, <2>2
  <2>4. owed' \in Seq(Record)
    BY <1>11, <2>3
  <2>5. \A j \in DOMAIN owed' : j \in 1 .. Cardinality(owes) /\ owed'[j] = rec(j)
    BY <2>2
  <2> QED
    BY <1>12, <2>4, <2>5
<1> HIDE DEF rec
<1>14. key' \in [epoch : Nat, mark : Nat] /\ key'.epoch = 0 /\ key'.mark = 0
  BY <1>1
<1>15. OwedInv'
  <2> SUFFICES ASSUME NEW r \in Owed' PROVE RecordOK(r)'
    BY DEF OwedInv
  <2>1. MayOwe(r, used.armed) /\ r.ev = None
    BY <1>13 DEF Owed
  <2> QED
    BY <1>1, <1>4, <2>1 DEF MayOwe, RecordOK, Unwithdrawn
<1>16. TypeInv'
  BY <1>1, <1>4, <1>5, <1>8, <1>13, <1>14, IdleFacts, NewLedger, FactParts DEF TypeInv
<1>17. PipeInv'
  BY <1>1, IdleFacts DEF PipeInv, InPipeline
<1>18. SweepInv'
  BY <1>1 DEF SweepInv
<1>19. SpoolInv'
  <2>1. SpoolOK(sp')
    BY <1>6, <1>7, <1>8 DEF SpoolOK, Facts
  <2>2. \A a \in Apps : sp'.mem[a] # {} => Unwithdrawn(a)
    BY <1>8, <1>9
  <2>3. \A a \in Apps : sp'.fs[a] <= factPurge'
    BY <1>1, <1>7, <1>8
  <2> QED
    BY <1>1, <1>4, <2>1, <2>2, <2>3 DEF SpoolInv, SpoolOK, Facts, Unwithdrawn
<1>20. OrderInv'
  BY <1>1, IdleFacts DEF OrderInv
<1>21. WorkerInv'
  BY <1>1, <1>14, IdleFacts DEF WorkerInv, WorkerOK
<1>22. StoredSurvives'
  BY <1>1, <1>8, FactParts DEF StoredSurvives
<1> QED
  BY <1>15, <1>16, <1>17, <1>18, <1>19, <1>20, <1>21, <1>22 DEF FactInv

LEMMA InitFacts == ASSUME Init PROVE FactInv
<1> DEFINE m == [a \in Apps |-> {}]
           f == [a \in Apps |-> 0]
<1>1. /\ consent = [granted |-> TRUE, epoch |-> 0]
      /\ served = FALSE /\ confirmed = FALSE /\ declaring = FALSE /\ applied = FALSE /\ exposed = None
      /\ owed = <<>> /\ sweep = None
      /\ purgeEpoch = 0 /\ factPurge = 0 /\ key = [epoch |-> 0, mark |-> 0]
      /\ noted = 0 /\ low = 0 /\ factSeq = 0 /\ queue = {} /\ drained = 0
      /\ w = Idle /\ purgeOwed = FALSE /\ receipts = ReceiptsFrom(0)
      /\ dead = {} /\ spared = {} /\ kept = {}
  BY DEF Init
<1>2. sp = [mem |-> m, file |-> m, fs |-> f, res |-> {}, dirty |-> FALSE]
  BY DEF Init
<1>3. used = [denials |-> 0, withdrawals |-> 0, faults |-> 0, crashes |-> 0, armed |-> {}, points |-> {}]
  BY DEF Init
<1>4. used \in Used /\ used.armed = {}
  BY <1>3 DEF Used
<1>5. m \in [Apps -> SUBSET Forms] /\ f \in [Apps -> Nat] /\ \A a \in Apps : m[a] = {} /\ f[a] = 0
  OBVIOUS
<1> HIDE DEF m, f
<1>6. sp \in Spool /\ sp.mem = m /\ sp.file = m /\ sp.fs = f /\ sp.res = {} /\ sp.dirty = FALSE
  BY <1>2, <1>5 DEF Spool
<1>7. key \in [epoch : Nat, mark : Nat] /\ key.epoch = 0 /\ key.mark = 0
  BY <1>1
<1>8. TypeInv
  <2>1. consent \in [granted : BOOLEAN, epoch : Nat] /\ owed \in Seq(Record)
    BY <1>1
  <2> QED
    BY <1>1, <1>4, <1>6, <1>7, <2>1, IdleFacts, NewLedger DEF TypeInv
<1>9. PipeInv /\ OrderInv
  BY <1>1, IdleFacts DEF PipeInv, InPipeline, OrderInv
<1>10. OwedInv /\ SweepInv
  BY <1>1 DEF OwedInv, Owed, SweepInv
<1>11. SpoolInv
  BY <1>1, <1>5, <1>6 DEF SpoolInv, SpoolOK, Facts
<1>12. WorkerInv
  BY <1>1, <1>7, IdleFacts DEF WorkerInv, WorkerOK
<1>13. StoredSurvives
  BY <1>1 DEF StoredSurvives
<1> QED
  BY <1>8, <1>9, <1>10, <1>11, <1>12, <1>13 DEF FactInv

LEMMA StutterKeeps == ASSUME FactInv, UNCHANGED vars PROVE FactInv'
<1>1. UNCHANGED <<consent, plane, owed, sweep, epochs, marks, queue, drained, w, sp, purgeOwed, receipts, used,
                  dead, spared, kept>>
  BY DEF vars, hist
<1>2. served' \in BOOLEAN /\ confirmed' \in BOOLEAN /\ declaring' \in BOOLEAN /\ applied' \in BOOLEAN
      /\ purgeOwed' \in BOOLEAN
  BY <1>1, FactParts DEF TypeInv, plane
<1> QED
  BY <1>1, <1>2, PlaneStep DEF plane

-----------------------------------------------------------------------------
(* Receipts.                                                               *)

\* A copy of a point carries the last receipt issued to it.
OwnReceipt(x) == x.app \in used.points => x.rc = receipts.issued[x.app]
OwnEntry(a) == a \in used.points => receipts.stored[a] = receipts.issued[a]
OwnSpent(p) == p.app \in used.points /\ p = [app |-> p.app, rc |-> receipts.issued[p.app]]

\* Only an automatic exposure gets a receipt for an id that had one: a denial
\* arms it again.  Hence every copy of a point, wherever it is, has the one
\* receipt it was given when it was armed or loaded.
PointsInv ==
    /\ used.points \subseteq used.armed
    /\ exposed # None => exposed \notin used.points
    /\ \A r \in Owed : OwnReceipt(r) /\ (r.extra \/ r.app \notin used.points)
    /\ \A x \in InPipeline : OwnReceipt(x)
    /\ sweep # None => OwnReceipt(sweep)
    /\ \A a \in Facts(sp) \union w.chunk : OwnEntry(a)
    /\ \A p \in spent : OwnSpent(p)

\* What drops of copies with their own receipts add to the spent ones.
Owned(rs) == \A p \in rs : p.app \in used.points => OwnSpent(p)

LEMMA CountedOwn ==
    ASSUME NEW s, \A p \in s : OwnSpent(p), NEW rs, Owned(rs)
    PROVE  \A p \in Counted(s, rs) : OwnSpent(p)
BY DEF Counted, Owned, OwnSpent

LEMMA CopiesOwned == ASSUME NEW es, \A x \in es : OwnReceipt(x) PROVE Owned(Receipts(es))
BY DEF Owned, Receipts, OwnReceipt, OwnSpent

LEMMA EntriesOwned == ASSUME NEW as, \A a \in as : OwnEntry(a) PROVE Owned(StoredReceipts(as))
<1> SUFFICES ASSUME NEW p \in StoredReceipts(as), p.app \in used.points PROVE OwnSpent(p)
  BY DEF Owned
<1>1. PICK a \in as : p = [app |-> a, rc |-> receipts.stored[a]]
  BY DEF StoredReceipts
<1>2. p.app = a /\ receipts.stored[a] = receipts.issued[a]
  BY <1>1 DEF OwnEntry
<1> QED
  BY <1>1, <1>2 DEF OwnSpent

LEMMA PipeOwned ==
    ASSUME PointsInv, NEW es \in SUBSET InPipeline
    PROVE  \A p \in Counted(spent, Receipts(es)) : OwnSpent(p)
<1>1. Owned(Receipts(es))
  BY CopiesOwned DEF PointsInv
<1> QED
  BY <1>1, CountedOwn DEF PointsInv

\* A step that issues no receipt to a point.
LEMMA PointsStep ==
    ASSUME PointsInv, used'.points = used.points, used.armed \subseteq used'.armed,
           \A a \in used.points : receipts'.issued[a] = receipts.issued[a],
           exposed' # None => exposed' \notin used.points,
           \A r \in Owed' : OwnReceipt(r) /\ (r.extra \/ r.app \notin used.points),
           \A x \in InPipeline' : OwnReceipt(x),
           sweep' # None => OwnReceipt(sweep'),
           \A a \in Facts(sp)' \union w'.chunk : a \in used.points => receipts'.stored[a] = receipts.issued[a],
           \A p \in spent' : OwnSpent(p)
    PROVE  PointsInv'
<1>1. (used.points \subseteq used.armed)' /\ (exposed # None => exposed \notin used.points)'
  BY DEF PointsInv
<1>2. ASSUME NEW r \in Owed' PROVE (OwnReceipt(r) /\ (r.extra \/ r.app \notin used.points))'
  BY <1>2 DEF OwnReceipt
<1>3. ASSUME NEW x \in InPipeline' PROVE OwnReceipt(x)'
  BY <1>3 DEF OwnReceipt
<1>4. (sweep # None => OwnReceipt(sweep))'
  BY DEF OwnReceipt
<1>5. ASSUME NEW a \in (Facts(sp) \union w.chunk)' PROVE OwnEntry(a)'
  BY <1>5 DEF OwnEntry
<1>6. ASSUME NEW p \in spent' PROVE OwnSpent(p)'
  BY <1>6 DEF OwnSpent
<1> QED
  BY <1>1, <1>2, <1>3, <1>4, <1>5, <1>6 DEF PointsInv

\* A step of the worker makes no new copy.
LEMMA WorkerPoints ==
    ASSUME PointsInv, UNCHANGED <<owed, sweep, exposed, receipts>>, used'.points = used.points,
           used'.armed = used.armed, InPipeline' \subseteq InPipeline, Facts(sp)' \subseteq Facts(sp),
           w'.chunk \subseteq w.chunk \union Facts(sp), \A p \in spent' : OwnSpent(p)
    PROVE  PointsInv'
<1>1. \A r \in Owed' : OwnReceipt(r) /\ (r.extra \/ r.app \notin used.points)
  BY DEF PointsInv, Owed
<1>2. sweep' # None => OwnReceipt(sweep')
  BY DEF PointsInv
<1>3. \A a \in Facts(sp)' \union w'.chunk : a \in used.points => receipts'.stored[a] = receipts.issued[a]
  BY DEF PointsInv, OwnEntry
<1> QED
  BY <1>1, <1>2, <1>3, PointsStep DEF PointsInv

\* A step that touches no copy but those it removes from the spool.
LEMMA QuietPoints ==
    ASSUME PointsInv, UNCHANGED <<receipts, spent, queue, w>>, used'.points = used.points,
           used.armed \subseteq used'.armed, exposed' = exposed \/ exposed' = None,
           sweep' = sweep \/ sweep' = None,
           \A r \in Owed' : r \in Owed, Facts(sp)' \subseteq Facts(sp)
    PROVE  PointsInv'
<1>1. sweep' # None => OwnReceipt(sweep')
  BY DEF PointsInv
<1>2. \A a \in Facts(sp)' \union w'.chunk : a \in used.points => receipts'.stored[a] = receipts.issued[a]
  BY DEF PointsInv, OwnEntry
<1>3. \A x \in InPipeline' : OwnReceipt(x)
  BY DEF PointsInv, InPipeline
<1> QED
  BY <1>1, <1>2, <1>3, PointsStep DEF PointsInv

LEMMA FactsRemain ==
    ASSUME NEW s \in Spool, SpoolOK(s), NEW as \in SUBSET Apps
    PROVE  Facts(Removed(s, "fact", as)) \subseteq Facts(s) /\ Facts(Removed(s, "intent", as)) \subseteq Facts(s)
<1>1. RemovedIs(s, Removed(s, "fact", as), "fact", as) /\ RemovedIs(s, Removed(s, "intent", as), "intent", as)
  BY FactsRemoved
<1>2. \A a \in Apps : /\ Removed(s, "fact", as).mem[a] \subseteq s.mem[a]
                      /\ Removed(s, "intent", as).mem[a] \subseteq s.mem[a]
  BY <1>1 DEF RemovedIs
<1> QED
  BY <1>2 DEF Facts

LEMMA DropSpentOwn ==
    ASSUME FactInv, PointsInv
    PROVE  \A p \in DropSpent : OwnSpent(p)
<1>1. StillAuthorized(w.batch) \in SUBSET InPipeline
  BY FactParts, FilterSound DEF InPipeline
<1>2. \A p \in Counted(spent, Receipts(StillAuthorized(w.batch))) : OwnSpent(p)
  BY <1>1, PipeOwned
<1> QED
  BY <1>2 DEF DropSpent, PointsInv

LEMMA WorkerTopPoints == ASSUME FactInv, PointsInv, WorkerTop PROVE PointsInv'
<1>1. /\ w' = [DropBatch EXCEPT !.pc = "select"] /\ spent' = DropSpent
      /\ UNCHANGED <<owed, sweep, exposed, receipts, used, queue, sp>>
  BY DEF WorkerTop, plane
<1>2. w'.batch = DropBatch.batch /\ w'.held = w.held /\ w'.req = w.req /\ w'.chunk = w.chunk
  BY <1>1, FactParts, DropBatchFacts DEF Worker
<1>3. InPipeline' \subseteq InPipeline
  BY <1>1, <1>2, FactParts, DropBatchFacts DEF InPipeline
<1> QED
  BY <1>1, <1>2, <1>3, DropSpentOwn, WorkerPoints DEF Facts

LEMMA AdmitsPoints == ASSUME FactInv, PointsInv, NEW then, Admits(then) PROVE PointsInv'
<1> DEFINE x    == CHOOSE y \in queue : \A z \in queue : y.seq <= z.seq
           late == x.in < consent.epoch
           b    == IF late \/ PurgeWithdrawn(x.fs) \/ KeyWithdrawn(x.ks) THEN DropBatch.batch
                   ELSE DropBatch.batch \union {x}
<1>1. /\ queue # {} /\ queue' = queue \ {x}
      /\ w' = [DropBatch EXCEPT !.pc = then, !.last = x.seq, !.batch = b]
      /\ spent' = IF late THEN Counted(DropSpent, Receipts({x})) ELSE DropSpent
      /\ UNCHANGED <<owed, sweep, exposed, receipts, used, sp>>
  BY FactParts, DropBatchFacts DEF Admits, plane, Worker
<1>2. x \in queue
  <2>1. queue \in SUBSET Fact
    BY FactParts DEF TypeInv
  <2>2. \E y \in queue : \A z \in queue : y.seq <= z.seq
    BY <1>1, <2>1, OldestFact
  <2> QED
    BY <2>2
<1>3. OwnReceipt(x) /\ b \subseteq InPipeline
  BY <1>2, FactParts, DropBatchFacts DEF PointsInv, InPipeline
<1> HIDE DEF x, late, b
<1>4. w'.batch = b /\ w'.held = w.held /\ w'.req = w.req /\ w'.chunk = w.chunk
  BY <1>1, FactParts, DropBatchFacts DEF Worker
<1>5. InPipeline' \subseteq InPipeline
  BY <1>1, <1>3, <1>4 DEF InPipeline
<1>6. \A p \in Counted(DropSpent, Receipts({x})) : OwnSpent(p)
  <2>1. Owned(Receipts({x}))
    BY <1>3, CopiesOwned
  <2> QED
    BY <2>1, DropSpentOwn, CountedOwn
<1> QED
  BY <1>1, <1>4, <1>5, <1>6, DropSpentOwn, WorkerPoints DEF Facts

LEMMA PullChunkPoints == ASSUME FactInv, PointsInv, PullChunk PROVE PointsInv'
<1>1. /\ w' = [DropBatch EXCEPT !.pc = "chunk", !.chunk = sp.res, !.pulledAt = key.epoch]
      /\ spent' = DropSpent /\ sp' = [sp EXCEPT !.res = {}]
      /\ UNCHANGED <<owed, sweep, exposed, receipts, used, queue>>
  BY DEF PullChunk, plane
<1>2. w'.batch = DropBatch.batch /\ w'.held = w.held /\ w'.req = w.req /\ w'.chunk = sp.res
  BY <1>1, FactParts, DropBatchFacts DEF Worker
<1>3. InPipeline' \subseteq InPipeline
  BY <1>1, <1>2, FactParts, DropBatchFacts DEF InPipeline
<1>4. Facts(sp)' = Facts(sp) /\ sp.res \subseteq Facts(sp)
  BY <1>1, FactParts DEF Facts, SpoolOK, Spool
<1> QED
  BY <1>1, <1>2, <1>3, <1>4, DropSpentOwn, WorkerPoints

LEMMA RequeuedSame == ASSUME FactInv, NEW as PROVE Facts(Requeued(sp, as)) = Facts(sp)
BY FactParts, RequeuedFacts DEF Facts

LEMMA SendChunkPoints == ASSUME FactInv, PointsInv, SendChunk PROVE PointsInv'
<1>1. /\ UNCHANGED <<owed, sweep, exposed, receipts, spent, used, queue>>
      /\ sp' = sp \/ sp' = Requeued(sp, ChunkReady)
      /\ \/ w' = [w EXCEPT !.pc = "resent", !.chunk = {}]
         \/ w' = [w EXCEPT !.pc = "chunkflight", !.chunk = ChunkReady, !.sentC = consent.epoch]
  BY DEF SendChunk, plane
<1>2. ChunkReady \subseteq w.chunk
  BY DEF ChunkReady, ChunkPurged
<1>3. w'.batch = w.batch /\ w'.held = w.held /\ w'.req = w.req /\ w'.chunk \subseteq w.chunk
  BY <1>1, <1>2, FactParts DEF Worker
<1>4. InPipeline' \subseteq InPipeline
  BY <1>1, <1>3 DEF InPipeline
<1>5. Facts(sp)' = Facts(sp)
  BY <1>1, RequeuedSame DEF Facts
<1> QED
  BY <1>1, <1>3, <1>4, <1>5, WorkerPoints DEF PointsInv

LEMMA ChunkSettledPoints == ASSUME FactInv, PointsInv, ChunkSettled PROVE PointsInv'
<1>1. /\ sp' = Removed(sp, "fact", w.chunk) /\ w' = [w EXCEPT !.pc = "resent", !.chunk = {}]
      /\ UNCHANGED <<owed, sweep, exposed, receipts, spent, used, queue>>
  BY DEF ChunkSettled, plane
<1>2. w'.batch = w.batch /\ w'.held = w.held /\ w'.req = w.req /\ w'.chunk = {} /\ w.chunk \in SUBSET Apps
  BY <1>1, FactParts, WorkerFields DEF Worker
<1>3. InPipeline' \subseteq InPipeline
  BY <1>1, <1>2 DEF InPipeline
<1>4. Facts(sp)' \subseteq Facts(sp)
  BY <1>1, <1>2, FactParts, FactsRemain DEF Facts
<1> QED
  BY <1>1, <1>2, <1>3, <1>4, WorkerPoints DEF PointsInv

LEMMA ChunkFailedPoints == ASSUME FactInv, PointsInv, ChunkFailed PROVE PointsInv'
<1>1. /\ UNCHANGED <<owed, sweep, exposed, receipts, used, queue>>
      /\ sp' = sp \/ sp' = Requeued(sp, w.chunk)
      /\ spent' = spent \/ spent' = Counted(spent, StoredReceipts(w.chunk))
      /\ w' = [w EXCEPT !.pc = "resent", !.chunk = {}] \/ w' = [w EXCEPT !.pc = "top", !.chunk = {}]
  BY DEF ChunkFailed, plane
<1>2. w'.batch = w.batch /\ w'.held = w.held /\ w'.req = w.req /\ w'.chunk = {}
  BY <1>1, FactParts DEF Worker
<1>3. InPipeline' \subseteq InPipeline
  BY <1>1, <1>2 DEF InPipeline
<1>4. Facts(sp)' = Facts(sp)
  BY <1>1, RequeuedSame DEF Facts
<1>5. \A p \in Counted(spent, StoredReceipts(w.chunk)) : OwnSpent(p)
  <2>1. Owned(StoredReceipts(w.chunk))
    BY EntriesOwned DEF PointsInv
  <2> QED
    BY <2>1, CountedOwn DEF PointsInv
<1> QED
  BY <1>1, <1>2, <1>3, <1>4, <1>5, WorkerPoints DEF PointsInv

LEMMA BuildPoints == ASSUME FactInv, PointsInv, Build PROVE PointsInv'
<1> DEFINE es == IF consent.granted THEN StillAuthorized(w.batch) ELSE {}
           go == IF AgeHeld THEN {} ELSE es
<1>1. /\ w' = [Looked EXCEPT !.batch = go, !.held = w.held \union (es \ go), !.req = go,
                       !.reqPurge = factPurge, !.pc = IF go = {} THEN "settled" ELSE "built"]
      /\ spent' = IF consent.granted THEN spent ELSE Counted(spent, Receipts(w.batch))
      /\ UNCHANGED <<owed, sweep, exposed, receipts, used, queue, sp>>
  BY FactParts, LookedFacts DEF Build, plane, Worker
<1>2. es \subseteq w.batch /\ go \subseteq es
  BY FactParts, FilterSound
<1> HIDE DEF es, go
<1>3. w'.batch = go /\ w'.held = w.held \union (es \ go) /\ w'.req = go /\ w'.chunk = w.chunk
  BY <1>1, FactParts, LookedFacts DEF Worker
<1>4. InPipeline' \subseteq InPipeline
  BY <1>1, <1>2, <1>3 DEF InPipeline
<1>5. w.batch \in SUBSET InPipeline
  BY DEF InPipeline
<1> QED
  BY <1>1, <1>3, <1>4, <1>5, PipeOwned, WorkerPoints DEF PointsInv, Facts

LEMMA SendPoints == ASSUME FactInv, PointsInv, Send PROVE PointsInv'
<1> DEFINE es == Handed(w.req)
           w1 == [Looked EXCEPT !.batch = es, !.req = es]
<1>1. /\ w.pc = "built" /\ (spent' = spent \/ spent' = Counted(spent, Receipts(es)))
      /\ \/ w' = [w1 EXCEPT !.pc = "settled"] \/ w' = Respooling(w1) \/ w' = [w1 EXCEPT !.pc = "rejoin"]
         \/ w' = [w1 EXCEPT !.pc = "flight", !.sentC = consent.epoch]
      /\ UNCHANGED <<owed, sweep, exposed, receipts, used, queue, sp>>
  BY DEF Send, plane
<1>2. es \subseteq w.req /\ es \in SUBSET Fact
  BY <1>1, FactParts, HandedFacts, WorkerFields
<1> HIDE DEF es
<1>3. w1 \in Worker /\ w1.batch = es /\ w1.req = es /\ w1.held = w.held /\ w1.chunk = w.chunk
  BY <1>2, FactParts, LookedFacts DEF Worker
<1> HIDE DEF w1
<1>4. w'.batch = es /\ w'.held = w.held /\ w'.req \subseteq es /\ w'.chunk = w.chunk
  <2>1. CASE w' = Respooling(w1)
    BY <1>3, <2>1, FactParts, RespoolingFacts
  <2>2. CASE w' # Respooling(w1)
    BY <1>1, <1>3, <2>2 DEF Worker
  <2> QED
    BY <2>1, <2>2
<1>5. InPipeline' \subseteq InPipeline /\ es \in SUBSET InPipeline
  BY <1>1, <1>2, <1>4 DEF InPipeline
<1> QED
  BY <1>1, <1>4, <1>5, PipeOwned, WorkerPoints DEF PointsInv, Facts

LEMMA SettledPoints == ASSUME FactInv, PointsInv, Settled PROVE PointsInv'
<1>1. /\ sp' = Removed(sp, "fact", AppsOf(w.req)) /\ w' = [w EXCEPT !.pc = "settled", !.batch = {}, !.req = {}]
      /\ UNCHANGED <<owed, sweep, exposed, receipts, spent, used, queue>>
  BY DEF Settled, plane
<1>2. w'.batch = {} /\ w'.held = w.held /\ w'.req = {} /\ w'.chunk = w.chunk
  BY <1>1, FactParts DEF Worker
<1>3. AppsOf(w.req) \in SUBSET Apps
  BY FactParts, WorkerFields, FactFields DEF AppsOf
<1>4. InPipeline' \subseteq InPipeline
  BY <1>1, <1>2 DEF InPipeline
<1>5. Facts(sp)' \subseteq Facts(sp)
  BY <1>1, <1>3, FactParts, FactsRemain DEF Facts
<1> QED
  BY <1>1, <1>2, <1>4, <1>5, WorkerPoints DEF PointsInv

LEMMA FailedPoints == ASSUME FactInv, PointsInv, Failed PROVE PointsInv'
<1>1. /\ spent' = spent \/ spent' = Counted(spent, Receipts(w.req))
      /\ w' = [w EXCEPT !.pc = "rejoin"] \/ w' = Respooling(w)
      /\ UNCHANGED <<owed, sweep, exposed, receipts, used, queue, sp>>
  BY DEF Failed, plane
<1>2. w'.batch = w.batch /\ w'.held = w.held /\ w'.req \subseteq w.req /\ w'.chunk = w.chunk
  <2>1. CASE w' = Respooling(w)
    BY <2>1, FactParts, RespoolingFacts
  <2>2. CASE w' = [w EXCEPT !.pc = "rejoin"]
    BY <2>2, FactParts DEF Worker
  <2> QED
    BY <1>1, <2>1, <2>2
<1>3. InPipeline' \subseteq InPipeline /\ w.req \in SUBSET InPipeline
  BY <1>1, <1>2 DEF InPipeline
<1> QED
  BY <1>1, <1>2, <1>3, PipeOwned, WorkerPoints DEF PointsInv, Facts

LEMMA RejoinPoints == ASSUME FactInv, PointsInv, Rejoin PROVE PointsInv'
<1> DEFINE b == w.batch \union {x \in w.held : Rejoins(x)}
<1>1. /\ w' = [w EXCEPT !.pc = "top", !.batch = b, !.held = {}, !.req = {}]
      /\ UNCHANGED <<owed, sweep, exposed, receipts, spent, used, queue, sp>>
  BY FactParts DEF Rejoin, plane, Worker
<1>2. b \subseteq InPipeline
  BY DEF InPipeline
<1> HIDE DEF b
<1>3. w'.batch = b /\ w'.held = {} /\ w'.req = {} /\ w'.chunk = w.chunk
  BY <1>1, FactParts DEF Worker
<1>4. InPipeline' \subseteq InPipeline
  BY <1>1, <1>2, <1>3 DEF InPipeline
<1> QED
  BY <1>1, <1>3, <1>4, WorkerPoints DEF PointsInv, Facts

\* spoolFailedBatch, the handoff and the capture: the new entry has the
\* receipt of the copy it is made from.
LEMMA ShelvedOwn ==
    ASSUME FactInv, PointsInv, NEW es, \A x \in es : x.rc \in Nat /\ OwnReceipt(x),
           NEW as, as \subseteq Apps, as \subseteq Facts(sp) \union w.chunk \union AppsOf(es)
    PROVE  \A a \in as : a \in used.points => Shelved(es).stored[a] = receipts.issued[a]
<1> SUFFICES ASSUME NEW a \in as, a \in used.points PROVE Shelved(es).stored[a] = receipts.issued[a]
  OBVIOUS
<1>1. \/ Shelved(es).stored[a] = receipts.stored[a] /\ a \notin AppsOf(es) \ Facts(sp)
      \/ \E x \in es : x.app = a /\ Shelved(es).stored[a] = x.rc
  <2>1. TypeInv /\ a \in Apps /\ \A x \in es : x.rc \in Nat
    BY FactParts
  <2>2. \A b \in Apps : \/ Shelved(es).stored[b] = receipts.stored[b] /\ b \notin AppsOf(es) \ Facts(sp)
                        \/ \E x \in es : x.app = b /\ Shelved(es).stored[b] = x.rc
    BY <2>1, ShelvedFacts
  <2> QED
    BY <2>1, <2>2
<1>2. CASE Shelved(es).stored[a] = receipts.stored[a] /\ a \notin AppsOf(es) \ Facts(sp)
  BY <1>2 DEF PointsInv, OwnEntry
<1>3. CASE \E x \in es : x.app = a /\ Shelved(es).stored[a] = x.rc
  BY <1>3 DEF OwnReceipt
<1> QED
  BY <1>1, <1>2, <1>3

LEMMA ChunkFacts == ASSUME FactInv PROVE w.chunk \subseteq Apps /\ Facts(sp) \subseteq Apps
BY FactParts, WorkerFields DEF Facts

LEMMA RespoolPoints == ASSUME FactInv, PointsInv, NEW ok \in BOOLEAN, Respool(ok) PROVE PointsInv'
<1> DEFINE es == {x \in w.req : ~RespoolWithheld(x)}
           as == AppsOf(es)
<1>1. /\ sp' = IF consent.granted THEN Appended(sp, as, w.reqPurge, ok) ELSE sp
      /\ w' = [w EXCEPT !.pc = "rejoin"] /\ receipts' = IF consent.granted THEN Shelved(es) ELSE receipts
      /\ UNCHANGED <<owed, sweep, exposed, queue, spent>>
  BY DEF Respool, plane
<1>2. used'.points = used.points /\ used'.armed = used.armed
  BY FactParts, SpendFacts DEF Respool
<1>3. w'.batch = w.batch /\ w'.held = w.held /\ w'.req = w.req /\ w'.chunk = w.chunk /\ w.reqPurge \in Nat
  BY <1>1, FactParts, WorkerFields DEF Worker
<1>4. InPipeline' = InPipeline
  BY <1>1, <1>3 DEF InPipeline
<1>5. as \in SUBSET Apps /\ \A x \in es : x.rc \in Nat /\ OwnReceipt(x)
  BY FactParts, WorkerFields, FactFields DEF AppsOf, PointsInv, InPipeline
<1> HIDE DEF es
<1>6. CASE consent.granted
  <2> HIDE DEF as
  <2>1. AppendedIs(sp, sp', as, w.reqPurge)
    BY <1>1, <1>3, <1>5, <1>6, FactParts, FactsAppended
  <2>2. Facts(sp)' \subseteq Facts(sp) \union as
    BY <2>1 DEF AppendedIs, Facts
  <2>3. Facts(sp)' \union w'.chunk \subseteq Apps
    BY <1>3, ChunkFacts DEF Facts
  <2>4. \A a \in Facts(sp)' \union w'.chunk : a \in used.points => receipts'.stored[a] = receipts.issued[a]
    BY <1>1, <1>3, <1>5, <1>6, <2>2, <2>3, ShelvedOwn DEF as
  <2>5. receipts'.issued = receipts.issued
    BY <1>1, <1>5, <1>6, FactParts, ShelvedFacts
  <2>6. \A r \in Owed' : OwnReceipt(r) /\ (r.extra \/ r.app \notin used.points)
    BY <1>1 DEF PointsInv, Owed
  <2> QED
    BY <1>1, <1>2, <1>4, <2>4, <2>5, <2>6, PointsStep DEF PointsInv
<1>7. CASE ~consent.granted
  BY <1>1, <1>2, <1>3, <1>4, <1>7, WorkerPoints DEF PointsInv, Facts
<1> QED
  BY <1>6, <1>7

\* persistExperimentApplication stores intents, never facts.
LEMMA PersistedSame ==
    ASSUME NEW s \in Spool, NEW r \in Record, NEW ok \in BOOLEAN
    PROVE  Facts(Persisted(r, s, ok)) \subseteq Facts(s)
<1> DEFINE m  == [s.mem EXCEPT ![r.app] = @ \union {"intent"}]
           s1 == IF Withheld(r, s) THEN s ELSE [s EXCEPT !.mem = m]
<1>1. r.app \in Apps /\ s.mem \in [Apps -> SUBSET Forms]
  BY RecordFields, SpoolFields
<1>2. m \in [Apps -> SUBSET Forms] /\ \A a \in Apps : "fact" \in m[a] => "fact" \in s.mem[a]
  BY <1>1 DEF Forms
<1> HIDE DEF m
<1>3. s1 \in Spool /\ \A a \in Apps : "fact" \in s1.mem[a] => "fact" \in s.mem[a]
  BY <1>2 DEF Spool
<1>4. Persisted(r, s, ok) \in {s, Write(s1, ok)}
  BY <1>1 DEF Persisted, m
<1> HIDE DEF s1
<1>5. Write(s1, ok).mem = s1.mem
  BY <1>3, WriteFacts
<1> QED
  BY <1>3, <1>4, <1>5 DEF Facts

\* A step of the emission: each record was there, or has the receipt of one that was.
LEMMA EmitPoints ==
    ASSUME FactInv, PointsInv, UNCHANGED <<exposed, queue, w, spent>>,
           used'.points = used.points, used'.armed = used.armed,
           \A a \in used.points : receipts'.issued[a] = receipts.issued[a],
           NEW r \in Owed, NEW r1, r1.app = r.app, r1.rc = r.rc, r1.extra = r.extra,
           \A j \in DOMAIN owed' : owed'[j] = r1 \/ \E k \in DOMAIN owed : owed'[j] = owed[k],
           sweep' # None => OwnReceipt(sweep') \/ (sweep'.app = r.app /\ sweep'.rc = r.rc),
           \A a \in Facts(sp)' \union w.chunk : a \in used.points => receipts'.stored[a] = receipts.issued[a]
    PROVE  PointsInv'
<1>1. \A q \in Owed : OwnReceipt(q) /\ (q.extra \/ q.app \notin used.points)
  BY DEF PointsInv
<1>2. OwnReceipt(r1) /\ (r1.extra \/ r1.app \notin used.points)
  BY <1>1 DEF OwnReceipt
<1>3. \A q \in Owed' : q = r1 \/ q \in Owed
  BY DEF Owed
<1>4. \A q \in Owed' : OwnReceipt(q) /\ (q.extra \/ q.app \notin used.points)
  BY <1>1, <1>2, <1>3
<1>5. sweep' # None => OwnReceipt(sweep')
  BY <1>1 DEF OwnReceipt
<1>6. InPipeline' = InPipeline
  BY DEF InPipeline
<1> QED
  BY <1>4, <1>5, <1>6, PointsStep DEF PointsInv

LEMMA SweepHeadPoints == ASSUME FactInv, PointsInv, NEW ok \in BOOLEAN, SweepHead(ok) PROVE PointsInv'
<1> DEFINE r    == Head(owed)
           s    == Persisted(r, sp, ok)
           r1   == [r EXCEPT !.admitted = TRUE, !.durable = @ \/ Retained(r, s)]
           keep == Retained(r, s)
           e    == [app |-> r.app, gen |-> r.gen, ph |-> IF r.sealed THEN "build" ELSE "seal",
                    purge |-> purgeEpoch, ks |-> key.epoch, fs |-> factPurge, seq |-> 0, rc |-> r.rc]
           q    == Tail(owed)
<1>1. /\ owed # <<>> /\ sp' = s
      /\ owed' = q \/ owed' = <<r1>> \o q
      /\ sweep' = e \/ sweep' = None
      /\ UNCHANGED <<exposed, queue, w, receipts, spent>>
  BY DEF SweepHead, plane
<1>2. used'.points = used.points /\ used'.armed = used.armed
  BY FactParts, SpendFacts DEF SweepHead
<1>3. r \in Record /\ r \in Owed /\ q \in Seq(Record) /\ \A j \in DOMAIN q : \E k \in DOMAIN owed : q[j] = owed[k]
  <2>1. owed \in Seq(Record)
    BY OwedParts
  <2> QED
    BY <1>1, <2>1, TailOf DEF Owed
<1>4. e.app = r.app /\ e.rc = r.rc
  OBVIOUS
<1> HIDE DEF r, q, e
<1>5. Facts(sp)' \subseteq Facts(sp)
  BY <1>1, <1>3, FactParts, PersistedSame DEF Facts
<1> HIDE DEF s
<1>6. r1 \in Record /\ r1.app = r.app /\ r1.rc = r.rc /\ r1.extra = r.extra
  <2> DEFINE d == r.durable \/ Retained(r, s)
  <2>1. d \in BOOLEAN /\ r1 = [r EXCEPT !.admitted = TRUE, !.durable = d]
    BY <1>3, RecordFields DEF Record
  <2> HIDE DEF d, r1
  <2> QED
    BY <1>3, <2>1 DEF Record
<1> HIDE DEF r1
<1>7. \A j \in DOMAIN owed' : owed'[j] = r1 \/ \E k \in DOMAIN owed : owed'[j] = owed[k]
  BY <1>1, <1>3, <1>6, ConsOf
<1>8. \A a \in Facts(sp)' \union w.chunk : a \in used.points => receipts'.stored[a] = receipts.issued[a]
  BY <1>1, <1>5 DEF PointsInv, OwnEntry
<1> QED
  BY <1>1, <1>2, <1>3, <1>4, <1>6, <1>7, <1>8, EmitPoints

\* The record that an emission works on.
LEMMA MineOwed == ASSUME FactInv, Current PROVE Mine \in Owed /\ Mine \in Record /\ Mine.app = sweep.app
BY MineFacts DEF Current, Mine

LEMMA SealGrantedPoints == ASSUME FactInv, PointsInv, SealGranted PROVE PointsInv'
<1> DEFINE r == [Mine EXCEPT !.sealed = TRUE]
<1>1. /\ sweep # None /\ Current /\ owed' = Update(r)
      /\ sweep' = [sweep EXCEPT !.ph = "build", !.ks = key.epoch]
      /\ UNCHANGED <<exposed, queue, w, sp, receipts, spent, used>>
  BY SealingIs DEF SealGranted, Stands, plane
<1>2. Mine \in Owed /\ Mine \in Record
  BY <1>1, MineOwed
<1>3. r \in Record /\ r.app = Mine.app /\ r.rc = Mine.rc /\ r.extra = Mine.extra
  BY <1>2 DEF Record
<1> HIDE DEF r
<1>4. \A j \in DOMAIN owed' : owed'[j] = r \/ \E k \in DOMAIN owed : owed'[j] = owed[k]
  BY <1>1, <1>3, UpdateFacts
<1>5. sweep' \in Emission /\ sweep'.app = sweep.app /\ sweep'.rc = sweep.rc
  BY <1>1, FactParts, SweepFields DEF Emission
<1>6. OwnReceipt(sweep')
  BY <1>1, <1>5 DEF PointsInv, OwnReceipt
<1>7. \A a \in Facts(sp)' \union w.chunk : a \in used.points => receipts'.stored[a] = receipts.issued[a]
  BY <1>1 DEF PointsInv, OwnEntry, Facts
<1> QED
  BY <1>1, <1>2, <1>3, <1>4, <1>6, <1>7, EmitPoints

LEMMA HandoffPoints == ASSUME FactInv, PointsInv, NEW ok \in BOOLEAN, Handoff(ok) PROVE PointsInv'
<1> DEFINE r  == Mine
           ev == IF r.ev = None THEN [ks |-> sweep.ks, fs |-> sweep.fs] ELSE r.ev
           e  == [sweep EXCEPT !.ph = "enqueue", !.ks = ev.ks, !.fs = ev.fs]
           r1 == [r EXCEPT !.ev = ev]
           r2 == [r EXCEPT !.ev = ev, !.done = ok]
<1>1. sweep # None /\ UNCHANGED <<exposed, queue, w, spent>>
  BY DEF Handoff, plane
<1>2. used'.points = used.points /\ used'.armed = used.armed
  BY FactParts, SpendFacts DEF Handoff
<1>3. sweep \in Emission
  BY <1>1, FactParts, SweepFields
<1>4. CASE ~Current \/ ~consent.granted
  <2>1. sweep' = None /\ UNCHANGED <<owed, sp, receipts>>
    BY <1>4 DEF Handoff
  <2> QED
    BY <1>1, <1>2, <2>1, QuietPoints DEF Owed, Facts
<1>5. CASE Current /\ consent.granted
  <2>1. r \in Owed /\ r \in Record /\ r.app = sweep.app
    BY <1>5, MineOwed
  <2>2. \/ UNCHANGED <<owed, sp, receipts>> /\ sweep' = e
        \/ sweep' = None /\ UNCHANGED <<sp, receipts>> /\ owed' = Update(r1)
        \/ /\ sp.mem[r.app] # {} /\ \E landed \in BOOLEAN : sp' = Replaced(sp, r.app, ok, landed)
           /\ owed' = Update(r2) /\ receipts' = IF ok THEN Shelved({r}) ELSE receipts
           /\ sweep' = IF ok THEN e ELSE None
    BY <1>5 DEF Handoff
  <2>3. ev \in Stamp
    BY <1>3, <2>1, EmissionFields, RecordFields DEF Stamp
  <2> HIDE DEF ev, r
  <2>4. /\ r1 \in Record /\ r1.app = r.app /\ r1.rc = r.rc /\ r1.extra = r.extra
        /\ r2 \in Record /\ r2.app = r.app /\ r2.rc = r.rc /\ r2.extra = r.extra
    BY <2>1, <2>3 DEF Record
  <2>5. e.app = sweep.app /\ e.rc = sweep.rc
    BY <1>3, <2>3 DEF Emission, Stamp
  <2>6. OwnReceipt(e)
    BY <1>1, <2>5 DEF PointsInv, OwnReceipt
  <2> HIDE DEF e, r1, r2
  <2>7. sweep' # None => OwnReceipt(sweep')
    BY <2>2, <2>6
  <2>8. \A a \in Facts(sp) \union w.chunk : a \in used.points => receipts.stored[a] = receipts.issued[a]
    BY DEF PointsInv, OwnEntry
  <2>9. CASE UNCHANGED <<owed, sp, receipts>>
    <3>1. Facts(sp)' = Facts(sp) /\ \A j \in DOMAIN owed' : owed'[j] = r \/ \E k \in DOMAIN owed : owed'[j] = owed[k]
      BY <2>9 DEF Facts
    <3> QED
      BY <1>1, <1>2, <2>1, <2>7, <2>8, <2>9, <3>1, EmitPoints
  <2>10. CASE UNCHANGED <<sp, receipts>> /\ owed' = Update(r1)
    <3>1. Facts(sp)' = Facts(sp) /\ \A j \in DOMAIN owed' : owed'[j] = r1 \/ \E k \in DOMAIN owed : owed'[j] = owed[k]
      BY <2>4, <2>10, UpdateFacts DEF Facts
    <3> QED
      BY <1>1, <1>2, <2>1, <2>4, <2>7, <2>8, <2>10, <3>1, EmitPoints
  <2>11. CASE /\ sp.mem[r.app] # {} /\ \E landed \in BOOLEAN : sp' = Replaced(sp, r.app, ok, landed)
              /\ owed' = Update(r2) /\ receipts' = IF ok THEN Shelved({r}) ELSE receipts
    <3>1. \A j \in DOMAIN owed' : owed'[j] = r2 \/ \E k \in DOMAIN owed : owed'[j] = owed[k]
      BY <2>4, <2>11, UpdateFacts
    <3>2. r.app \in Apps /\ r.rc \in Nat
      BY <2>1, RecordFields
    <3>3. \A b \in Apps : b # r.app \/ ~ok => sp'.mem[b] = sp.mem[b]
      <4>1. PICK landed \in BOOLEAN : sp' = Replaced(sp, r.app, ok, landed)
        BY <2>11
      <4> QED
        BY <2>11, <3>2, <4>1, FactParts, ReplacedFacts
    <3>4. receipts'.issued = receipts.issued
      <4>1. \A x \in {r} : x.rc \in Nat
        BY <3>2
      <4> QED
        BY <2>11, <4>1, FactParts, ShelvedFacts
    <3>5. \A a \in Facts(sp)' \union w.chunk : a \in used.points => receipts'.stored[a] = receipts.issued[a]
      <4>1. CASE ok
        <5> DEFINE as == Facts(sp)' \union w.chunk
        <5>1. \A x \in {r} : x.rc \in Nat /\ OwnReceipt(x)
          BY <2>1, <3>2 DEF PointsInv
        <5>2. AppsOf({r}) = {r.app}
          BY DEF AppsOf
        <5>3. as \subseteq Apps /\ as \subseteq Facts(sp) \union w.chunk \union AppsOf({r})
          BY <3>3, <5>2, ChunkFacts DEF Facts
        <5> HIDE DEF as
        <5>4. \A a \in as : a \in used.points => Shelved({r}).stored[a] = receipts.issued[a]
          BY <5>1, <5>3, ShelvedOwn
        <5> QED
          BY <2>11, <4>1, <5>4 DEF as
      <4>2. CASE ~ok
        <5>1. Facts(sp)' = Facts(sp)
          BY <3>3, <4>2 DEF Facts
        <5> QED
          BY <2>8, <2>11, <4>2, <5>1
      <4> QED
        BY <4>1, <4>2
    <3> QED
      BY <1>1, <1>2, <2>1, <2>4, <2>7, <3>1, <3>4, <3>5, EmitPoints
  <2> QED
    BY <2>2, <2>9, <2>10, <2>11
<1> QED
  BY <1>4, <1>5

\* enqueueExperimentFact attaches the record's own receipt.
LEMMA EnqueuePoints == ASSUME FactInv, PointsInv, Enqueue PROVE PointsInv'
<1> DEFINE x == [app |-> sweep.app, ks |-> sweep.ks, fs |-> sweep.fs, in |-> consent.epoch, seq |-> factSeq + 1,
                 rc |-> sweep.rc]
<1>1. /\ sweep # None /\ (queue' = queue \/ queue' = queue \union {x})
      /\ sweep' = None \/ sweep' = [sweep EXCEPT !.ph = "note", !.seq = factSeq + 1]
      /\ UNCHANGED <<exposed, owed, w, sp, receipts, spent, used>>
  BY DEF Enqueue, AttachedWith, plane
<1>2. sweep \in Emission /\ OwnReceipt(sweep)
  BY <1>1, FactParts, SweepFields DEF PointsInv
<1>3. OwnReceipt(x)
  BY <1>2 DEF OwnReceipt
<1> HIDE DEF x
<1>4. sweep' # None => sweep'.app = sweep.app /\ sweep'.rc = sweep.rc
  BY <1>1, <1>2 DEF Emission
<1>5. sweep' # None => OwnReceipt(sweep')
  BY <1>2, <1>4 DEF OwnReceipt
<1>6. \A y \in InPipeline' : OwnReceipt(y)
  BY <1>1, <1>3 DEF PointsInv, InPipeline
<1>7. \A r \in Owed' : OwnReceipt(r) /\ (r.extra \/ r.app \notin used.points)
  BY <1>1 DEF PointsInv, Owed
<1>8. \A a \in Facts(sp)' \union w'.chunk : a \in used.points => receipts'.stored[a] = receipts.issued[a]
  BY <1>1 DEF PointsInv, OwnEntry, Facts
<1> QED
  BY <1>1, <1>5, <1>6, <1>7, <1>8, PointsStep DEF PointsInv

\* The session's exposure that Finish notes is automatic, not a point.
LEMMA FinishPoints == ASSUME FactInv, PointsInv, Finish PROVE PointsInv'
<1>1. /\ sweep' = None /\ UNCHANGED <<queue, w, sp, receipts, spent, used>>
      /\ exposed' = exposed \/ (exposed' = sweep.app /\ Current /\ ~Mine.extra)
      /\ owed' = owed \/ (owed # <<>> /\ owed' = Tail(owed))
  BY DEF Finish
<1>2. exposed' # None => exposed' \notin used.points
  BY <1>1, MineOwed DEF PointsInv
<1>3. \A j \in DOMAIN owed' : \E k \in DOMAIN owed : owed'[j] = owed[k]
  BY <1>1, OwedParts, TailOf
<1>4. \A r \in Owed' : r \in Owed
  BY <1>3 DEF Owed
<1>5. InPipeline' = InPipeline
  BY <1>1 DEF InPipeline
<1>6. \A a \in Facts(sp)' \union w'.chunk : a \in used.points => receipts'.stored[a] = receipts.issued[a]
  BY <1>1 DEF PointsInv, OwnEntry, Facts
<1> QED
  BY <1>1, <1>2, <1>4, <1>5, <1>6, PointsStep DEF PointsInv

\* What removes records and stored forms.
LEMMA RetirePoints ==
    ASSUME FactInv, PointsInv, UNCHANGED <<exposed, queue, w, receipts, spent, used>>, sweep' = sweep \/ sweep' = None,
           \A j \in DOMAIN owed' : \E k \in DOMAIN owed : owed'[j] = owed[k],
           NEW a \in Apps, sp' = Removed(sp, "intent", {a})
    PROVE  PointsInv'
<1>1. Facts(sp)' \subseteq Facts(sp)
  <2>1. {a} \in SUBSET Apps
    OBVIOUS
  <2> QED
    BY <2>1, FactParts, FactsRemain DEF Facts
<1>2. \A r \in Owed' : r \in Owed
  BY DEF Owed
<1> QED
  BY <1>1, <1>2, QuietPoints

LEMMA SweepExpiredPoints == ASSUME FactInv, PointsInv, SweepExpired PROVE PointsInv'
<1>1. /\ owed # <<>> /\ owed' = Tail(owed) /\ sp' = Removed(sp, "intent", {Head(owed).app})
      /\ UNCHANGED <<exposed, sweep, queue, w, receipts, spent, used>>
  BY DEF SweepExpired, plane
<1>2. Head(owed) \in Record /\ \A j \in DOMAIN owed' : \E k \in DOMAIN owed : owed'[j] = owed[k]
  BY <1>1, OwedParts, TailOf
<1>3. Head(owed).app \in Apps
  BY <1>2, RecordFields
<1> QED
  BY <1>1, <1>2, <1>3, RetirePoints

LEMMA SealRefusedPoints == ASSUME FactInv, PointsInv, SealRefused PROVE PointsInv'
<1> DEFINE i == CHOOSE i \in DOMAIN owed : Holds(owed[i])
<1>1. /\ sweep # None /\ Current /\ owed' = RemoveAt(owed, i) /\ sweep' = None
      /\ sp' = Removed(sp, "intent", {sweep.app})
      /\ UNCHANGED <<exposed, queue, w, receipts, spent, used>>
  BY SealingIs DEF SealRefused, Stands, WithoutMine, plane
<1>2. i \in DOMAIN owed
  BY <1>1 DEF Current, Owed
<1> HIDE DEF i
<1>3. \A j \in DOMAIN owed' : \E k \in DOMAIN owed : owed'[j] = owed[k]
  BY <1>1, <1>2, OwedParts, WithoutOne
<1>4. sweep.app \in Apps
  BY <1>1, FactParts, SweepFields
<1> QED
  BY <1>1, <1>3, <1>4, RetirePoints

\* A withdrawal empties the list and makes no copy.
LEMMA WithdrawalPoints ==
    ASSUME FactInv, PointsInv, owed' = <<>>, exposed' = None, used' = Spent, sweep' = sweep \/ sweep' = None,
           UNCHANGED <<queue, w, receipts, spent>>,
           NEW as \in SUBSET Apps, sp' = Removed(Removed(sp, "intent", Apps), "fact", as)
    PROVE  PointsInv'
<1>1. used'.points = used.points /\ used'.armed = used.armed
  BY FactParts, SpentFacts
<1> DEFINE v == Removed(sp, "intent", Apps)
<1>2. RemovedIs(sp, v, "intent", Apps) /\ Facts(v) \subseteq Facts(sp)
  BY FactParts, FactsRemoved, FactsRemain
<1> HIDE DEF v
<1>3. v \in Spool /\ SpoolOK(v)
  BY <1>2 DEF RemovedIs
<1>4. Facts(sp') \subseteq Facts(v)
  BY <1>3, FactsRemain DEF v
<1>5. Facts(sp)' \subseteq Facts(sp)
  BY <1>2, <1>4 DEF Facts
<1>6. \A r \in Owed' : r \in Owed
  BY DEF Owed
<1> QED
  BY <1>1, <1>5, <1>6, QuietPoints

LEMMA WithdrawnPoints ==
    ASSUME FactInv, PointsInv, WithdrawApplications \/ WithdrawEverything, used' = Spent,
           sweep' = sweep \/ sweep' = None, UNCHANGED <<queue, w, receipts, spent>>
    PROVE  PointsInv'
<1>1. CASE WithdrawApplications
  BY <1>1, WithdrawalPoints DEF WithdrawApplications
<1>2. CASE WithdrawEverything
  BY <1>2, WithdrawalPoints DEF WithdrawEverything
<1> QED
  BY <1>1, <1>2

LEMMA PurgeSweepPoints == ASSUME FactInv, PointsInv, PurgeSweep PROVE PointsInv'
<1> DEFINE v  == Removed(sp, "intent", Apps)
           as == {a \in Apps : sp.fs[a] < factPurge}
<1>1. /\ sp' = Removed(v, "fact", as)
      /\ UNCHANGED <<exposed, owed, sweep, queue, w, receipts, spent, used>>
  BY DEF PurgeSweep, plane
<1>2. RemovedIs(sp, v, "intent", Apps) /\ Facts(v) \subseteq Facts(sp)
  BY FactParts, FactsRemoved, FactsRemain
<1> HIDE DEF v
<1>3. v \in Spool /\ SpoolOK(v)
  BY <1>2 DEF RemovedIs
<1>4. as \in SUBSET Apps
  OBVIOUS
<1> HIDE DEF as
<1>5. Facts(sp') \subseteq Facts(v)
  BY <1>1, <1>3, <1>4, FactsRemain
<1>6. Facts(sp)' \subseteq Facts(sp) /\ \A r \in Owed' : r \in Owed
  BY <1>1, <1>2, <1>5 DEF Facts, Owed
<1> QED
  BY <1>1, <1>6, QuietPoints

\* Steps that touch no copy.
LEMMA IdlePoints ==
    ASSUME PointsInv, UNCHANGED <<exposed, owed, queue, w, receipts, spent, used>>,
           sweep' = sweep \/ sweep' = None, sp'.mem = sp.mem
    PROVE  PointsInv'
<1>1. Facts(sp)' \subseteq Facts(sp) /\ \A r \in Owed' : r \in Owed
  BY DEF Facts, Owed
<1> QED
  BY <1>1, QuietPoints

LEMMA QuietSteps ==
    ASSUME FactInv, PointsInv,
           SealKept \/ Declare \/ FetchAssigned \/ Prune \/ Grant \/ Upkeep \/ UNCHANGED vars
    PROVE  PointsInv'
<1>1. CASE SealKept \/ Declare \/ FetchAssigned \/ Prune \/ Grant \/ UNCHANGED vars
  <2>1. /\ UNCHANGED <<exposed, owed, queue, w, receipts, spent, used, sp>>
        /\ sweep' = sweep \/ sweep' = None
    BY <1>1 DEF SealKept, Declare, FetchAssigned, Prune, Grant, vars, plane
  <2> QED
    BY <2>1, IdlePoints
<1>2. CASE Upkeep
  <2>1. sp' = Saved(sp) /\ UNCHANGED <<exposed, owed, sweep, queue, w, receipts, spent, used>>
    BY <1>2 DEF Upkeep, plane
  <2>2. sp'.mem = sp.mem
    BY <2>1, FactParts, SavedFacts
  <2> QED
    BY <2>1, <2>2, IdlePoints
<1> QED
  BY <1>1, <1>2

\* applyEntryDropLocked captures owed applications with their receipts.
LEMMA FetchEndedPoints == ASSUME FactInv, PointsInv, FetchEnded PROVE PointsInv'
<1> DEFINE es == {r \in Owed : r.sealed}
           as == AppsOf(es)
<1>1. /\ sp' = Appended(sp, as, factPurge, TRUE) /\ receipts' = Shelved(es)
      /\ UNCHANGED <<exposed, owed, sweep, queue, w, spent, used>>
  BY DEF FetchEnded, AppsOf
<1>2. as \in SUBSET Apps /\ \A x \in es : x.rc \in Nat /\ OwnReceipt(x)
  <2>1. \A r \in Owed : r \in Record
    BY OwedParts DEF Owed
  <2> QED
    BY <2>1, RecordFields DEF AppsOf, PointsInv
<1> HIDE DEF es
<1>3. AppendedIs(sp, sp', as, factPurge)
  <2> HIDE DEF as
  <2>1. TRUE \in BOOLEAN /\ factPurge \in Nat
    BY FactParts
  <2> QED
    BY <1>1, <1>2, <2>1, FactParts, FactsAppended
<1>4. Facts(sp)' \subseteq Facts(sp) \union AppsOf(es)
  BY <1>3 DEF AppendedIs, Facts
<1>5. Facts(sp)' \union w'.chunk \subseteq Apps
  BY <1>1, ChunkFacts DEF Facts
<1>6. \A a \in Facts(sp)' \union w'.chunk : a \in used.points => receipts'.stored[a] = receipts.issued[a]
  BY <1>1, <1>2, <1>4, <1>5, ShelvedOwn
<1>7. receipts'.issued = receipts.issued
  BY <1>1, <1>2, FactParts, ShelvedFacts
<1>8. InPipeline' = InPipeline /\ Owed' = Owed
  BY <1>1 DEF InPipeline, Owed
<1> QED
  BY <1>1, <1>6, <1>7, <1>8, PointsStep DEF PointsInv

\* Every copy is of an application that was armed.
LEMMA CopiesArmed ==
    ASSUME FactInv
    PROVE  /\ \A r \in Owed : r.app \in used.armed
           /\ \A x \in InPipeline : x.app \in used.armed
           /\ sweep # None => sweep.app \in used.armed
           /\ exposed # None => exposed \in used.armed
           /\ \A a \in Facts(sp) \union w.chunk : a \in used.armed /\ a \in Apps
<1>1. \A a \in Facts(sp) : a \in used.armed
  BY FactParts DEF SpoolInv, Facts, Unwithdrawn
<1> QED
  BY <1>1, FactParts, ChunkFacts DEF OwedInv, RecordOK, Unwithdrawn, PipeInv, FactOK, SweepInv, EmissionOK,
     WorkerInv, WorkerOK

\* A new application has no copies yet, and its record the receipt just issued.
LEMMA ArmsPoints ==
    ASSUME FactInv, PointsInv, NEW a \in Apps, NEW extra \in BOOLEAN, NEW ok \in BOOLEAN, Arms(a, extra, ok)
    PROVE  PointsInv'
<1> DEFINE k    == receipts.issued[a] + 1
           r    == NewRecord(a, extra, purgeEpoch, k)
           over == Len(owed) >= MaxOwed
           gone == IF over THEN {Head(owed).app} ELSE {}
           s0   == Removed(sp, "intent", gone)
           s    == Persisted(r, s0, ok)
           r1   == [r EXCEPT !.admitted = TRUE, !.durable = Retained(r, s)]
           base == IF over THEN Tail(owed) ELSE owed
           po   == IF extra THEN used.points \union {a} ELSE used.points
<1>1. /\ a \notin used.armed
      /\ used' = [used EXCEPT !.armed = @ \union {a}, !.faults = @ + IF ok THEN 0 ELSE 1, !.points = po]
      /\ owed' = Append(base, r1) /\ sp' = s /\ receipts' = Issued({a})
      /\ UNCHANGED <<exposed, sweep, queue, w, spent>>
  BY FactParts DEF Arms, Fresh, Admit, Used
<1>2. /\ receipts'.stored = receipts.stored
      /\ \A b \in Apps : receipts'.issued[b] = IF b \in {a} THEN k ELSE receipts.issued[b]
  BY <1>1, FactParts, IssuedFacts
<1>3. purgeEpoch \in Nat /\ k \in Nat
  BY OwedParts, FactParts DEF Ledger
<1> HIDE DEF k
<1>4. r \in Record /\ r.app = a /\ r.rc = k /\ r.done = FALSE /\ (r.extra <=> extra)
  BY <1>3 DEF NewRecord, Record
<1> HIDE DEF r
<1>5. used'.armed = used.armed \union {a} /\ used'.points = po
  <2> DEFINE ar == used.armed \union {a}
             fa == used.faults + IF ok THEN 0 ELSE 1
  <2>1. ar \in SUBSET Apps /\ fa \in Nat /\ po \in SUBSET Apps
    BY FactParts, UsedFields
  <2>2. used' = [used EXCEPT !.armed = ar, !.faults = fa, !.points = po]
    BY <1>1
  <2> HIDE DEF ar, fa, po
  <2>3. used'.armed = ar /\ used'.points = po
    BY <2>1, <2>2, FactParts DEF Used
  <2> QED
    BY <2>3 DEF ar
<1>6. over => owed # <<>>
  <2>1. MaxOwed \in Nat \ {0}
    BY ExperimentFactsAssumption
  <2> QED
    BY <2>1, OwedParts
<1>7. gone \in SUBSET Apps
  BY <1>6, OwedParts, TailOf, RecordFields
<1>8. base \in Seq(Record) /\ \A j \in DOMAIN base : \E i \in DOMAIN owed : base[j] = owed[i]
  BY <1>6, OwedParts, TailOf
<1> HIDE DEF gone, base
<1>9. RemovedIs(sp, s0, "intent", gone) /\ Facts(s0) \subseteq Facts(sp)
  BY <1>7, FactParts, FactsRemoved, FactsRemain
<1> HIDE DEF s0
<1>10. Facts(s) \subseteq Facts(sp)
  BY <1>4, <1>9, PersistedSame DEF RemovedIs
<1> HIDE DEF s
<1>11. r1 \in Record /\ r1.app = a /\ r1.rc = k /\ (r1.extra <=> extra)
  <2> DEFINE d == Retained(r, s)
  <2>1. d \in BOOLEAN /\ r1 = [r EXCEPT !.admitted = TRUE, !.durable = d]
    BY <1>4 DEF Retained
  <2> HIDE DEF d, r1
  <2> QED
    BY <1>4, <2>1 DEF Record
<1> HIDE DEF r1
<1>12. \A q \in Owed' : q = r1 \/ q \in Owed
  <2>1. \A j \in DOMAIN owed' : owed'[j] = r1 \/ \E i \in DOMAIN owed : owed'[j] = owed[i]
    BY <1>1, <1>8, <1>11, AppendOf
  <2> QED
    BY <2>1 DEF Owed
<1>13. a \notin used.points /\ used.points \subseteq po /\ po \subseteq used.points \union {a} /\ (a \in po => extra)
  BY <1>1 DEF PointsInv
<1> HIDE DEF po
<1>14. \A b \in used.armed : b # a /\ (b \in po <=> b \in used.points) /\ receipts'.issued[b] = receipts.issued[b]
  BY <1>1, <1>2, <1>13, FactParts, UsedFields
<1>15. used'.points \subseteq used'.armed
  BY <1>5, <1>13 DEF PointsInv
<1>16. exposed' # None => exposed' \notin used'.points
  BY <1>1, <1>5, <1>14, CopiesArmed DEF PointsInv
<1>17. ASSUME NEW x, x.app \in used.armed, OwnReceipt(x) PROVE OwnReceipt(x)'
  BY <1>5, <1>14, <1>17 DEF OwnReceipt
<1>18. ASSUME NEW q \in Owed' PROVE OwnReceipt(q)' /\ (q.extra \/ q.app \notin used'.points)
  <2>1. CASE q \in Owed
    BY <1>5, <1>14, <1>17, <2>1, CopiesArmed DEF PointsInv
  <2>2. CASE q = r1
    BY <1>2, <1>5, <1>11, <1>13, <2>2 DEF OwnReceipt
  <2> QED
    BY <1>12, <2>1, <2>2
<1>19. ASSUME NEW x \in InPipeline' PROVE OwnReceipt(x)'
  <2>1. x \in InPipeline
    BY <1>1 DEF InPipeline
  <2> QED
    BY <1>17, <2>1, CopiesArmed DEF PointsInv
<1>20. sweep' # None => OwnReceipt(sweep)'
  BY <1>1, <1>5, <1>14, CopiesArmed DEF PointsInv, OwnReceipt
<1>21. ASSUME NEW b \in (Facts(sp) \union w.chunk)' PROVE OwnEntry(b)'
  <2>1. b \in Facts(sp) \union w.chunk
    BY <1>1, <1>10 DEF Facts
  <2> QED
    BY <1>2, <1>5, <1>14, <2>1, CopiesArmed DEF PointsInv, OwnEntry
<1>22. ASSUME NEW p \in spent' PROVE OwnSpent(p)'
  <2>1. OwnSpent(p) /\ p.app \in used.armed
    BY <1>1 DEF PointsInv, OwnSpent
  <2> QED
    BY <1>5, <1>14, <2>1 DEF OwnSpent
<1> QED
  BY <1>15, <1>16, <1>18, <1>19, <1>20, <1>21, <1>22 DEF PointsInv

\* A denial drops points wherever they are; what it arms again is no point.
LEMMA DenyPoints == ASSUME FactInv, PointsInv, Deny PROVE PointsInv'
<1> DEFINE u  == [sp EXCEPT !.mem = [a \in Apps |-> {}], !.res = {}]
           as == AppsOf(ToSet(Rearmed))
           rs == Receipts(queue) \union Receipts(Owed) \union StoredReceipts(Facts(sp))
<1>1. /\ used' = [used EXCEPT !.denials = @ + 1]
      /\ spent' = Counted(spent, rs) /\ receipts' = Issued(as)
      /\ queue' = {} /\ owed' = Rearmed /\ exposed' = None /\ sp' = Saved(u)
      /\ UNCHANGED <<sweep, w>>
  BY DEF Deny
<1>2. used'.points = used.points /\ used'.armed = used.armed
  <2> DEFINE n == used.denials + 1
  <2>1. used' = [used EXCEPT !.denials = n] /\ n \in Nat
    BY <1>1, FactParts, UsedFields
  <2> HIDE DEF n
  <2> QED
    BY <2>1, FactParts DEF Used
<1>3. \A j \in DOMAIN Rearmed : Rearmed[j].app \notin used.points
  BY RearmedFacts DEF PointsInv
<1>4. \A b \in as : b \notin used.points
  BY <1>3 DEF AppsOf, ToSet
<1> HIDE DEF as
<1>5. receipts'.stored = receipts.stored /\ \A b \in used.points : receipts'.issued[b] = receipts.issued[b]
  BY <1>1, <1>4, FactParts, UsedFields, IssuedFacts
<1>6. \A r \in Owed' : r.app \notin used.points
  BY <1>1, <1>3 DEF Owed
<1>7. \A r \in Owed' : OwnReceipt(r) /\ (r.extra \/ r.app \notin used.points)
  BY <1>6 DEF OwnReceipt
<1>8. InPipeline' \subseteq InPipeline
  BY <1>1 DEF InPipeline
<1>9. Facts(sp)' = {}
  <2> DEFINE m == [a \in Apps |-> {}]
  <2>1. m \in [Apps -> SUBSET Forms] /\ \A a \in Apps : m[a] = {}
    OBVIOUS
  <2>2. u = [sp EXCEPT !.mem = m, !.res = {}]
    OBVIOUS
  <2> HIDE DEF m
  <2>3. u \in Spool /\ u.mem = m
    BY <2>1, <2>2, FactParts DEF Spool
  <2> HIDE DEF u
  <2>4. sp'.mem = m
    BY <1>1, <2>3, SavedFacts
  <2> QED
    BY <2>1, <2>4 DEF Facts
<1>10. \A a \in Facts(sp)' \union w'.chunk : a \in used.points => receipts'.stored[a] = receipts.issued[a]
  BY <1>1, <1>5, <1>9 DEF PointsInv, OwnEntry
<1>11. \A p \in spent' : OwnSpent(p)
  <2>1. Owned(Receipts(queue)) /\ Owned(Receipts(Owed)) /\ Owned(StoredReceipts(Facts(sp)))
    BY CopiesOwned, EntriesOwned DEF PointsInv, InPipeline
  <2>2. Owned(rs)
    BY <2>1 DEF Owned
  <2> HIDE DEF rs
  <2> QED
    BY <1>1, <2>2, CountedOwn DEF PointsInv
<1> QED
  BY <1>1, <1>2, <1>5, <1>7, <1>8, <1>10, <1>11, PointsStep DEF PointsInv

\* A start gives everything it loads one receipt, whatever form it loads it in.
LEMMA RestartPoints == ASSUME FactInv, PointsInv, Restart PROVE PointsInv'
<1> DEFINE owes == {a \in Apps : "intent" \in Loaded(sp.file)[a]}
           q    == SetToSeq(owes)
           rec(i) == [NewRecord(q[i], q[i] \in used.points, 0, 1)
                         EXCEPT !.ses = FALSE, !.admitted = TRUE, !.durable = TRUE]
<1>1. /\ used' = [used EXCEPT !.crashes = @ + 1] /\ exposed' = None /\ sweep' = None /\ queue' = {}
      /\ w' = Idle /\ receipts' = ReceiptsFrom(1) /\ spent' = {}
      /\ owed' = [i \in DOMAIN q |-> rec(i)]
  BY DEF Restart
<1>2. used'.points = used.points /\ used'.armed = used.armed
  <2> DEFINE n == used.crashes + 1
  <2>1. used' = [used EXCEPT !.crashes = n] /\ n \in Nat
    <3>1. used' = [used EXCEPT !.crashes = @ + 1]
      BY <1>1
    <3>2. used \in Used
      BY FactParts
    <3>3. used.crashes \in Nat
      BY <3>2 DEF Used
    <3> QED
      BY <3>1, <3>3
  <2> HIDE DEF n
  <2> QED
    BY <2>1, FactParts DEF Used
<1>3. \A a \in Apps : receipts'.issued[a] = 1 /\ receipts'.stored[a] = 1
  BY <1>1, NewLedger
<1>4. ASSUME NEW i \in DOMAIN q
      PROVE  rec(i).app = q[i] /\ rec(i).rc = 1 /\ (rec(i).extra <=> q[i] \in used.points)
  BY DEF NewRecord
<1> HIDE DEF rec
<1>5. used.points \subseteq Apps /\ used.points \subseteq used.armed
  BY FactParts, UsedFields DEF PointsInv
<1>6. ASSUME NEW r \in Owed' PROVE OwnReceipt(r)' /\ (r.extra \/ r.app \notin used'.points)
  <2>1. PICK i \in DOMAIN q : r = rec(i)
    BY <1>1 DEF Owed
  <2> QED
    BY <1>2, <1>3, <1>4, <1>5, <2>1 DEF OwnReceipt
<1>7. InPipeline' = {} /\ w'.chunk = {}
  BY <1>1, IdleFacts DEF InPipeline
<1>8. ASSUME NEW a \in (Facts(sp) \union w.chunk)' PROVE OwnEntry(a)'
  BY <1>3, <1>7 DEF OwnEntry, Facts
<1> QED
  BY <1>1, <1>2, <1>5, <1>6, <1>7, <1>8 DEF PointsInv

LEMMA InitPoints == ASSUME Init PROVE PointsInv
<1>1. /\ exposed = None /\ owed = <<>> /\ sweep = None /\ queue = {} /\ w = Idle /\ spent = {}
      /\ used.points = {} /\ used.armed = {} /\ sp.mem = [a \in Apps |-> {}]
  BY DEF Init
<1>2. Owed = {} /\ InPipeline = {} /\ Facts(sp) = {} /\ w.chunk = {}
  BY <1>1, IdleFacts DEF Owed, InPipeline, Facts
<1> QED
  BY <1>1, <1>2 DEF PointsInv

LEMMA PointsInvStep == ASSUME FactInv, PointsInv, [Next]_vars PROVE PointsInv'
<1>1. ASSUME NEW a \in Apps, NEW ok \in BOOLEAN, ApplyVariant(a, ok) \/ TrackPoint(a, ok) PROVE PointsInv'
  BY <1>1, ArmsPoints DEF ApplyVariant, TrackPoint
<1>2. ASSUME NEW ok \in BOOLEAN, SweepHead(ok) \/ Handoff(ok) \/ Respool(ok) PROVE PointsInv'
  BY <1>2, SweepHeadPoints, HandoffPoints, RespoolPoints
<1>3. CASE SweepExpired \/ SealGranted \/ SealRefused \/ Enqueue \/ Finish
  BY <1>3, SweepExpiredPoints, SealGrantedPoints, SealRefusedPoints, EnqueuePoints, FinishPoints
<1>4. CASE WorkerTop \/ Receive \/ FlushDrain \/ PullChunk \/ SendChunk \/ ChunkSettled \/ ChunkFailed
  BY <1>4, WorkerTopPoints, AdmitsPoints, PullChunkPoints, SendChunkPoints, ChunkSettledPoints, ChunkFailedPoints
     DEF Receive, FlushDrain
<1>5. CASE Build \/ Send \/ Settled \/ Failed \/ Rejoin
  BY <1>5, BuildPoints, SendPoints, SettledPoints, FailedPoints, RejoinPoints
<1>6. CASE SealRefusedAge \/ SealSentinel \/ FetchSentinel \/ FetchRefusedAge
  BY <1>6, WithdrawnPoints DEF SealRefusedAge, SealSentinel, FetchSentinel, FetchRefusedAge
<1>7. CASE PurgeSweep \/ FetchEnded
  BY <1>7, PurgeSweepPoints, FetchEndedPoints
<1>8. CASE SealKept \/ Declare \/ FetchAssigned \/ Prune \/ Grant \/ Upkeep \/ UNCHANGED vars
  BY <1>8, QuietSteps
<1>9. CASE Deny \/ Restart
  BY <1>9, DenyPoints, RestartPoints
<1> QED
  BY <1>1, <1>2, <1>3, <1>4, <1>5, <1>6, <1>7, <1>8, <1>9 DEF Next

-----------------------------------------------------------------------------
(* The theorems.                                                           *)

\* Every step of the program keeps the invariant.
LEMMA FactInvStep == ASSUME FactInv, [Next]_vars PROVE FactInv'
<1>1. ASSUME NEW a \in Apps, NEW ok \in BOOLEAN, ApplyVariant(a, ok) \/ TrackPoint(a, ok) PROVE FactInv'
  BY <1>1, ApplyVariantKeeps, TrackPointKeeps
<1>2. ASSUME NEW ok \in BOOLEAN, SweepHead(ok) \/ Handoff(ok) \/ Respool(ok) PROVE FactInv'
  BY <1>2, SweepHeadKeeps, HandoffKeeps, RespoolKeeps
<1>3. CASE SweepExpired \/ SealKept \/ SealGranted \/ SealRefused \/ Enqueue \/ Finish
  BY <1>3, SweepExpiredKeeps, SealKeptKeeps, SealGrantedKeeps, SealRefusedKeeps, EnqueueKeeps, FinishKeeps
<1>4. CASE WorkerTop \/ Receive \/ FlushDrain \/ PullChunk \/ SendChunk \/ ChunkSettled \/ ChunkFailed
  BY <1>4, WorkerTopKeeps, ReceiveKeeps, FlushDrainKeeps, PullChunkKeeps, SendChunkKeeps, ChunkSettledKeeps,
     ChunkFailedKeeps
<1>5. CASE Build \/ Send \/ Settled \/ Failed \/ Rejoin
  BY <1>5, BuildKeeps, SendKeeps, SettledKeeps, FailedKeeps, RejoinKeeps
<1>6. CASE SealRefusedAge \/ SealSentinel \/ FetchSentinel \/ PurgeSweep
  BY <1>6, SealRefusedAgeKeeps, SealSentinelKeeps, FetchSentinelKeeps, PurgeSweepKeeps
<1>7. CASE Declare \/ FetchRefusedAge \/ FetchAssigned \/ FetchEnded \/ Prune
  BY <1>7, DeclareKeeps, FetchRefusedAgeKeeps, FetchAssignedKeeps, FetchEndedKeeps, PruneKeeps
<1>8. CASE Deny \/ Grant \/ Upkeep \/ Restart
  BY <1>8, DenyKeeps, GrantKeeps, UpkeepKeeps, RestartKeeps
<1>9. CASE UNCHANGED vars
  BY <1>9, StutterKeeps
<1> QED
  BY <1>1, <1>2, <1>3, <1>4, <1>5, <1>6, <1>7, <1>8, <1>9 DEF Next

\* The invariant holds in every state: whatever is on its way carries a stamp
\* from which a withdrawal can be told, the worker's batch has passed the
\* filters it last looked through, and the watermark keeps every withdrawal
\* that something in the pipeline may still need.
THEOREM FactsInvariant == Spec => []FactInv
<1>1. Init => FactInv
  BY InitFacts
<1>2. FactInv /\ [Next]_vars => FactInv'
  BY FactInvStep
<1> QED
  BY <1>1, <1>2, PTL DEF Spec

\* An application reported stored is on file, as an intent or as its fact,
\* through failing writes, replacements and restarts, until it is settled.
THEOREM StoredApplicationsSurvive == Spec => []StoredSurvives
<1>1. FactInv => StoredSurvives
  BY DEF FactInv
<1> QED
  BY <1>1, FactsInvariant, PTL

\* countPointApplicationConsentDrop: the copies of a point that the list, the
\* emission, the queue, the worker, its request, a resend chunk and the spool
\* hold all carry one receipt, in whatever order they were made from one
\* another, so that the drops of a denial count the point once.
THEOREM ConsentDropsCountedOnce == Spec => []ConsentDropCountedOnce
<1>1. Init => PointsInv
  BY InitPoints
<1>2. FactInv /\ PointsInv /\ [Next]_vars => PointsInv'
  BY PointsInvStep
<1>3. PointsInv => ConsentDropCountedOnce
  BY DEF PointsInv, OwnSpent, ConsentDropCountedOnce
<1> QED
  BY <1>1, <1>2, <1>3, FactsInvariant, PTL DEF Spec

\* Where each of the worker's other steps leaves it.
LEMMA NotInFlight ==
    ASSUME FactInv,
           \/ WorkerTop \/ Receive \/ FlushDrain \/ PullChunk \/ ChunkSettled \/ ChunkFailed \/ Build
           \/ Settled \/ Failed \/ Rejoin \/ Restart \/ \E ok \in BOOLEAN : Respool(ok)
    PROVE  w'.pc \notin {"flight", "chunkflight"}
<1> USE FactParts
<1>1. CASE WorkerTop
  <2>1. w' = [DropBatch EXCEPT !.pc = "select"]
    BY <1>1 DEF WorkerTop
  <2> QED
    BY <2>1, DropBatchFacts DEF Worker
<1>2. ASSUME NEW then, then \in {"top", "resent"}, Admits(then) PROVE w'.pc = then
  BY <1>2, DropBatchFacts DEF Admits, Worker
<1>3. CASE Receive \/ FlushDrain
  BY <1>2, <1>3 DEF Receive, FlushDrain
<1>4. CASE PullChunk
  <2>1. w' = [DropBatch EXCEPT !.pc = "chunk", !.chunk = sp.res, !.pulledAt = key.epoch]
    BY <1>4 DEF PullChunk
  <2> QED
    BY <2>1, DropBatchFacts DEF Worker
<1>5. CASE ChunkSettled \/ ChunkFailed
  <2>1. w' = [w EXCEPT !.pc = "resent", !.chunk = {}] \/ w' = [w EXCEPT !.pc = "top", !.chunk = {}]
    BY <1>5 DEF ChunkSettled, ChunkFailed
  <2> QED
    BY <2>1 DEF Worker
<1>6. CASE Build
  <2>1. w'.pc \in {"settled", "built"}
    BY <1>6, LookedFacts DEF Build, Worker
  <2> QED
    BY <2>1
<1>7. CASE Settled
  <2>1. w' = [w EXCEPT !.pc = "settled", !.batch = {}, !.req = {}]
    BY <1>7 DEF Settled
  <2> QED
    BY <2>1 DEF Worker
<1>8. CASE Failed
  <2>1. w' = [w EXCEPT !.pc = "rejoin"] \/ w' = Respooling(w)
    BY <1>8 DEF Failed
  <2>2. [w EXCEPT !.pc = "rejoin"].pc = "rejoin"
    BY DEF Worker
  <2>3. Respooling(w).pc \in {"rejoin", "respool"}
    BY RespoolingFacts
  <2> QED
    BY <2>1, <2>2, <2>3
<1>9. CASE Rejoin
  <2>1. w'.pc = "top"
    BY <1>9 DEF Rejoin, Worker
  <2> QED
    BY <2>1
<1>10. CASE Restart
  BY <1>10, IdleFacts DEF Restart
<1>11. ASSUME NEW ok \in BOOLEAN, Respool(ok) PROVE w'.pc = "rejoin"
  <2>1. w' = [w EXCEPT !.pc = "rejoin"]
    BY <1>11 DEF Respool
  <2> QED
    BY <2>1 DEF Worker
<1> QED
  BY <1>1, <1>3, <1>4, <1>5, <1>6, <1>7, <1>8, <1>9, <1>10, <1>11

\* publishRequestResult hands over what its last look lets pass.
LEMMA SendIsLast ==
    ASSUME FactInv, Send, w'.pc = "flight"
    PROVE  AppsOf(w'.req) \intersect dead = {}
<1> USE FactParts
<1> DEFINE es == Handed(w.req)
           w1 == [Looked EXCEPT !.batch = es, !.req = es]
<1>1. w.pc = "built" /\ \/ w' = [w1 EXCEPT !.pc = "settled"]
                        \/ w' = Respooling(w1)
                        \/ w' = [w1 EXCEPT !.pc = "rejoin"]
                        \/ w' = [w1 EXCEPT !.pc = "flight", !.sentC = consent.epoch]
  BY DEF Send
<1>2. es \in SUBSET Fact /\ \A x \in es : x.app \notin dead
  BY <1>1, HandedFacts, WorkerFields
<1> HIDE DEF es
<1>3. w1 \in Worker /\ w1.req = es
  BY <1>2, LookedFacts DEF Worker
<1> HIDE DEF w1
<1>4. Respooling(w1).pc \in {"rejoin", "respool"}
  BY <1>3, RespoolingFacts
<1>5. [w1 EXCEPT !.pc = "settled"].pc = "settled" /\ [w1 EXCEPT !.pc = "rejoin"].pc = "rejoin"
  BY <1>3 DEF Worker
<1>6. w' = [w1 EXCEPT !.pc = "flight", !.sentC = consent.epoch]
  BY <1>1, <1>4, <1>5
<1>7. w'.req = es
  BY <1>3, <1>6 DEF Worker
<1> QED
  BY <1>2, <1>7 DEF AppsOf

\* A chunk's members are looked at once more before it goes out.
LEMMA SendChunkIsLast ==
    ASSUME FactInv, SendChunk
    PROVE  /\ w'.pc # "flight"
           /\ w'.pc = "chunkflight" => w'.chunk \intersect dead = {}
<1> USE FactParts
<1>1. w.pc = "chunk" /\ \/ w' = [w EXCEPT !.pc = "resent", !.chunk = {}]
                        \/ w' = [w EXCEPT !.pc = "chunkflight", !.chunk = ChunkReady, !.sentC = consent.epoch]
  BY DEF SendChunk
<1>2. ChunkReady \intersect dead = {}
  BY <1>1, ChunkReadyFacts
<1>3. CASE w' = [w EXCEPT !.pc = "resent", !.chunk = {}]
  BY <1>3 DEF Worker
<1>4. CASE w' = [w EXCEPT !.pc = "chunkflight", !.chunk = ChunkReady, !.sentC = consent.epoch]
  BY <1>2, <1>4 DEF Worker
<1> QED
  BY <1>1, <1>3, <1>4

LEMMA SendPhase == ASSUME FactInv, Send PROVE w'.pc # "chunkflight"
<1> USE FactParts
<1> DEFINE es == Handed(w.req)
           w1 == [Looked EXCEPT !.batch = es, !.req = es]
<1>1. w.pc = "built" /\ \/ w' = [w1 EXCEPT !.pc = "settled"]
                        \/ w' = Respooling(w1)
                        \/ w' = [w1 EXCEPT !.pc = "rejoin"]
                        \/ w' = [w1 EXCEPT !.pc = "flight", !.sentC = consent.epoch]
  BY DEF Send
<1>2. es \in SUBSET Fact
  BY <1>1, HandedFacts, WorkerFields
<1> HIDE DEF es
<1>3. w1 \in Worker
  BY <1>2, LookedFacts DEF Worker
<1> HIDE DEF w1
<1>4. Respooling(w1).pc \in {"rejoin", "respool"}
  BY <1>3, RespoolingFacts
<1> QED
  BY <1>1, <1>3, <1>4 DEF Worker

\* The transport is reached by two steps only, and each looks last.
LEMMA SentNotWithdrawn ==
    ASSUME FactInv, [Next]_vars
    PROVE  /\ (w.pc # "flight" /\ w'.pc = "flight") => AppsOf(w'.req) \intersect dead = {}
           /\ (w.pc # "chunkflight" /\ w'.pc = "chunkflight") => w'.chunk \intersect dead = {}
<1>1. CASE w' = w
  BY <1>1
<1>2. CASE Send
  BY <1>2, SendIsLast, SendPhase
<1>3. CASE SendChunk
  BY <1>3, SendChunkIsLast
<1>4. CASE \/ WorkerTop \/ Receive \/ FlushDrain \/ PullChunk \/ ChunkSettled \/ ChunkFailed \/ Build
           \/ Settled \/ Failed \/ Rejoin \/ Restart \/ \E ok \in BOOLEAN : Respool(ok)
  BY <1>4, NotInFlight
<1>5. ASSUME NEW a \in Apps, NEW ok \in BOOLEAN, ApplyVariant(a, ok) \/ TrackPoint(a, ok) PROVE w' = w
  BY <1>5 DEF ApplyVariant, TrackPoint, Arms
<1>6. ASSUME NEW ok \in BOOLEAN, SweepHead(ok) \/ Handoff(ok) PROVE w' = w
  BY <1>6 DEF SweepHead, Handoff
<1>7. CASE SweepExpired \/ SealKept \/ SealGranted \/ SealRefused \/ Enqueue \/ Finish
  <2>1. w' = w
    BY <1>7 DEF SweepExpired, SealKept, SealGranted, SealRefused, Enqueue, Finish
  <2> QED
    BY <1>1, <2>1
<1>8. CASE \/ SealRefusedAge \/ SealSentinel \/ FetchSentinel \/ PurgeSweep \/ Declare \/ FetchRefusedAge
           \/ FetchAssigned \/ FetchEnded \/ Prune \/ Deny \/ Grant \/ Upkeep
  <2>1. w' = w
    BY <1>8 DEF SealRefusedAge, SealSentinel, FetchSentinel, PurgeSweep, Declare, FetchRefusedAge,
                FetchAssigned, FetchEnded, Prune, Deny, Grant, Upkeep
  <2> QED
    BY <1>1, <2>1
<1>9. CASE UNCHANGED vars
  BY <1>1, <1>9 DEF vars
<1> QED
  BY <1>1, <1>2, <1>3, <1>4, <1>5, <1>6, <1>7, <1>8, <1>9 DEF Next

\* A fact that an age refusal or a sentinel withdrew is never handed to the
\* transport: not from the queue or an older batch, not by a respool, a resend
\* chunk, a restored intent or an emission under way, and not because its
\* withdrawal was pruned.
THEOREM WithdrawnFactsNeverSent == Spec => NoWithdrawnFactSent
<1>1. FactInv /\ [Next]_vars
        => [/\ (w.pc # "flight" /\ w'.pc = "flight") => AppsOf(w'.req) \intersect dead = {}
            /\ (w.pc # "chunkflight" /\ w'.pc = "chunkflight") => w'.chunk \intersect dead = {}]_vars
  BY SentNotWithdrawn
<1> QED
  BY <1>1, FactsInvariant, PTL DEF Spec, NoWithdrawnFactSent
=============================================================================
