--------------------- MODULE ExperimentAssignmentsProofs ---------------------
(***************************************************************************)
(* Safety of the experiment assignments, for any number of experiments,    *)
(* host calls, fetches and outside events: what was withdrawn does not     *)
(* come back, nothing fetched before a denial is installed after it, and   *)
(* what was decided without it is not served to a declared minor.          *)
(***************************************************************************)
EXTENDS ExperimentAssignments, TLAPS

\* A call that has its sequence number and may still settle.
Numbered(c) == IF calls[c] = None THEN FALSE ELSE calls[c].seq > 0

\* A number is given out together with the auth epoch of the moment, so the
\* two grow together; nothing under way is ahead of its source.
NumberInv ==
    /\ barred <= fetchSeq /\ denied <= fetchSeq /\ \A k \in Keys : ended[k] <= fetchSeq
    /\ \A c \in Everyone : calls[c] # None =>
          /\ calls[c].seq <= fetchSeq /\ calls[c].auth <= auth.epoch
          /\ calls[c].epoch <= consent.epoch
    /\ \A c, d \in Everyone : Numbered(c) /\ Numbered(d) /\ calls[c].seq <= calls[d].seq =>
          calls[c].auth <= calls[d].auth

\* A request from before a verdict on its experiment meets the sequence fence
\* or a newer auth epoch.
FenceInv ==
    /\ subject.id = 0 => \A k \in Keys : ended[k] = 0
    /\ \A c \in Everyone : Numbered(c) /\ calls[c].seq <= ended[calls[c].key] =>
          \/ calls[c].seq <= settled[<<subject.id, calls[c].key>>]
          \/ calls[c].auth < auth.epoch

\* One from before a sentinel meets a newer auth epoch, one from before a
\* denial a newer consent epoch.
BarInv ==
    \A c \in Everyone : Numbered(c) =>
       /\ calls[c].seq <= barred => calls[c].auth < auth.epoch
       /\ calls[c].seq <= denied => calls[c].epoch < consent.epoch

-----------------------------------------------------------------------------
(* Types.                                                                  *)

LEMMA Bounds == MaxSeq \in Nat /\ MaxTurns \in Nat /\ Lane \in Everyone /\ Calls \subseteq Everyone
BY ExperimentAssignmentsAssumption DEF Everyone

LEMMA StoreKept == ASSUME StoreType, UNCHANGED store PROVE StoreType'
BY DEF StoreType, store

LEMMA CallKept ==
    ASSUME CallType, UNCHANGED <<subject, fetchSeq, consent, torn, calls>> PROVE CallType'
BY DEF CallType, At

LEMMA HistKept == ASSUME HistType, UNCHANGED <<turns, hist>> PROVE HistType'
BY DEF HistType, hist

\* A call that is there has the fields of a call.
LEMMA CallFields ==
    ASSUME CallType, NEW c \in Everyone, calls[c] # None
    PROVE  calls[c] \in CallRecord
BY DEF CallType, CallShape

\* The fields Dispatch and Remint write keep a call a call.
LEMMA FieldUpdates ==
    ASSUME NEW r \in CallRecord
    PROVE  /\ \A x \in {"begun", "sent", "again", "ending"} : [r EXCEPT !.pc = x] \in CallRecord
           /\ \A x \in 0..MaxSeq : [r EXCEPT !.seq = x] \in CallRecord
           /\ \A x \in 0..2 : [r EXCEPT !.subj = x] \in CallRecord
           /\ \A x \in Nat : [r EXCEPT !.auth = x] \in CallRecord
           /\ \A x \in Nat : [r EXCEPT !.epoch = x] \in CallRecord
           /\ \A x \in Bands : [r EXCEPT !.band = x] \in CallRecord
           /\ \A x \in BOOLEAN : [r EXCEPT !.preset = x] \in CallRecord
           /\ \A x \in TicketShape : [r EXCEPT !.ticket = x] \in CallRecord
<1> USE Bounds DEF CallRecord
<1>1. \A x \in {"begun", "sent", "again", "ending"} : [r EXCEPT !.pc = x] \in CallRecord
  OBVIOUS
<1>2. \A x \in 0..MaxSeq : [r EXCEPT !.seq = x] \in CallRecord
  OBVIOUS
<1>3. \A x \in 0..2 : [r EXCEPT !.subj = x] \in CallRecord
  OBVIOUS
<1>4. \A x \in Nat : [r EXCEPT !.auth = x] \in CallRecord
  OBVIOUS
<1>5. \A x \in Nat : [r EXCEPT !.epoch = x] \in CallRecord
  OBVIOUS
<1>6. \A x \in Bands : [r EXCEPT !.band = x] \in CallRecord
  OBVIOUS
<1>7. \A x \in BOOLEAN : [r EXCEPT !.preset = x] \in CallRecord
  OBVIOUS
<1>8. \A x \in TicketShape : [r EXCEPT !.ticket = x] \in CallRecord
  OBVIOUS
<1> HIDE DEF CallRecord
<1> QED
  BY <1>1, <1>2, <1>3, <1>4, <1>5, <1>6, <1>7, <1>8

\* The call as Dispatch and as Remint leave it.
Sent(r, n, s, a, b) == [r EXCEPT !.pc = "sent", !.seq = n, !.subj = s, !.auth = a, !.band = b]
Again(r) == [r EXCEPT !.pc = "again", !.seq = 0, !.preset = TRUE, !.ticket = None]

LEMMA SentCall ==
    ASSUME NEW r \in CallRecord, NEW n \in 1..MaxSeq, NEW s \in 1..2, NEW a \in Nat,
           NEW b \in Bands
    PROVE  /\ Sent(r, n, s, a, b) \in CallRecord
           /\ Sent(r, n, s, a, b).pc = "sent" /\ Sent(r, n, s, a, b).seq = n
           /\ Sent(r, n, s, a, b).subj = s /\ Sent(r, n, s, a, b).auth = a
           /\ Sent(r, n, s, a, b).key = r.key /\ Sent(r, n, s, a, b).epoch = r.epoch
           /\ Sent(r, n, s, a, b).decl = r.decl
<1> DEFINE r1 == [r EXCEPT !.pc = "sent"]
           r2 == [r1 EXCEPT !.seq = n]
           r3 == [r2 EXCEPT !.subj = s]
           r4 == [r3 EXCEPT !.auth = a]
<1>1. Sent(r, n, s, a, b) = [r4 EXCEPT !.band = b]
  BY DEF Sent
<1>2. Sent(r, n, s, a, b) \in CallRecord
  <2>1. n \in 0..MaxSeq /\ s \in 0..2
    BY Bounds
  <2>2. r1 \in CallRecord
    BY FieldUpdates
  <2> HIDE DEF r1
  <2>3. r2 \in CallRecord
    BY <2>1, <2>2, FieldUpdates
  <2> HIDE DEF r2
  <2>4. r3 \in CallRecord
    BY <2>1, <2>3, FieldUpdates
  <2> HIDE DEF r3
  <2>5. r4 \in CallRecord
    BY <2>4, FieldUpdates
  <2> HIDE DEF r4
  <2> QED
    BY <1>1, <2>5, FieldUpdates
<1> QED
  BY <1>2 DEF CallRecord, Sent

LEMMA AgainCall ==
    ASSUME NEW r \in CallRecord
    PROVE  /\ Again(r) \in CallRecord /\ Again(r).pc = "again" /\ Again(r).seq = 0
           /\ Again(r).auth = r.auth /\ Again(r).epoch = r.epoch /\ Again(r).key = r.key
           /\ Again(r).decl = r.decl
<1> DEFINE r1 == [r EXCEPT !.pc = "again"]
           r2 == [r1 EXCEPT !.seq = 0]
           r3 == [r2 EXCEPT !.preset = TRUE]
<1>1. Again(r) = [r3 EXCEPT !.ticket = None]
  BY DEF Again
<1>2. Again(r) \in CallRecord
  <2>1. 0 \in 0..MaxSeq /\ None \in TicketShape
    BY Bounds DEF TicketShape
  <2>2. r1 \in CallRecord
    BY FieldUpdates
  <2> HIDE DEF r1
  <2>3. r2 \in CallRecord
    BY <2>1, <2>2, FieldUpdates
  <2> HIDE DEF r2
  <2>4. r3 \in CallRecord
    BY <2>3, FieldUpdates
  <2> HIDE DEF r3
  <2> QED
    BY <1>1, <2>1, <2>4, FieldUpdates
<1> QED
  BY <1>2 DEF CallRecord, Again

\* A request under way has its number; a call that starts over has none.
LEMMA Progress ==
    ASSUME CallType, NEW c \in Everyone
    PROVE  (At(c, "sent") => calls[c].seq > 0) /\ (At(c, "again") => calls[c].seq = 0)
BY DEF CallType

\* Return ends a call or leaves it to end its declaration.
LEMMA ReturnCalls ==
    ASSUME CallType, NEW c \in Everyone, calls[c] # None, Return(c)
    PROVE  /\ calls' \in [Everyone -> CallShape]
           /\ \A d \in Everyone \ {c} : calls'[d] = calls[d]
           /\ calls'[c] = None \/ calls'[c] = [calls[c] EXCEPT !.pc = "ending"]
<1>1. [calls[c] EXCEPT !.pc = "ending"] \in CallShape
  BY CallFields, FieldUpdates DEF CallShape
<1>2. calls' = [calls EXCEPT ![c] = IF calls[c].decl = 0 THEN None
                                    ELSE [calls[c] EXCEPT !.pc = "ending"]]
  BY DEF Return, CallType
<1>3. None \in CallShape
  BY DEF CallShape
<1> QED
  BY <1>1, <1>2, <1>3 DEF CallType

LEMMA ReturnType ==
    ASSUME CallType, NEW c \in Everyone, calls[c] # None, Return(c),
           UNCHANGED <<subject, fetchSeq, torn>>, consent' \in [granted : BOOLEAN, epoch : Nat]
    PROVE  CallType'
<1>1. \A d \in Everyone : calls'[d] # None => calls'[d].pc = "ending" \/ calls'[d] = calls[d]
  BY ReturnCalls, CallFields DEF CallRecord
<1> QED
  BY <1>1, ReturnCalls DEF CallType, At

LEMMA RaiseType ==
    ASSUME StoreType, NEW s \in 0..2, NEW k \in Keys, NEW n \in 0..MaxSeq
    PROVE  /\ Raise(settled, s, k, n) \in [(1..2) \X Keys -> 0..MaxSeq]
           /\ \A x \in (1..2) \X Keys : Raise(settled, s, k, n)[x] >= settled[x]
           /\ s # 0 => Raise(settled, s, k, n)[<<s, k>>] >= n
<1> USE Bounds
<1>1. CASE s = 0
  BY <1>1 DEF Raise, StoreType
<1>2. CASE s # 0
  <2>1. <<s, k>> \in (1..2) \X Keys
    BY <1>2
  <2>2. settled[<<s, k>>] \in 0..MaxSeq
    BY <2>1 DEF StoreType
  <2>3. /\ Larger(settled[<<s, k>>], n) \in 0..MaxSeq
        /\ Larger(settled[<<s, k>>], n) >= settled[<<s, k>>] /\ Larger(settled[<<s, k>>], n) >= n
    BY <2>2 DEF Larger
  <2>4. Raise(settled, s, k, n) = [settled EXCEPT ![<<s, k>>] = Larger(settled[<<s, k>>], n)]
    BY <1>2 DEF Raise
  <2> HIDE DEF Larger
  <2> QED
    BY <2>1, <2>2, <2>3, <2>4 DEF StoreType
<1> QED
  BY <1>1, <1>2

LEMMA TypeInit == Init => TypeOK
<1> SUFFICES ASSUME Init PROVE TypeOK
  OBVIOUS
<1> USE Bounds DEF Init, Nothing
<1>1. StoreType
  BY DEF StoreType, EntryShape, DeclarationShape, TicketShape
<1>2. CallType
  <2>1. subject \in [id : 0..2, reminted : BOOLEAN] /\ (subject.id = 2 => subject.reminted)
    <3>1. subject = [id |-> 0, reminted |-> FALSE]
      OBVIOUS
    <3> HIDE DEF Init
    <3> QED
      BY <3>1
  <2>2. fetchSeq = 0 /\ torn = FALSE /\ 0 \in 0..MaxSeq
    OBVIOUS
  <2>3. consent \in [granted : BOOLEAN, epoch : Nat]
    OBVIOUS
  <2>4. calls \in [Everyone -> CallShape]
    BY DEF CallShape
  <2>5. \A c \in Everyone : calls[c] = None
    OBVIOUS
  <2> QED
    BY <2>1, <2>2, <2>3, <2>4, <2>5 DEF CallType, At
<1>3. HistType
  BY DEF HistType, AgeShape
<1> QED
  BY <1>1, <1>2, <1>3 DEF TypeOK

LEMMA BeginHostType ==
    ASSUME TypeOK, NEW c \in Calls, NEW k \in Keys, NEW band \in HostBands, BeginHost(c, k, band)
    PROVE  TypeOK'
<1> DEFINE n == fetchSeq + 1
           r == [pc |-> "begun", key |-> k, band |-> band, seq |-> n, auth |-> auth.epoch,
                 epoch |-> consent.epoch, subj |-> 0, preset |-> FALSE, ticket |-> None,
                 decl |-> IF band = "minor" THEN n ELSE 0]
<1>1. /\ n \in 1..MaxSeq /\ n - 1 \in 0..MaxSeq /\ fetchSeq' = n /\ fetchSeq \in 0..MaxSeq
      /\ c \in Everyone /\ band \in Bands /\ subject.id \in 0..2
      /\ auth.epoch \in Nat /\ consent.epoch \in Nat
  BY Bounds, ExperimentAssignmentsAssumption DEF BeginHost, TypeOK, CallType, StoreType, Bands
<1>2. /\ calls' = [calls EXCEPT ![c] = r]
      /\ UNCHANGED <<entries, retained, auth, ticket, subject, consent, torn, turns,
                     ended, barred, denied>>
  BY DEF BeginHost
<1>3. None \in DeclarationShape /\ None \in TicketShape /\ None \in CallShape
  BY DEF DeclarationShape, TicketShape, CallShape
<1> HIDE DEF n
<1>4. StoreType'
  <2>1. declaring' \in [Keys -> DeclarationShape]
    <3>1. [id |-> n, seq |-> n, decided |-> FALSE] \in DeclarationShape
      BY <1>1 DEF DeclarationShape, Declarations
    <3>2. /\ declaring' = declaring
          \/ declaring' = [declaring EXCEPT ![k] = None]
          \/ declaring' = [declaring EXCEPT ![k] = [id |-> n, seq |-> n, decided |-> FALSE]]
      <4>1. band \in {"none", "adult", "minor"}
        BY <1>1 DEF Bands
      <4>2. CASE band = "none"
        BY <4>2 DEF BeginHost, TypeOK, StoreType
      <4>3. CASE band = "adult"
        BY <4>3 DEF BeginHost, TypeOK, StoreType
      <4>4. CASE band = "minor"
        BY <4>4 DEF BeginHost, TypeOK, StoreType, n
      <4> QED
        BY <4>1, <4>2, <4>3, <4>4
    <3> QED
      BY <3>1, <3>2, <1>3 DEF TypeOK, StoreType
  <2>2. confirmed' \in SUBSET Keys
    BY DEF BeginHost, Unconfirmed, TypeOK, StoreType
  <2>3. settled' \in [(1..2) \X Keys -> 0..MaxSeq]
    <3>1. settled' = settled \/ settled' = Raise(settled, subject.id, k, n - 1)
      BY DEF BeginHost, n
    <3>2. StoreType
      BY DEF TypeOK
    <3>3. Raise(settled, subject.id, k, n - 1) \in [(1..2) \X Keys -> 0..MaxSeq]
      BY <3>2, <1>1, RaiseType
    <3> QED
      BY <3>1, <3>2, <3>3 DEF StoreType
  <2> QED
    BY <2>1, <2>2, <2>3, <1>2 DEF TypeOK, StoreType
<1>5. CallType'
  <2>1. r \in CallShape
    BY <1>1, <1>3, Bounds DEF CallShape, CallRecord
  <2>2. \A d \in Everyone : calls'[d] = IF d = c THEN r ELSE calls[d]
    BY <1>1, <1>2 DEF TypeOK, CallType
  <2>3. calls' \in [Everyone -> CallShape]
    BY <2>1, <1>1, <1>2 DEF TypeOK, CallType
  <2>4. fetchSeq' \in 0..MaxSeq
    BY <1>1
  <2>5. r.pc = "begun"
    OBVIOUS
  <2> HIDE DEF r
  <2>6. ASSUME NEW d \in Everyone
        PROVE  /\ At(d, "sent")' => calls'[d].seq > 0
               /\ At(d, "again")' => calls'[d].seq = 0
    <3>1. CASE d = c
      BY <3>1, <2>2, <2>5 DEF At
    <3>2. CASE d # c
      BY <3>2, <2>2, Progress DEF TypeOK, At
    <3> QED
      BY <3>1, <3>2
  <2> QED
    BY <2>3, <2>4, <2>6, <1>2 DEF TypeOK, CallType
<1>6. HistType'
  <2>1. [band |-> band, seq |-> n, lost |-> FALSE] \in AgeShape
    BY <1>1 DEF AgeShape, Ages
  <2>2. age' = age \/ age' = [age EXCEPT ![k] = [band |-> band, seq |-> n, lost |-> FALSE]]
    BY DEF BeginHost, n
  <2> QED
    BY <2>1, <2>2, <1>2 DEF TypeOK, HistType
<1> QED
  BY <1>4, <1>5, <1>6 DEF TypeOK

LEMMA BeginRevalidationType ==
    ASSUME TypeOK, NEW k \in Keys, BeginRevalidation(k)
    PROVE  TypeOK'
<1> DEFINE r == [pc |-> "begun", key |-> k, seq |-> 0, auth |-> 0, epoch |-> consent.epoch,
                 subj |-> 0, decl |-> 0, preset |-> TicketReady(k),
                 band |-> IF TicketReady(k) THEN ticket[k].band ELSE "none",
                 ticket |-> IF TicketReady(k) THEN ticket[k] ELSE None]
<1>1. /\ calls' = [calls EXCEPT ![Lane] = r]
      /\ UNCHANGED <<store, subject, fetchSeq, consent, torn, turns, hist>>
  BY DEF BeginRevalidation
<1>2. r \in CallShape
  <2>1. TicketReady(k) \in BOOLEAN /\ (TicketReady(k) => ticket[k] # None)
    BY DEF TicketReady
  <2>2. TicketReady(k) => ticket[k].band \in Bands
    BY <2>1 DEF TypeOK, StoreType, TicketShape
  <2>3. ticket[k] \in TicketShape /\ None \in TicketShape /\ consent.epoch \in Nat /\ "none" \in Bands
    BY DEF TypeOK, StoreType, CallType, TicketShape, Bands
  <2> QED
    BY <2>1, <2>2, <2>3, Bounds DEF CallShape, CallRecord
<1>3. r.pc = "begun"
  OBVIOUS
<1> HIDE DEF r
<1>4. CallType'
  <2>1. \A d \in Everyone : calls'[d] = IF d = Lane THEN r ELSE calls[d]
    BY <1>1, Bounds DEF TypeOK, CallType
  <2> QED
    BY <1>1, <1>2, <1>3, <2>1, Bounds DEF TypeOK, CallType, At
<1> QED
  BY <1>1, <1>4, StoreKept, HistKept DEF TypeOK

\* The request takes a number and the auth epoch together, unless it has both.
LEMMA DispatchCall ==
    ASSUME TypeOK, NEW c \in Everyone, Dispatch(c)
    PROVE  LET r == calls[c]
               n == IF r.seq = 0 THEN fetchSeq + 1 ELSE r.seq
           IN  /\ r # None /\ r \in CallRecord /\ n \in 1..MaxSeq
               /\ calls' \in [Everyone -> CallShape]
               /\ \A d \in Everyone \ {c} : calls'[d] = calls[d]
               /\ calls'[c].pc = "sent" /\ calls'[c].seq = n
               /\ calls'[c].auth = IF r.seq = 0 THEN auth.epoch ELSE r.auth
               /\ calls'[c].key = r.key /\ calls'[c].epoch = r.epoch /\ calls'[c].decl = r.decl
<1> DEFINE r == calls[c]
           n == IF r.seq = 0 THEN fetchSeq + 1 ELSE r.seq
           s == IF subject.id = 0 THEN 1 ELSE subject.id
           sent == [r EXCEPT !.pc = "sent", !.seq = n, !.subj = s,
                             !.auth = IF r.seq = 0 THEN auth.epoch ELSE r.auth,
                             !.band = IF c = Lane /\ ~r.preset THEN entries[r.key].band ELSE r.band]
<1>1. r # None /\ r.pc = "begun"
  BY DEF Dispatch, At
<1>2. /\ r \in CallRecord /\ r.key \in Keys /\ r.seq \in 0..MaxSeq /\ r.auth \in Nat
      /\ r.band \in Bands
  BY <1>1, CallFields DEF TypeOK, CallRecord
<1>3. /\ n \in 1..MaxSeq /\ fetchSeq \in 0..MaxSeq /\ s \in 1..2 /\ auth.epoch \in Nat
      /\ fetchSeq' = Larger(fetchSeq, n) /\ subject' = [subject EXCEPT !.id = s]
  BY <1>2, Bounds DEF Dispatch, TypeOK, CallType, StoreType
<1>4. c = Lane /\ ~r.preset => entries[r.key].band \in Bands
  <2>1. SUFFICES ASSUME c = Lane, ~r.preset PROVE entries[r.key].band \in Bands
    OBVIOUS
  <2>2. entries[r.key] # None
    BY <2>1 DEF Dispatch, Vanished
  <2>3. entries[r.key] \in EntryShape
    BY <1>2 DEF TypeOK, StoreType
  <2> QED
    BY <2>2, <2>3 DEF EntryShape
<1>5. calls' = [calls EXCEPT ![c] = sent]
  BY <1>2 DEF Dispatch, TypeOK, CallType
<1>6. /\ sent \in CallRecord /\ sent.seq = n /\ sent.pc = "sent"
      /\ sent.auth = IF r.seq = 0 THEN auth.epoch ELSE r.auth
      /\ sent.key = r.key /\ sent.epoch = r.epoch /\ sent.decl = r.decl
  <2> DEFINE a == IF r.seq = 0 THEN auth.epoch ELSE r.auth
             b == IF c = Lane /\ ~r.preset THEN entries[r.key].band ELSE r.band
  <2>1. a \in Nat /\ b \in Bands
    BY <1>2, <1>3, <1>4
  <2>2. sent = Sent(r, n, s, a, b)
    BY DEF Sent
  <2> HIDE DEF r, n, s, sent, a, b
  <2>3. r \in CallRecord /\ n \in 1..MaxSeq /\ s \in 1..2
    BY <1>2, <1>3
  <2>4. /\ sent \in CallRecord /\ sent.seq = n /\ sent.pc = "sent" /\ sent.auth = a
        /\ sent.key = r.key /\ sent.epoch = r.epoch /\ sent.decl = r.decl
    BY <2>1, <2>2, <2>3, SentCall
  <2> QED
    BY <2>4 DEF a
<1>7. calls' \in [Everyone -> CallShape] /\ calls'[c] = sent
  BY <1>5, <1>6 DEF TypeOK, CallType, CallShape
<1>8. \A d \in Everyone \ {c} : calls'[d] = calls[d]
  BY <1>5 DEF TypeOK, CallType
<1> HIDE DEF sent
<1> QED
  BY <1>1, <1>2, <1>3, <1>6, <1>7, <1>8

LEMMA DispatchType ==
    ASSUME TypeOK, NEW c \in Everyone, Dispatch(c)
    PROVE  TypeOK'
<1> DEFINE r == calls[c]
           n == IF r.seq = 0 THEN fetchSeq + 1 ELSE r.seq
           s == IF subject.id = 0 THEN 1 ELSE subject.id
<1>2. /\ r # None /\ r \in CallRecord /\ n \in 1..MaxSeq
      /\ calls' \in [Everyone -> CallShape]
      /\ \A d \in Everyone \ {c} : calls'[d] = calls[d]
      /\ calls'[c].pc = "sent" /\ calls'[c].seq = n
  BY DispatchCall
<1>3. /\ n \in 1..MaxSeq /\ fetchSeq \in 0..MaxSeq /\ s \in 1..2
      /\ fetchSeq' = Larger(fetchSeq, n) /\ subject' = [subject EXCEPT !.id = s]
      /\ r.key \in Keys
  BY <1>2 DEF Dispatch, TypeOK, CallType, CallRecord
<1>7. \/ declaring' = declaring
      \/ declaring[r.key] # None /\ declaring' = [declaring EXCEPT ![r.key].seq = n]
  BY DEF Dispatch
<1>8. UNCHANGED <<entries, retained, settled, auth, confirmed, ticket, consent, torn, turns, hist>>
  BY DEF Dispatch
<1> HIDE DEF r, n, s
<1>9. StoreType'
  <2>1. declaring' \in [Keys -> DeclarationShape]
    <3>1. r.key \in Keys
      BY <1>3
    <3>2. declaring[r.key] # None => [declaring[r.key] EXCEPT !.seq = n] \in DeclarationShape
      BY <3>1, <1>3 DEF TypeOK, StoreType, DeclarationShape, Declarations
    <3> QED
      BY <1>7, <3>1, <3>2 DEF TypeOK, StoreType
  <2> QED
    BY <2>1, <1>8 DEF TypeOK, StoreType
<1>10. CallType'
  <2>1. fetchSeq' \in 0..MaxSeq
    BY <1>3, Bounds DEF Larger
  <2>2. /\ subject' \in [id : 0..2, reminted : BOOLEAN] /\ (subject'.id = 2 => subject'.reminted)
    <3>1. subject \in [id : 0..2, reminted : BOOLEAN] /\ (subject.id = 2 => subject.reminted)
      BY DEF TypeOK, CallType
    <3>2. s = 2 => subject.reminted
      BY <3>1 DEF s
    <3> QED
      BY <3>1, <3>2, <1>3
  <2>4. calls'[c].pc = "sent" /\ calls'[c].seq > 0
    BY <1>2
  <2>6. ASSUME NEW d \in Everyone
        PROVE  /\ At(d, "sent")' => calls'[d].seq > 0
               /\ At(d, "again")' => calls'[d].seq = 0
    <3>1. CASE d = c
      BY <3>1, <2>4 DEF At
    <3>2. CASE d # c
      BY <3>2, <1>2, Progress DEF TypeOK, At
    <3> QED
      BY <3>1, <3>2
  <2> QED
    BY <1>2, <2>1, <2>2, <2>6, <1>8 DEF TypeOK, CallType
<1>11. HistType'
  BY <1>8, HistKept DEF TypeOK
<1> QED
  BY <1>9, <1>10, <1>11 DEF TypeOK

LEMMA LostType == ASSUME HistType, NEW k \in Keys PROVE Lost(k) \in AgeShape
BY DEF HistType, Lost, AgeShape, Ages

\* The first four conjuncts of every action of a call under way.
LEMMA CallThere ==
    ASSUME TypeOK, NEW c \in Everyone, NEW pc, At(c, pc)
    PROVE  /\ calls[c] # None /\ calls[c].pc = pc /\ calls[c] \in CallRecord
           /\ calls[c].key \in Keys /\ calls[c].seq \in 0..MaxSeq /\ calls[c].auth \in Nat
           /\ calls[c].epoch \in Nat /\ calls[c].band \in Bands /\ calls[c].subj \in 0..2
           /\ calls[c].decl \in 0..MaxSeq
BY CallFields DEF TypeOK, At, CallRecord

LEMMA RemintType ==
    ASSUME TypeOK, NEW c \in Everyone, Remint(c)
    PROVE  TypeOK'
<1>1. At(c, "sent")
  BY DEF Remint
<1>2. calls[c] # None /\ calls[c] \in CallRecord
  BY <1>1, CallThere
<1>3. /\ calls' = [calls EXCEPT ![c] = Again(calls[c])]
      /\ UNCHANGED <<settled, auth, declaring, confirmed, ticket, fetchSeq, consent, torn,
                     turns, barred, denied>>
  BY DEF Remint, Again
<1>4. Again(calls[c]) \in CallShape /\ Again(calls[c]).pc = "again" /\ Again(calls[c]).seq = 0
  BY <1>2, AgainCall DEF CallShape
<1>5. StoreType'
  <2>1. Nothing \in [Keys -> EntryShape]
    BY DEF Nothing, EntryShape
  <2>2. entries' = Nothing /\ retained' = Nothing
    BY DEF Remint, Emptied
  <2> QED
    BY <1>3, <2>1, <2>2 DEF TypeOK, StoreType
<1>6. CallType'
  <2>1. subject' \in [id : 0..2, reminted : BOOLEAN] /\ (subject'.id = 2 => subject'.reminted)
    <3>1. subject \in [id : 0..2, reminted : BOOLEAN] /\ (subject.id = 2 => subject.reminted)
      BY DEF TypeOK, CallType
    <3>2. subject.id # 0 /\ ~subject.reminted
      BY DEF Remint, Remints, Current
    <3>3. subject' = [id |-> subject.id + 1, reminted |-> TRUE]
      BY DEF Remint
    <3> QED
      BY <3>1, <3>2, <3>3
  <2>2. calls' \in [Everyone -> CallShape]
    BY <1>3, <1>4 DEF TypeOK, CallType
  <2>3. \A d \in Everyone : calls'[d] = IF d = c THEN Again(calls[c]) ELSE calls[d]
    BY <1>3 DEF TypeOK, CallType
  <2>4. ASSUME NEW d \in Everyone
        PROVE  /\ At(d, "sent")' => calls'[d].seq > 0
               /\ At(d, "again")' => calls'[d].seq = 0
    <3>1. CASE d = c
      BY <3>1, <2>3, <1>4 DEF At
    <3>2. CASE d # c
      BY <3>2, <2>3, Progress DEF TypeOK, At
    <3> QED
      BY <3>1, <3>2
  <2> QED
    BY <2>1, <2>2, <2>4, <1>3 DEF TypeOK, CallType
<1>7. HistType'
  <2>1. age' \in [Keys -> AgeShape]
    <3>1. \A k \in Keys : age[k] \in AgeShape /\ Lost(k) \in AgeShape
      BY LostType DEF TypeOK, HistType
    <3>2. age' = [k \in Keys |-> IF Undecided(k) THEN age[k] ELSE Lost(k)]
      BY DEF Remint
    <3> QED
      BY <3>1, <3>2
  <2>2. ended' \in [Keys -> 0..MaxSeq]
    BY Bounds DEF Remint
  <2> QED
    BY <2>1, <2>2, <1>3 DEF TypeOK, HistType
<1> QED
  BY <1>5, <1>6, <1>7 DEF TypeOK

\* Reenter carries the consent epoch of the moment.
LEMMA ReenterCall ==
    ASSUME TypeOK, NEW c \in Everyone, Reenter(c), ~torn
    PROVE  /\ calls[c] # None /\ calls[c] \in CallRecord
           /\ calls' = [calls EXCEPT ![c] = [[calls[c] EXCEPT !.pc = "begun"]
                                                       EXCEPT !.epoch = consent.epoch]]
           /\ [[calls[c] EXCEPT !.pc = "begun"] EXCEPT !.epoch = consent.epoch] \in CallRecord
<1>1. At(c, "again") /\ consent.epoch \in Nat
  BY DEF Reenter, TypeOK, CallType
<1>2. calls[c] # None /\ calls[c] \in CallRecord
  BY <1>1, CallThere
<1>3. calls' = [calls EXCEPT ![c] = [[calls[c] EXCEPT !.pc = "begun"]
                                                 EXCEPT !.epoch = consent.epoch]]
  BY <1>2 DEF Reenter, TypeOK, CallType, CallRecord
<1>4. [calls[c] EXCEPT !.pc = "begun"] \in CallRecord
  BY <1>2, FieldUpdates
<1> QED
  BY <1>1, <1>2, <1>3, <1>4, FieldUpdates

LEMMA ReenterType ==
    ASSUME TypeOK, NEW c \in Everyone, Reenter(c)
    PROVE  TypeOK'
<1>1. UNCHANGED <<store, subject, fetchSeq, consent, torn, turns, hist>>
  BY DEF Reenter
<1>2. CallType'
  <2>1. CASE torn
    <3>1. Return(c) /\ calls[c] # None
      BY <2>1 DEF Reenter, At
    <3>2. consent' \in [granted : BOOLEAN, epoch : Nat]
      BY <1>1 DEF TypeOK, CallType
    <3> QED
      BY <3>1, <3>2, <1>1, ReturnType DEF TypeOK
  <2>2. CASE ~torn
    <3> DEFINE z == [[calls[c] EXCEPT !.pc = "begun"] EXCEPT !.epoch = consent.epoch]
    <3>1. calls' = [calls EXCEPT ![c] = z] /\ z \in CallRecord
      BY <2>2, ReenterCall
    <3>2. z.pc = "begun"
      BY <2>2, ReenterCall DEF CallRecord
    <3> HIDE DEF z
    <3>3. \A d \in Everyone : calls'[d] = IF d = c THEN z ELSE calls[d]
      BY <3>1 DEF TypeOK, CallType
    <3>4. calls' \in [Everyone -> CallShape]
      BY <3>1 DEF TypeOK, CallType, CallShape
    <3>5. ASSUME NEW d \in Everyone
          PROVE  /\ At(d, "sent")' => calls'[d].seq > 0
                 /\ At(d, "again")' => calls'[d].seq = 0
      <4>1. CASE d = c
        BY <4>1, <3>2, <3>3 DEF At
      <4>2. CASE d # c
        BY <4>2, <3>3, Progress DEF TypeOK, At
      <4> QED
        BY <4>1, <4>2
    <3> QED
      BY <3>4, <3>5, <1>1 DEF TypeOK, CallType
  <2> QED
    BY <2>1, <2>2
<1> QED
  BY <1>1, <1>2, StoreKept, HistKept DEF TypeOK

\* endNonAdultDeclaration changes an experiment of its own only, and takes away.
LEMMA EndDeclarationStore ==
    ASSUME TypeOK, NEW c \in Everyone, EndDeclaration(c)
    PROVE  /\ \/ entries' = entries /\ retained' = retained
              \/ \E k \in Keys : /\ entries' = [entries EXCEPT ![k] = None]
                                 /\ retained' = [retained EXCEPT ![k] = None]
           /\ auth' = auth /\ confirmed' = confirmed
           /\ ticket' = ticket \/ \E k \in Keys : ticket' = [ticket EXCEPT ![k] = None]
           /\ declaring' = declaring \/ \E k \in Keys : declaring' = [declaring EXCEPT ![k] = None]
           /\ \/ settled' = settled
              \/ \E s \in 0..2, k \in Keys, n \in 0..MaxSeq : settled' = Raise(settled, s, k, n)
           /\ age' = age \/ \E k \in Keys : age' = [age EXCEPT ![k] = Lost(k)]
<1> DEFINE k == calls[c].key
           d == declaring[k]
<1>1. At(c, "ending")
  BY DEF EndDeclaration
<1>2. k \in Keys
  BY <1>1, CallThere
<1>3. CASE d = None
  BY <1>3 DEF EndDeclaration, store
<1>4. CASE d # None /\ d.id # calls[c].decl
  BY <1>4 DEF EndDeclaration, store
<1>5. CASE d # None /\ d.id = calls[c].decl
  <2>1. /\ age' = IF subject.id = 0 THEN [age EXCEPT ![k] = Lost(k)] ELSE age
        /\ declaring' = [declaring EXCEPT ![k] = None]
        /\ confirmed' = confirmed
    BY <1>5 DEF EndDeclaration
  <2>2. CASE ~EndWithdraws(d)
    BY <1>2, <1>5, <2>1, <2>2 DEF EndDeclaration
  <2>3. CASE EndWithdraws(d)
    <3>1. d \in DeclarationShape
      BY <1>2 DEF TypeOK, StoreType
    <3>2. d.id - 1 \in 0..MaxSeq /\ subject.id \in 0..2
      BY <3>1, <1>5, Bounds DEF DeclarationShape, Declarations, TypeOK, CallType
    <3>3. settled' = Raise(settled, subject.id, k, d.id - 1)
      BY <1>5, <2>3 DEF EndDeclaration
    <3>4. \/ Withdraw(entries, retained, k)
          \/ UNCHANGED <<entries, retained, auth, ticket>>
      BY <1>5, <2>3 DEF EndDeclaration
    <3> HIDE DEF k, d
    <3>5. \/ /\ entries' = [entries EXCEPT ![k] = None] /\ retained' = [retained EXCEPT ![k] = None]
             /\ ticket' = [ticket EXCEPT ![k] = None] /\ auth' = auth
          \/ UNCHANGED <<entries, retained, auth, ticket>>
      BY <3>4 DEF Withdraw, Without
    <3> QED
      BY <1>2, <2>1, <3>2, <3>3, <3>5
  <2> QED
    BY <2>2, <2>3
<1> QED
  BY <1>3, <1>4, <1>5

LEMMA EndDeclarationType ==
    ASSUME TypeOK, NEW c \in Everyone, EndDeclaration(c)
    PROVE  TypeOK'
<1> USE EndDeclarationStore
<1>1. None \in EntryShape /\ None \in TicketShape /\ None \in DeclarationShape /\ None \in CallShape
  BY DEF EntryShape, TicketShape, DeclarationShape, CallShape
<1>2. /\ calls' = [calls EXCEPT ![c] = None]
      /\ UNCHANGED <<subject, fetchSeq, consent, torn, turns, ended, barred, denied>>
  BY DEF EndDeclaration
<1>3. StoreType'
  <2>1. entries' \in [Keys -> EntryShape] /\ retained' \in [Keys -> EntryShape]
    BY <1>1 DEF TypeOK, StoreType
  <2>2. ticket' \in [Keys -> TicketShape]
    BY <1>1 DEF TypeOK, StoreType
  <2>3. declaring' \in [Keys -> DeclarationShape]
    BY <1>1 DEF TypeOK, StoreType
  <2>4. settled' \in [(1..2) \X Keys -> 0..MaxSeq]
    <3>1. StoreType /\ settled \in [(1..2) \X Keys -> 0..MaxSeq]
      BY DEF TypeOK, StoreType
    <3>2. ASSUME NEW s \in 0..2, NEW k \in Keys, NEW n \in 0..MaxSeq
          PROVE  Raise(settled, s, k, n) \in [(1..2) \X Keys -> 0..MaxSeq]
      BY <3>1, RaiseType
    <3>3. \/ settled' = settled
          \/ \E s \in 0..2, k \in Keys, n \in 0..MaxSeq : settled' = Raise(settled, s, k, n)
      OBVIOUS
    <3> HIDE EndDeclarationStore
    <3> QED
      BY <3>1, <3>2, <3>3
  <2>5. auth' = auth /\ confirmed' = confirmed
    OBVIOUS
  <2> QED
    BY <2>1, <2>2, <2>3, <2>4, <2>5 DEF TypeOK, StoreType
<1>4. CallType'
  <2>1. \A d \in Everyone : calls'[d] = IF d = c THEN None ELSE calls[d]
    BY <1>2 DEF TypeOK, CallType
  <2>2. ASSUME NEW d \in Everyone
        PROVE  /\ At(d, "sent")' => calls'[d].seq > 0
               /\ At(d, "again")' => calls'[d].seq = 0
    BY <2>1, Progress DEF TypeOK, At
  <2> QED
    BY <1>1, <1>2, <2>2 DEF TypeOK, CallType
<1>5. HistType'
  BY <1>2, LostType DEF TypeOK, HistType
<1> QED
  BY <1>3, <1>4, <1>5 DEF TypeOK

-----------------------------------------------------------------------------
(* What an answer does.                                                    *)

\* The cache an answer starts from: lifted out of the auth latch or not.
Base(m, kp) == (m = Lifted /\ kp = Nothing) \/ (m = entries /\ kp = retained)

\* The auth latch after an answer that leaves the epoch alone.
SameEpoch == auth' = auth \/ auth' = [auth EXCEPT !.blocked = FALSE]

\* The five ways an answer o to the call r changes the cache.
Ignores(r, o) ==
    ~WithdrawsOne(r, o) /\ ~WithdrawsAll(r, o) /\ UNCHANGED <<entries, retained, auth>>
Closes(r, o) == ~WithdrawsOne(r, o) /\ WithdrawsAll(r, o) /\ WithdrawAll
Latches(r, o) == ~WithdrawsOne(r, o) /\ ~WithdrawsAll(r, o) /\ Latch
Drops(r, o) ==
    /\ WithdrawsOne(r, o) /\ ~WithdrawsAll(r, o) /\ SameEpoch
    /\ \E m, kp : Base(m, kp) /\ entries' = Without(m, r.key) /\ retained' = Without(kp, r.key)
Serves(r, o, new) ==
    /\ ~WithdrawsOne(r, o) /\ ~WithdrawsAll(r, o) /\ SameEpoch
    /\ \E m, kp : /\ Base(m, kp) /\ retained' = kp
                  /\ \/ entries' = m
                     \/ Installs(r, o) /\ kp = Nothing /\ entries' = [m EXCEPT ![r.key] = new]

LEMMA ApplyCases ==
    ASSUME NEW r, NEW o, NEW new, Apply(r, o, new), auth \in [blocked : BOOLEAN, epoch : Nat],
           o.transient => ~o.all /\ ~o.blocked /\ ~o.drop,
           o.all => o.blocked, o.blocked => ~o.drop, o.new => ~o.keepLatch
    PROVE  /\ \/ Ignores(r, o) \/ Closes(r, o) \/ Latches(r, o) \/ Drops(r, o)
              \/ Serves(r, o, new)
           /\ \/ ticket' = ticket \/ ticket' = Nothing \/ ticket' = [ticket EXCEPT ![r.key] = None]
<1> DEFINE lifts == Fresh(r) /\ ~o.keepLatch
           m     == IF lifts THEN Lifted ELSE entries
           kp    == IF lifts THEN Nothing ELSE retained
           open  == [auth EXCEPT !.blocked = IF lifts THEN FALSE ELSE auth.blocked]
           left  == IF TicketUsed(r) THEN [ticket EXCEPT ![r.key] = None] ELSE ticket
<1>1. Base(m, kp)
  BY DEF Base
<1>2. open = auth \/ open = [auth EXCEPT !.blocked = FALSE]
  OBVIOUS
<1>3. left = ticket \/ left = [ticket EXCEPT ![r.key] = None]
  OBVIOUS
<1>4. CASE ~Admitted(r, o) \/ o.transient
  BY <1>4 DEF Apply, Ignores, WithdrawsOne, WithdrawsAll
<1>5. CASE Admitted(r, o) /\ ~o.transient /\ o.all
  BY <1>5 DEF Apply, Closes, WithdrawsOne, WithdrawsAll, WithdrawAll
<1>6. CASE Admitted(r, o) /\ ~o.transient /\ o.blocked /\ ~o.all
  <2>1. \/ Latch /\ ticket' = left
        \/ UNCHANGED <<entries, retained, ticket, auth>>
    BY <1>6 DEF Apply
  <2> QED
    BY <1>3, <1>6, <2>1 DEF Latches, Ignores, WithdrawsOne, WithdrawsAll
<1>7. CASE Admitted(r, o) /\ ~o.transient /\ o.drop
  <2>1. /\ entries' = [m EXCEPT ![r.key] = None] /\ retained' = Without(kp, r.key)
        /\ ticket' = [ticket EXCEPT ![r.key] = None] /\ auth' = open
    BY <1>7 DEF Apply
  <2> HIDE DEF m, kp, open
  <2> QED
    BY <1>1, <1>2, <1>7, <2>1 DEF Drops, WithdrawsOne, WithdrawsAll, SameEpoch, Without
<1>8. CASE Admitted(r, o) /\ ~o.transient /\ ~o.drop /\ ~o.blocked
  <2>1. \/ UNCHANGED <<entries, retained, ticket, auth>>
        \/ /\ entries' = IF Installs(r, o) THEN [m EXCEPT ![r.key] = new] ELSE m
           /\ retained' = kp /\ ticket' = left /\ auth' = open
    BY <1>8 DEF Apply
  <2>2. Installs(r, o) => kp = Nothing
    BY DEF Installs
  <2> HIDE DEF m, kp, open, left
  <2>3. CASE UNCHANGED <<entries, retained, ticket, auth>>
    BY <1>8, <2>3 DEF Ignores, WithdrawsOne, WithdrawsAll
  <2>4. CASE /\ entries' = IF Installs(r, o) THEN [m EXCEPT ![r.key] = new] ELSE m
             /\ retained' = kp /\ ticket' = left /\ auth' = open
    BY <1>1, <1>2, <1>3, <1>8, <2>2, <2>4 DEF Serves, WithdrawsOne, WithdrawsAll, SameEpoch
  <2> QED
    BY <2>1, <2>3, <2>4
<1> QED
  BY <1>4, <1>5, <1>6, <1>7, <1>8

\* An assignment is installed over the lifted cache.
LEMMA ApplyInstalls ==
    ASSUME StoreType, NEW r, r.key \in Keys, NEW o, NEW new, Apply(r, o, new), Installs(r, o),
           o.new => ~o.blocked /\ ~o.keepLatch /\ ~o.transient /\ ~o.drop, o.all => o.blocked
    PROVE  entries'[r.key] = new /\ retained'[r.key] = None
<1>1. Admitted(r, o) /\ Fresh(r) /\ o.new
  BY DEF Installs
<1>2. entries' = [Lifted EXCEPT ![r.key] = new] /\ retained' = Nothing
  BY <1>1 DEF Apply
<1> QED
  BY <1>2 DEF Lifted, Nothing

\* settleExperimentFetch's effect on the cache, with o for what the answer
\* means and new for the assignment it carries.
SettleStep(c, r, o, new) ==
    /\ calls[c] = r /\ r \in CallRecord /\ r.seq > 0 /\ ~torn
    /\ Installs(r, o) => /\ new \in EntryShape /\ new.seq = r.seq
                         /\ entries'[r.key] = new /\ retained'[r.key] = None
    /\ \/ Ignores(r, o) \/ Closes(r, o) \/ Latches(r, o) \/ Drops(r, o) \/ Serves(r, o, new)
    /\ \/ ticket' = ticket \/ ticket' = Nothing \/ ticket' = [ticket EXCEPT ![r.key] = None]
    /\ (o.drop => ~o.transient) /\ (o.new => ~o.blocked /\ ~o.transient)
    /\ (o.all => o.blocked /\ ~o.transient) /\ told' = Told(r, o, new)
    /\ settled' = Fence(r, o)
    /\ confirmed' = Confirmed(r, o) /\ declaring' = Decided(r, o)
    /\ ended' = IF WithdrawsOne(r, o) THEN [ended EXCEPT ![r.key] = Larger(@, r.seq)] ELSE ended
    /\ barred' = IF WithdrawsAll(r, o) THEN fetchSeq ELSE barred
    /\ Return(c)
    /\ UNCHANGED <<subject, fetchSeq, consent, torn, turns, age, denied>>

LEMMA Settles ==
    ASSUME TypeOK, NEW c \in Everyone, NEW a \in Answers, Settle(c, a)
    PROVE  \E o, new : SettleStep(c, calls[c], o, new)
<1> DEFINE r == calls[c]
           o == IF Remints(r, a) THEN Outcome([kind |-> "ended"]) ELSE Outcome(a)
           new == IF o.new
                    THEN [seq |-> r.seq, subj |-> subject.id, gated |-> a.gated, band |-> r.band]
                    ELSE None
<1>1. At(c, "sent") /\ Apply(r, o, new)
  BY DEF Settle
<1>2. r # None /\ r \in CallRecord /\ r.seq \in 0..MaxSeq /\ r.band \in Bands
  BY <1>1, CallThere
<1>3. r.seq > 0
  BY <1>1, Progress DEF TypeOK
<1>4. /\ o.transient => ~o.all /\ ~o.blocked /\ ~o.drop
      /\ o.all => o.blocked
      /\ o.blocked => ~o.drop
      /\ o.new => ~o.blocked /\ ~o.keepLatch /\ ~o.transient /\ ~o.drop
  BY DEF Outcome
<1>5. ~torn
  BY DEF Settle
<1>6. /\ settled' = Fence(r, o)
      /\ confirmed' = Confirmed(r, o) /\ declaring' = Decided(r, o)
      /\ ended' = IF WithdrawsOne(r, o) THEN [ended EXCEPT ![r.key] = Larger(@, r.seq)] ELSE ended
      /\ barred' = IF WithdrawsAll(r, o) THEN fetchSeq ELSE barred
      /\ Return(c) /\ told' = Told(r, o, new)
      /\ UNCHANGED <<subject, fetchSeq, consent, torn, turns, age, denied>>
  BY DEF Settle
<1>7. o.new => a \in [kind : {"assigned"}, gated : BOOLEAN]
  BY DEF Outcome, Answers
<1>8. auth \in [blocked : BOOLEAN, epoch : Nat]
  BY DEF TypeOK, StoreType
<1>9. Installs(r, o) => new \in EntryShape /\ new.seq = r.seq
  <2>1. SUFFICES ASSUME Installs(r, o) PROVE new \in EntryShape /\ new.seq = r.seq
    OBVIOUS
  <2>2. o.new /\ subject.id # 0
    BY <2>1 DEF Installs, Admitted, Current
  <2>3. new = [seq |-> r.seq, subj |-> subject.id, gated |-> a.gated, band |-> r.band]
    BY <2>2
  <2>4. a.gated \in BOOLEAN
    BY <2>2, <1>7
  <2>5. subject.id \in 1..2
    BY <2>2 DEF TypeOK, CallType
  <2>6. r.seq \in 1..MaxSeq
    BY <1>2, <1>3, Bounds
  <2> HIDE DEF r, o, new
  <2> QED
    BY <2>3, <2>4, <2>5, <2>6, <1>2 DEF EntryShape
<1> HIDE DEF o, new
<1>10. /\ \/ Ignores(r, o) \/ Closes(r, o) \/ Latches(r, o) \/ Drops(r, o) \/ Serves(r, o, new)
       /\ \/ ticket' = ticket \/ ticket' = Nothing \/ ticket' = [ticket EXCEPT ![r.key] = None]
  BY <1>1, <1>4, <1>8, ApplyCases
<1>11. Installs(r, o) => entries'[r.key] = new /\ retained'[r.key] = None
  <2>1. r.key \in Keys
    BY <1>1, CallThere
  <2> HIDE DEF r
  <2> QED
    BY <1>1, <1>4, <2>1, ApplyInstalls DEF TypeOK
<1>12. SettleStep(c, r, o, new)
  BY <1>2, <1>3, <1>4, <1>5, <1>6, <1>9, <1>10, <1>11 DEF SettleStep
<1> QED
  BY <1>12

LEMMA LiftedCache ==
    ASSUME StoreType
    PROVE  /\ Lifted \in [Keys -> EntryShape] /\ Nothing \in [Keys -> EntryShape]
           /\ \A k \in Keys : Lifted[k] \in {entries[k], retained[k]} /\ Nothing[k] = None
<1>1. /\ entries \in [Keys -> EntryShape] /\ retained \in [Keys -> EntryShape]
      /\ None \in EntryShape
  BY DEF StoreType, EntryShape
<1> QED
  BY <1>1 DEF Lifted, Nothing

LEMMA BaseCache ==
    ASSUME StoreType, NEW m, NEW kp, Base(m, kp)
    PROVE  /\ m \in [Keys -> EntryShape] /\ kp \in [Keys -> EntryShape]
           /\ \A k \in Keys : m[k] \in {entries[k], retained[k]}
           /\ \A k \in Keys : kp[k] \in {None, retained[k]}
<1>1. entries \in [Keys -> EntryShape] /\ retained \in [Keys -> EntryShape]
  BY DEF StoreType
<1> QED
  BY <1>1, LiftedCache DEF Base

\* Each key of the cache after an answer: what was cached or retained, or the
\* assignment just installed.
LEMMA SettledCache ==
    ASSUME TypeOK, NEW c \in Everyone, NEW r, NEW o, NEW new, SettleStep(c, r, o, new)
    PROVE  /\ entries' \in [Keys -> EntryShape] /\ retained' \in [Keys -> EntryShape]
           /\ \A k \in Keys : \/ entries'[k] \in {None, entries[k], retained[k]}
                              \/ k = r.key /\ Installs(r, o) /\ entries'[k] = new
           /\ \A k \in Keys : retained'[k] \in {None, entries[k], retained[k]}
<1>1. /\ entries \in [Keys -> EntryShape] /\ retained \in [Keys -> EntryShape]
      /\ None \in EntryShape
  BY DEF TypeOK, StoreType, EntryShape
<1>2. r.key \in Keys /\ (Installs(r, o) => new \in EntryShape)
  BY DEF SettleStep, CallRecord
<1>3. /\ Lifted \in [Keys -> EntryShape] /\ Nothing \in [Keys -> EntryShape]
      /\ \A k \in Keys : Lifted[k] \in {entries[k], retained[k]} /\ Nothing[k] = None
  BY LiftedCache DEF TypeOK
<1>4. CASE Ignores(r, o)
  <2>1. entries' = entries /\ retained' = retained
    BY <1>4 DEF Ignores
  <2> QED
    BY <1>1, <2>1
<1>5. CASE Closes(r, o)
  <2>1. entries' = Nothing /\ retained' = Nothing
    BY <1>5 DEF Closes, WithdrawAll
  <2> QED
    BY <1>3, <2>1
<1>6. CASE Latches(r, o)
  <2>1. entries' = Nothing /\ retained' = Lifted
    BY <1>6 DEF Latches, Latch, Emptied
  <2> QED
    BY <1>3, <2>1
<1>7. CASE Drops(r, o)
  <2>1. PICK m, kp : Base(m, kp) /\ entries' = [m EXCEPT ![r.key] = None]
                                /\ retained' = [kp EXCEPT ![r.key] = None]
    BY <1>7 DEF Drops, Without
  <2>2. /\ m \in [Keys -> EntryShape] /\ kp \in [Keys -> EntryShape]
        /\ \A k \in Keys : m[k] \in {entries[k], retained[k]}
        /\ \A k \in Keys : kp[k] \in {None, retained[k]}
    BY <2>1, BaseCache DEF TypeOK
  <2>3. entries' \in [Keys -> EntryShape] /\ retained' \in [Keys -> EntryShape]
    BY <1>1, <2>1, <2>2
  <2>4. \A k \in Keys : entries'[k] \in {None, m[k]} /\ retained'[k] \in {None, kp[k]}
    BY <2>1, <2>2
  <2> QED
    BY <2>2, <2>3, <2>4
<1>8. CASE Serves(r, o, new)
  <2>1. PICK m, kp : /\ Base(m, kp) /\ retained' = kp
                     /\ \/ entries' = m
                        \/ Installs(r, o) /\ entries' = [m EXCEPT ![r.key] = new]
    BY <1>8 DEF Serves
  <2>2. /\ m \in [Keys -> EntryShape] /\ kp \in [Keys -> EntryShape]
        /\ \A k \in Keys : m[k] \in {entries[k], retained[k]}
        /\ \A k \in Keys : kp[k] \in {None, retained[k]}
    BY <2>1, BaseCache DEF TypeOK
  <2>3. CASE entries' = m
    BY <2>1, <2>2, <2>3
  <2>4. CASE Installs(r, o) /\ entries' = [m EXCEPT ![r.key] = new]
    <3>1. entries' \in [Keys -> EntryShape]
      BY <1>2, <2>2, <2>4
    <3>2. \A k \in Keys : entries'[k] = m[k] \/ (k = r.key /\ entries'[k] = new)
      BY <1>2, <2>2, <2>4
    <3> QED
      BY <2>1, <2>2, <2>4, <3>1, <3>2
  <2> QED
    BY <2>1, <2>3, <2>4
<1> QED
  BY <1>4, <1>5, <1>6, <1>7, <1>8 DEF SettleStep

\* A withdrawal leaves nothing of what it withdraws, cached or retained; the
\* auth epoch only grows, and the sentinel makes it grow.
LEMMA SettledAuth ==
    ASSUME TypeOK, NEW c \in Everyone, NEW r, NEW o, NEW new, SettleStep(c, r, o, new)
    PROVE  /\ WithdrawsOne(r, o) => entries'[r.key] = None /\ retained'[r.key] = None
           /\ WithdrawsAll(r, o) => /\ entries' = Nothing /\ retained' = Nothing
                                    /\ auth'.epoch = auth.epoch + 1
           /\ auth' \in [blocked : BOOLEAN, epoch : Nat]
           /\ auth'.epoch = auth.epoch \/ auth'.epoch = auth.epoch + 1
<1>1. auth \in [blocked : BOOLEAN, epoch : Nat] /\ r.key \in Keys
  BY DEF TypeOK, StoreType, SettleStep, CallRecord
<1>2. SameEpoch => auth' \in [blocked : BOOLEAN, epoch : Nat] /\ auth'.epoch = auth.epoch
  BY <1>1 DEF SameEpoch
<1>3. auth' = [blocked |-> TRUE, epoch |-> auth.epoch + 1] =>
         auth' \in [blocked : BOOLEAN, epoch : Nat] /\ auth'.epoch = auth.epoch + 1
  BY <1>1
<1>4. CASE Ignores(r, o)
  BY <1>1, <1>4 DEF Ignores
<1>5. CASE Closes(r, o)
  BY <1>3, <1>5 DEF Closes, WithdrawAll
<1>6. CASE Latches(r, o)
  BY <1>3, <1>6 DEF Latches, Latch
<1>7. CASE Drops(r, o)
  <2>1. PICK m, kp : Base(m, kp) /\ entries' = [m EXCEPT ![r.key] = None]
                                /\ retained' = [kp EXCEPT ![r.key] = None]
    BY <1>7 DEF Drops, Without
  <2>2. m \in [Keys -> EntryShape] /\ kp \in [Keys -> EntryShape]
    BY <2>1, BaseCache DEF TypeOK
  <2>3. entries'[r.key] = None /\ retained'[r.key] = None
    BY <1>1, <2>1, <2>2
  <2>4. SameEpoch /\ ~WithdrawsAll(r, o)
    BY <1>7 DEF Drops
  <2> QED
    BY <1>2, <2>3, <2>4
<1>8. CASE Serves(r, o, new)
  BY <1>2, <1>8 DEF Serves
<1> QED
  BY <1>4, <1>5, <1>6, <1>7, <1>8 DEF SettleStep

LEMMA SettleType ==
    ASSUME TypeOK, NEW c \in Everyone, NEW a \in Answers, Settle(c, a)
    PROVE  TypeOK'
<1>1. PICK o, new : SettleStep(c, calls[c], o, new)
  BY Settles
<1> DEFINE r == calls[c]
<1>2. /\ r \in CallRecord /\ r.key \in Keys /\ r.seq \in 0..MaxSeq /\ r.subj \in 0..2
  BY <1>1 DEF SettleStep, CallRecord
<1>3. At(c, "sent") /\ calls[c] # None
  BY DEF Settle, At
<1> HIDE DEF r
<1>4. StoreType'
  <2>1. /\ entries' \in [Keys -> EntryShape] /\ retained' \in [Keys -> EntryShape]
        /\ auth' \in [blocked : BOOLEAN, epoch : Nat]
    BY <1>1, SettledCache, SettledAuth
  <2>2. settled' \in [(1..2) \X Keys -> 0..MaxSeq]
    <3>1. settled' = settled \/ settled' = Raise(settled, r.subj, r.key, r.seq)
      BY <1>1 DEF SettleStep, Fence, r
    <3>2. StoreType /\ settled \in [(1..2) \X Keys -> 0..MaxSeq]
      BY DEF TypeOK, StoreType
    <3>3. Raise(settled, r.subj, r.key, r.seq) \in [(1..2) \X Keys -> 0..MaxSeq]
      BY <1>2, <3>2, RaiseType
    <3> QED
      BY <3>1, <3>2, <3>3
  <2>3. declaring' \in [Keys -> DeclarationShape]
    <3>1. \/ declaring' = declaring
          \/ declaring[r.key] # None /\ declaring' = [declaring EXCEPT ![r.key].decided = TRUE]
      BY <1>1 DEF SettleStep, Decided, r
    <3>2. declaring[r.key] # None => [declaring[r.key] EXCEPT !.decided = TRUE] \in DeclarationShape
      BY <1>2 DEF TypeOK, StoreType, DeclarationShape, Declarations
    <3> QED
      BY <3>1, <3>2, <1>2 DEF TypeOK, StoreType
  <2>4. confirmed' \in SUBSET Keys
    <3>1. confirmed' = {} \/ confirmed' = confirmed \/ confirmed' = confirmed \union {r.key}
      BY <1>1 DEF SettleStep, Confirmed, r
    <3> QED
      BY <3>1, <1>2 DEF TypeOK, StoreType
  <2>5. ticket' \in [Keys -> TicketShape]
    <3>1. ticket' = ticket \/ ticket' = Nothing \/ ticket' = [ticket EXCEPT ![r.key] = None]
      BY <1>1 DEF SettleStep, r
    <3> QED
      BY <3>1, <1>2 DEF TypeOK, StoreType, TicketShape, Nothing
  <2> QED
    BY <2>1, <2>2, <2>3, <2>4, <2>5 DEF StoreType
<1>5. CallType'
  <2>1. Return(c) /\ UNCHANGED <<subject, fetchSeq, consent, torn>>
    BY <1>1 DEF SettleStep
  <2>2. consent' \in [granted : BOOLEAN, epoch : Nat]
    BY <2>1 DEF TypeOK, CallType
  <2> QED
    BY <1>3, <2>1, <2>2, ReturnType DEF TypeOK
<1>6. HistType'
  <2>1. /\ ended' = ended \/ ended' = [ended EXCEPT ![r.key] = Larger(ended[r.key], r.seq)]
        /\ barred' = barred \/ barred' = fetchSeq
        /\ UNCHANGED <<turns, age, denied>>
    BY <1>1 DEF SettleStep, r
  <2>2. ended[r.key] \in 0..MaxSeq /\ fetchSeq \in 0..MaxSeq
    BY <1>2 DEF TypeOK, HistType, CallType
  <2>3. Larger(ended[r.key], r.seq) \in 0..MaxSeq
    BY <1>2, <2>2, Bounds DEF Larger
  <2> QED
    BY <2>1, <2>2, <2>3 DEF TypeOK, HistType
<1> QED
  BY <1>4, <1>5, <1>6 DEF TypeOK

LEMMA TurnType == ASSUME HistType, Turn PROVE turns' \in 0..MaxTurns
BY Bounds DEF HistType, Turn

LEMMA ConsentType ==
    ASSUME CallType
    PROVE  /\ consent \in [granted : BOOLEAN, epoch : Nat]
           /\ \A g \in BOOLEAN : [granted |-> g, epoch |-> consent.epoch + 1]
                                    \in [granted : BOOLEAN, epoch : Nat]
           /\ \A g \in BOOLEAN : [granted |-> g, epoch |-> consent.epoch]
                                    \in [granted : BOOLEAN, epoch : Nat]
BY DEF CallType

LEMMA WithdrawAllType ==
    ASSUME StoreType, WithdrawAll, UNCHANGED <<settled, declaring>>, confirmed' \in SUBSET Keys
    PROVE  StoreType'
<1>1. None \in EntryShape /\ None \in TicketShape
  BY DEF EntryShape, TicketShape
<1>2. auth' \in [blocked : BOOLEAN, epoch : Nat]
  BY DEF WithdrawAll, StoreType
<1>3. /\ entries' \in [Keys -> EntryShape] /\ retained' \in [Keys -> EntryShape]
      /\ ticket' \in [Keys -> TicketShape]
  BY <1>1 DEF WithdrawAll, Nothing
<1> QED
  BY <1>2, <1>3 DEF StoreType

LEMMA WithdrawType ==
    ASSUME StoreType, NEW k \in Keys, Withdraw(entries, retained, k),
           UNCHANGED <<settled, declaring, confirmed>>
    PROVE  StoreType'
<1>1. None \in EntryShape /\ None \in TicketShape
  BY DEF EntryShape, TicketShape
<1>2. /\ entries' \in [Keys -> EntryShape] /\ retained' \in [Keys -> EntryShape]
      /\ ticket' \in [Keys -> TicketShape]
  BY <1>1 DEF Withdraw, Without, StoreType
<1> QED
  BY <1>2 DEF StoreType, Withdraw

\* A call's own actions.
LEMMA CallStepType ==
    ASSUME TypeOK, NEW c \in Everyone,
           Refuse(c) \/ Abandon(c) \/ RemintRevoked(c) \/ SettleTorn(c)
    PROVE  TypeOK'
<1>1. calls[c] # None
  BY DEF Refuse, Abandon, RemintRevoked, SettleTorn, At
<1>2. CASE Refuse(c) \/ Abandon(c) \/ SettleTorn(c)
  <2>1. Return(c) /\ UNCHANGED <<store, subject, fetchSeq, consent, torn, turns, hist>>
    BY <1>2 DEF Refuse, Abandon, SettleTorn
  <2>2. consent' \in [granted : BOOLEAN, epoch : Nat]
    BY <2>1, ConsentType DEF TypeOK
  <2> QED
    BY <1>1, <2>1, <2>2, ReturnType, StoreKept, HistKept DEF TypeOK
<1>3. CASE RemintRevoked(c)
  <2>1. /\ Return(c) /\ Turn /\ consent' = [granted |-> FALSE, epoch |-> consent.epoch + 1]
        /\ denied' = fetchSeq /\ UNCHANGED <<store, subject, fetchSeq, torn, ended, barred, age>>
    BY <1>3 DEF RemintRevoked
  <2>2. consent' \in [granted : BOOLEAN, epoch : Nat]
    BY <2>1, ConsentType DEF TypeOK
  <2>3. CallType'
    BY <1>1, <2>1, <2>2, ReturnType DEF TypeOK
  <2>4. turns' \in 0..MaxTurns
    BY <2>1, TurnType DEF TypeOK
  <2>5. HistType'
    BY <2>1, <2>4 DEF TypeOK, HistType, CallType
  <2> QED
    BY <2>1, <2>3, <2>5, StoreKept DEF TypeOK
<1> QED
  BY <1>2, <1>3

\* The environment's actions.
LEMMA OutsideType ==
    ASSUME TypeOK,
           \/ \E grant \in BOOLEAN : SetConsent(grant)
           \/ \E k \in Keys : ApplyAgeRefused(k) \/ ApplyConflict(k)
           \/ ApplySentinel
           \/ Teardown
    PROVE  TypeOK'
<1>1. ASSUME NEW grant \in BOOLEAN, SetConsent(grant) PROVE TypeOK'
  <2>1. /\ UNCHANGED <<store, subject, fetchSeq, torn, calls, ended, barred, age>>
        /\ denied' = denied \/ denied' = fetchSeq
        /\ consent' = [granted |-> grant, epoch |-> consent.epoch]
           \/ consent' = [granted |-> grant, epoch |-> consent.epoch + 1]
        /\ turns' = turns \/ Turn
    BY <1>1 DEF SetConsent
  <2>2. consent' \in [granted : BOOLEAN, epoch : Nat]
    BY <2>1, ConsentType DEF TypeOK
  <2>3. CallType'
    BY <2>1, <2>2 DEF TypeOK, CallType, At
  <2>4. turns' \in 0..MaxTurns
    BY <2>1, TurnType DEF TypeOK, HistType
  <2>5. HistType'
    BY <2>1, <2>4 DEF TypeOK, HistType, CallType
  <2> QED
    BY <2>1, <2>3, <2>5, StoreKept DEF TypeOK
<1>2. ASSUME NEW k \in Keys, ApplyAgeRefused(k) PROVE TypeOK'
  <2>1. /\ Withdraw(entries, retained, k) /\ Turn
        /\ UNCHANGED <<settled, declaring, confirmed, subject, fetchSeq, consent, torn, calls, hist>>
    BY <1>2 DEF ApplyAgeRefused
  <2>2. StoreType'
    BY <2>1, WithdrawType DEF TypeOK
  <2>3. turns' \in 0..MaxTurns
    BY <2>1, TurnType DEF TypeOK
  <2>4. HistType'
    BY <2>1, <2>3 DEF TypeOK, HistType, hist
  <2> QED
    BY <2>1, <2>2, <2>4, CallKept DEF TypeOK
<1>3. ASSUME NEW k \in Keys, ApplyConflict(k) PROVE TypeOK'
  <2> DEFINE t == [subj |-> subject.id, band |-> "adult", after |-> fetchSeq]
  <2>1. /\ ticket' = [ticket EXCEPT ![k] = t] /\ Turn /\ subject.id # 0
        /\ UNCHANGED <<entries, retained, settled, auth, declaring, confirmed, subject, fetchSeq,
                       consent, torn, calls, hist>>
    BY <1>3 DEF ApplyConflict
  <2>2. t \in TicketShape
    <3>1. subject.id \in 1..2 /\ fetchSeq \in 0..MaxSeq
      BY <2>1 DEF TypeOK, CallType
    <3> QED
      BY <3>1 DEF TicketShape, Bands
  <2>3. StoreType'
    BY <2>1, <2>2 DEF TypeOK, StoreType
  <2>4. turns' \in 0..MaxTurns
    BY <2>1, TurnType DEF TypeOK
  <2>5. HistType'
    BY <2>1, <2>4 DEF TypeOK, HistType, hist
  <2> QED
    BY <2>1, <2>3, <2>5, CallKept DEF TypeOK
<1>4. ASSUME ApplySentinel PROVE TypeOK'
  <2>1. /\ WithdrawAll /\ Turn /\ confirmed' = {} /\ barred' = fetchSeq
        /\ UNCHANGED <<settled, declaring, subject, fetchSeq, consent, torn, calls, ended, age,
                       denied>>
    BY <1>4 DEF ApplySentinel
  <2>2. StoreType'
    BY <2>1, WithdrawAllType DEF TypeOK
  <2>3. turns' \in 0..MaxTurns
    BY <2>1, TurnType DEF TypeOK
  <2>4. HistType'
    BY <2>1, <2>3 DEF TypeOK, HistType, CallType
  <2> QED
    BY <2>1, <2>2, <2>4, CallKept DEF TypeOK
<1>5. ASSUME Teardown PROVE TypeOK'
  <2>1. /\ Turn /\ torn' = TRUE
        /\ UNCHANGED <<store, subject, fetchSeq, consent, calls, hist>>
    BY <1>5 DEF Teardown
  <2>2. CallType'
    BY <2>1 DEF TypeOK, CallType, At
  <2>3. turns' \in 0..MaxTurns
    BY <2>1, TurnType DEF TypeOK
  <2>4. HistType'
    BY <2>1, <2>3 DEF TypeOK, HistType, hist
  <2> QED
    BY <2>1, <2>2, <2>4, StoreKept DEF TypeOK
<1> QED
  BY <1>1, <1>2, <1>3, <1>4, <1>5

LEMMA TypeStep == TypeOK /\ [Next]_vars => TypeOK'
<1> SUFFICES ASSUME TypeOK, [Next]_vars PROVE TypeOK'
  OBVIOUS
<1>1. CASE UNCHANGED vars
  BY <1>1, StoreKept, CallKept, HistKept DEF vars, TypeOK
<1>2. CASE \E c \in Calls, k \in Keys, band \in HostBands : BeginHost(c, k, band)
  BY <1>2, BeginHostType
<1>3. CASE \E k \in Keys : BeginRevalidation(k)
  BY <1>3, BeginRevalidationType
<1>4. CASE \E c \in Everyone : Refuse(c) \/ Abandon(c) \/ RemintRevoked(c) \/ SettleTorn(c)
  BY <1>4, CallStepType
<1>5. CASE \E c \in Everyone : Dispatch(c)
  BY <1>5, DispatchType
<1>6. CASE \E c \in Everyone : Remint(c)
  BY <1>6, RemintType
<1>7. CASE \E c \in Everyone : Reenter(c)
  BY <1>7, ReenterType
<1>8. CASE \E c \in Everyone : EndDeclaration(c)
  BY <1>8, EndDeclarationType
<1>9. CASE \E c \in Everyone, a \in Answers : Settle(c, a)
  BY <1>9, SettleType
<1>10. CASE \/ \E grant \in BOOLEAN : SetConsent(grant)
            \/ \E k \in Keys : ApplyAgeRefused(k) \/ ApplyConflict(k)
            \/ ApplySentinel
            \/ Teardown
  BY <1>10, OutsideType
<1> QED
  BY <1>1, <1>2, <1>3, <1>4, <1>5, <1>6, <1>7, <1>8, <1>9, <1>10 DEF Next

\* Every variable keeps its type: the sequence numbers stay within their
\* bound, a request under way has one, and a subject is re-minted once.
THEOREM TypeCorrect == Spec => []TypeOK
BY TypeInit, TypeStep, PTL DEF Spec

-----------------------------------------------------------------------------
(* What was withdrawn stays withdrawn.                                     *)

\* No call of this step gets a number: those that have one keep it, their
\* experiment and their epochs.
NoneNumbered ==
    \A d \in Everyone : calls'[d] # None =>
       /\ calls'[d].auth <= auth'.epoch /\ calls'[d].epoch <= consent'.epoch
       /\ \/ calls'[d].seq = 0
          \/ /\ calls[d] # None /\ calls'[d].seq = calls[d].seq /\ calls'[d].key = calls[d].key
             /\ calls'[d].auth = calls[d].auth /\ calls'[d].epoch = calls[d].epoch

\* Nothing new is cached.
NoneCached ==
    \A k \in Keys : /\ entries'[k] \in {None, entries[k], retained[k]}
                    /\ retained'[k] \in {None, entries[k], retained[k]}

EpochsGrow == auth'.epoch >= auth.epoch /\ consent'.epoch >= consent.epoch

\* A sentinel takes the whole cache and opens an auth epoch, a denial opens a
\* consent epoch.
Marks ==
    /\ \/ barred' = barred
       \/ /\ barred' = fetchSeq /\ auth'.epoch > auth.epoch
          /\ entries' = Nothing /\ retained' = Nothing
    /\ denied' = denied \/ (denied' = fetchSeq /\ consent'.epoch > consent.epoch)

\* A step that neither numbers a call nor caches an assignment.
Quiet ==
    /\ NoneNumbered /\ NoneCached /\ EpochsGrow /\ Marks
    /\ fetchSeq' = fetchSeq /\ ended' = ended /\ (subject' = subject \/ subject.id = 0)
    /\ \A x \in (1..2) \X Keys : settled'[x] >= settled[x]

CacheInv == NumberInv /\ FenceInv /\ BarInv /\ NoRevival

\* The numbers the invariants compare.
Numeric ==
    /\ fetchSeq \in Nat /\ auth.epoch \in Nat /\ consent.epoch \in Nat /\ barred \in Nat
    /\ denied \in Nat /\ subject.id \in 0..2
    /\ \A k \in Keys : ended[k] \in Nat
    /\ \A x \in (1..2) \X Keys : settled[x] \in Nat
    /\ \A c \in Everyone : calls[c] # None =>
          /\ calls[c].key \in Keys /\ calls[c].seq \in Nat /\ calls[c].auth \in Nat
          /\ calls[c].epoch \in Nat

LEMMA Numbers == TypeOK => Numeric
<1> SUFFICES ASSUME TypeOK PROVE Numeric
  OBVIOUS
<1>1. /\ fetchSeq \in Nat /\ auth.epoch \in Nat /\ consent.epoch \in Nat /\ barred \in Nat
      /\ denied \in Nat /\ subject.id \in 0..2
  BY Bounds DEF TypeOK, StoreType, CallType, HistType
<1>2. \A k \in Keys : ended[k] \in Nat
  BY Bounds DEF TypeOK, HistType
<1>3. \A x \in (1..2) \X Keys : settled[x] \in Nat
  BY Bounds DEF TypeOK, StoreType
<1>4. ASSUME NEW c \in Everyone, calls[c] # None
      PROVE  /\ calls[c].key \in Keys /\ calls[c].seq \in Nat /\ calls[c].auth \in Nat
             /\ calls[c].epoch \in Nat
  BY <1>4, CallFields, Bounds DEF TypeOK, CallRecord
<1> QED
  BY <1>1, <1>2, <1>3, <1>4 DEF Numeric

LEMMA NumbersNext == TypeOK' => Numeric'
BY Numbers, PTL

LEMMA QuietNumberInv ==
    ASSUME TypeOK, TypeOK', NumberInv, NoneNumbered, EpochsGrow,
           fetchSeq' = fetchSeq, \A k \in Keys : ended'[k] <= fetchSeq,
           barred' \in {barred, fetchSeq}, denied' \in {denied, fetchSeq}
    PROVE  NumberInv'
<1>1. /\ fetchSeq \in Nat /\ auth.epoch \in Nat /\ auth'.epoch \in Nat
      /\ \A c \in Everyone : calls'[c] # None => calls'[c].seq \in Nat /\ calls'[c].auth \in Nat
      /\ \A c \in Everyone : calls[c] # None => calls[c].seq \in Nat /\ calls[c].auth \in Nat
  BY Numbers, NumbersNext DEF Numeric
<1>2. barred' <= fetchSeq' /\ denied' <= fetchSeq' /\ \A k \in Keys : ended'[k] <= fetchSeq'
  BY <1>1 DEF NumberInv
<1>3. ASSUME NEW c \in Everyone, calls'[c] # None
      PROVE  /\ calls'[c].seq <= fetchSeq' /\ calls'[c].auth <= auth'.epoch
             /\ calls'[c].epoch <= consent'.epoch
  BY <1>1, <1>3 DEF NumberInv, NoneNumbered
<1>4. ASSUME NEW c \in Everyone, Numbered(c)'
      PROVE  /\ Numbered(c) /\ calls'[c].seq = calls[c].seq /\ calls'[c].auth = calls[c].auth
  BY <1>1, <1>4 DEF Numbered, NoneNumbered
<1>5. ASSUME NEW c \in Everyone, NEW d \in Everyone, Numbered(c)', Numbered(d)',
             calls'[c].seq <= calls'[d].seq
      PROVE  calls'[c].auth <= calls'[d].auth
  BY <1>4, <1>5 DEF NumberInv
<1> QED
  BY <1>2, <1>3, <1>5 DEF NumberInv

LEMMA QuietFenceInv ==
    ASSUME TypeOK, TypeOK', FenceInv, NoneNumbered, EpochsGrow, ended' = ended,
           subject' = subject \/ subject.id = 0,
           \A x \in (1..2) \X Keys : settled'[x] >= settled[x]
    PROVE  FenceInv'
<1> USE Numbers, NumbersNext DEF Numeric
<1>1. ASSUME NEW c \in Everyone, Numbered(c)', calls'[c].seq <= ended'[calls'[c].key]
      PROVE  \/ calls'[c].seq <= settled'[<<subject'.id, calls'[c].key>>]
             \/ calls'[c].auth < auth'.epoch
  <2>1. /\ Numbered(c) /\ calls[c] # None /\ calls'[c].seq = calls[c].seq
        /\ calls'[c].auth = calls[c].auth /\ calls'[c].key = calls[c].key
    BY <1>1 DEF Numbered, NoneNumbered
  <2>2. \/ calls[c].seq <= settled[<<subject.id, calls[c].key>>]
        \/ calls[c].auth < auth.epoch
    BY <1>1, <2>1 DEF FenceInv
  <2>3. calls[c].key \in Keys /\ calls[c].seq \in Nat /\ calls[c].auth \in Nat
    BY <2>1
  <2>4. subject.id # 0
    BY <1>1, <2>1, <2>3 DEF FenceInv, Numbered
  <2>5. <<subject.id, calls[c].key>> \in (1..2) \X Keys
    BY <2>3, <2>4
  <2>6. settled'[<<subject.id, calls[c].key>>] >= settled[<<subject.id, calls[c].key>>]
    BY <2>5
  <2>7. /\ settled[<<subject.id, calls[c].key>>] \in Nat /\ auth.epoch \in Nat
        /\ settled'[<<subject.id, calls[c].key>>] \in Nat /\ auth'.epoch \in Nat
    BY <2>5
  <2> HIDE DEF Numeric
  <2>8. subject' = subject
    BY <2>4
  <2> QED
    BY <2>1, <2>2, <2>3, <2>6, <2>7, <2>8 DEF EpochsGrow
<1>2. subject'.id = 0 => \A k \in Keys : ended'[k] = 0
  BY DEF FenceInv
<1> QED
  BY <1>1, <1>2 DEF FenceInv

LEMMA QuietBarInv ==
    ASSUME TypeOK, TypeOK', NumberInv, BarInv, NoneNumbered, EpochsGrow, Marks
    PROVE  BarInv'
<1> USE Numbers, NumbersNext DEF Numeric
<1>1. SUFFICES ASSUME NEW c \in Everyone, Numbered(c)'
               PROVE  /\ calls'[c].seq <= barred' => calls'[c].auth < auth'.epoch
                      /\ calls'[c].seq <= denied' => calls'[c].epoch < consent'.epoch
  BY DEF BarInv
<1>2. /\ Numbered(c) /\ calls[c] # None /\ calls'[c].seq = calls[c].seq
      /\ calls'[c].auth = calls[c].auth /\ calls'[c].epoch = calls[c].epoch
  BY <1>1 DEF Numbered, NoneNumbered
<1>3. /\ calls[c].seq <= barred => calls[c].auth < auth.epoch
      /\ calls[c].seq <= denied => calls[c].epoch < consent.epoch
  BY <1>2 DEF BarInv
<1>4. calls[c].auth <= auth.epoch /\ calls[c].epoch <= consent.epoch
  BY <1>2 DEF NumberInv
<1>5. /\ calls[c].auth \in Nat /\ calls[c].epoch \in Nat /\ calls[c].seq \in Nat
      /\ auth.epoch \in Nat /\ auth'.epoch \in Nat
      /\ consent.epoch \in Nat /\ consent'.epoch \in Nat
  BY <1>2
<1> HIDE DEF Numeric
<1>6. calls'[c].seq <= barred' => calls'[c].auth < auth'.epoch
  BY <1>2, <1>3, <1>4, <1>5 DEF EpochsGrow, Marks
<1>7. calls'[c].seq <= denied' => calls'[c].epoch < consent'.epoch
  BY <1>2, <1>3, <1>4, <1>5 DEF EpochsGrow, Marks
<1> QED
  BY <1>6, <1>7

LEMMA QuietNoRevival ==
    ASSUME NoRevival, NoneCached, Marks, \A k \in Keys : ended'[k] = ended[k] \/ ended'[k] = 0,
           TypeOK, TypeOK'
    PROVE  NoRevival'
<1>1. SUFFICES ASSUME NEW k \in Keys, NEW e \in {entries'[k], retained'[k]}, e # None
               PROVE  e.seq > ended'[k] /\ e.seq > barred'
  BY DEF NoRevival
<1>2. e \in {entries[k], retained[k]}
  BY <1>1 DEF NoneCached
<1>3. e.seq > ended[k] /\ e.seq > barred
  BY <1>1, <1>2 DEF NoRevival
<1>4. barred' = barred
  BY <1>1 DEF Marks, Nothing
<1>5. e.seq > 0
  <2>1. e \in [seq : 1..MaxSeq, subj : 1..2, gated : BOOLEAN, band : Bands]
    BY <1>1, <1>2 DEF TypeOK, StoreType, EntryShape
  <2> QED
    BY <2>1, Bounds
<1> QED
  BY <1>3, <1>4, <1>5

LEMMA QuietKeeps ==
    ASSUME TypeOK, TypeOK', CacheInv, Quiet
    PROVE  CacheInv'
<1>1. /\ barred' \in {barred, fetchSeq} /\ denied' \in {denied, fetchSeq}
      /\ \A k \in Keys : ended'[k] <= fetchSeq
  BY DEF Quiet, Marks, CacheInv, NumberInv
<1>2. NumberInv'
  BY <1>1, QuietNumberInv DEF Quiet, CacheInv
<1>3. FenceInv'
  BY QuietFenceInv DEF Quiet, CacheInv
<1>4. BarInv'
  BY QuietBarInv DEF Quiet, CacheInv
<1>5. NoRevival'
  BY QuietNoRevival DEF Quiet, CacheInv
<1> QED
  BY <1>2, <1>3, <1>4, <1>5 DEF CacheInv

\* A return leaves no call ahead of its epochs.
LEMMA ReturnNumbers ==
    ASSUME TypeOK, NumberInv, NEW c \in Everyone, calls[c] # None, Return(c), EpochsGrow, TypeOK'
    PROVE  NoneNumbered
<1> SUFFICES ASSUME NEW d \in Everyone, calls'[d] # None
             PROVE  /\ calls'[d].auth <= auth'.epoch /\ calls'[d].epoch <= consent'.epoch
                    /\ calls[d] # None /\ calls'[d].seq = calls[d].seq
                    /\ calls'[d].key = calls[d].key
                    /\ calls'[d].auth = calls[d].auth /\ calls'[d].epoch = calls[d].epoch
  BY DEF NoneNumbered
<1>1. calls'[d] = calls[d] \/ (d = c /\ calls'[d] = [calls[d] EXCEPT !.pc = "ending"])
  BY ReturnCalls DEF TypeOK
<1>2. calls[d] # None
  BY <1>1
<1>3. calls[d] \in CallRecord
  BY <1>2, CallFields DEF TypeOK
<1>4. /\ calls'[d].seq = calls[d].seq /\ calls'[d].key = calls[d].key
      /\ calls'[d].auth = calls[d].auth /\ calls'[d].epoch = calls[d].epoch
  BY <1>1, <1>3 DEF CallRecord
<1>5. calls[d].auth <= auth.epoch /\ calls[d].epoch <= consent.epoch
  BY <1>2 DEF NumberInv
<1>6. /\ auth.epoch \in Nat /\ auth'.epoch \in Nat /\ consent.epoch \in Nat
      /\ consent'.epoch \in Nat /\ calls[d].auth \in Nat /\ calls[d].epoch \in Nat
  BY <1>2, Numbers, NumbersNext DEF Numeric
<1> QED
  BY <1>2, <1>4, <1>5, <1>6 DEF EpochsGrow

\* Calls that do not change are not ahead of epochs that grow.
LEMMA KeptNumbers ==
    ASSUME TypeOK, NumberInv, calls' = calls, EpochsGrow, TypeOK'
    PROVE  NoneNumbered
<1>1. \A d \in Everyone : calls[d] # None =>
         calls[d].auth <= auth.epoch /\ calls[d].epoch <= consent.epoch
  BY DEF NumberInv
<1>2. /\ auth.epoch \in Nat /\ auth'.epoch \in Nat /\ consent.epoch \in Nat
      /\ consent'.epoch \in Nat
      /\ \A d \in Everyone : calls[d] # None => calls[d].auth \in Nat /\ calls[d].epoch \in Nat
  BY Numbers, NumbersNext DEF Numeric
<1> QED
  BY <1>1, <1>2 DEF NoneNumbered, EpochsGrow

LEMMA FenceKept ==
    ASSUME TypeOK, settled' = settled
    PROVE  \A x \in (1..2) \X Keys : settled'[x] >= settled[x]
BY Numbers DEF Numeric

LEMMA EpochsKept ==
    ASSUME TypeOK, auth' = auth, consent' = consent
    PROVE  EpochsGrow
BY Numbers DEF Numeric, EpochsGrow

LEMMA BeginRevalidationQuiet ==
    ASSUME TypeOK, TypeOK', NumberInv, NEW k \in Keys, BeginRevalidation(k)
    PROVE  Quiet
<1>1. UNCHANGED <<store, subject, fetchSeq, consent, hist>>
  BY DEF BeginRevalidation
<1>2. EpochsGrow
  BY <1>1, EpochsKept DEF store
<1>3. ASSUME NEW d \in Everyone, calls'[d] # None
      PROVE  /\ calls'[d].auth <= auth'.epoch /\ calls'[d].epoch <= consent'.epoch
             /\ calls'[d].seq = 0 \/ calls'[d] = calls[d]
  <2>1. CASE d = Lane
    <3>1. calls'[d].auth = 0 /\ calls'[d].epoch = consent.epoch /\ calls'[d].seq = 0
      BY <2>1, Bounds DEF BeginRevalidation, TypeOK, CallType
    <3> QED
      BY <3>1, <1>1, Numbers DEF Numeric, store
  <2>2. CASE d # Lane
    <3>1. calls'[d] = calls[d]
      BY <2>2 DEF BeginRevalidation, TypeOK, CallType
    <3> QED
      BY <1>1, <1>3, <3>1 DEF NumberInv, store
  <2> QED
    BY <2>1, <2>2
<1>4. NoneNumbered
  BY <1>3 DEF NoneNumbered
<1> QED
  BY <1>1, <1>2, <1>4, FenceKept DEF Quiet, NoneCached, Marks, store, hist

LEMMA ReturnQuiet ==
    ASSUME TypeOK, TypeOK', NumberInv, NEW c \in Everyone,
           Refuse(c) \/ Abandon(c) \/ SettleTorn(c) \/ RemintRevoked(c)
    PROVE  Quiet
<1>1. calls[c] # None /\ Return(c) /\ UNCHANGED <<store, subject, fetchSeq, ended, barred>>
  BY DEF Refuse, Abandon, SettleTorn, RemintRevoked, At, hist
<1>2. EpochsGrow /\ (denied' = denied \/ (denied' = fetchSeq /\ consent'.epoch > consent.epoch))
  <2>1. CASE Refuse(c) \/ Abandon(c) \/ SettleTorn(c)
    <3>1. consent' = consent /\ denied' = denied
      BY <2>1 DEF Refuse, Abandon, SettleTorn, hist
    <3> QED
      BY <1>1, <3>1, EpochsKept DEF store
  <2>2. CASE RemintRevoked(c)
    <3>1. consent' = [granted |-> FALSE, epoch |-> consent.epoch + 1] /\ denied' = fetchSeq
      BY <2>2 DEF RemintRevoked
    <3> QED
      BY <1>1, <3>1, Numbers DEF EpochsGrow, Numeric, store
  <2> QED
    BY <2>1, <2>2
<1>3. NoneNumbered
  BY <1>1, <1>2, ReturnNumbers
<1> QED
  BY <1>1, <1>2, <1>3, FenceKept DEF Quiet, NoneCached, Marks, store

LEMMA ReenterQuiet ==
    ASSUME TypeOK, TypeOK', NumberInv, NEW c \in Everyone, Reenter(c)
    PROVE  Quiet
<1>1. At(c, "again") /\ UNCHANGED <<store, subject, fetchSeq, consent, hist>>
  BY DEF Reenter
<1>2. calls[c] # None /\ calls[c] \in CallRecord /\ calls[c].seq = 0
  BY <1>1, CallThere, Progress DEF TypeOK
<1>3. EpochsGrow
  BY <1>1, EpochsKept DEF store
<1>4. NoneNumbered
  <2>1. CASE torn
    <3>1. Return(c)
      BY <2>1 DEF Reenter
    <3> QED
      BY <1>2, <1>3, <3>1, ReturnNumbers
  <2>2. CASE ~torn
    <3> DEFINE z == [[calls[c] EXCEPT !.pc = "begun"] EXCEPT !.epoch = consent.epoch]
    <3>1. calls' = [calls EXCEPT ![c] = z]
      BY <2>2, ReenterCall
    <3>2. z.seq = 0 /\ z.auth = calls[c].auth /\ z.epoch = consent.epoch
      BY <1>2 DEF CallRecord
    <3> HIDE DEF z
    <3>3. ASSUME NEW d \in Everyone, calls'[d] # None
          PROVE  /\ calls'[d].auth <= auth'.epoch /\ calls'[d].epoch <= consent'.epoch
                 /\ calls'[d].seq = 0 \/ calls'[d] = calls[d]
      <4>1. CASE d = c
        <5>1. calls'[d] = z
          BY <3>1, <4>1 DEF TypeOK, CallType
        <5>2. calls[c].auth <= auth.epoch
          BY <1>2 DEF NumberInv
        <5> QED
          BY <5>1, <5>2, <3>2, <1>1, Numbers DEF Numeric, store
      <4>2. CASE d # c
        <5>1. calls'[d] = calls[d]
          BY <3>1, <4>2 DEF TypeOK, CallType
        <5> QED
          BY <5>1, <3>3, <1>1 DEF NumberInv, store
      <4> QED
        BY <4>1, <4>2
    <3> QED
      BY <3>3 DEF NoneNumbered
  <2> QED
    BY <2>1, <2>2
<1> QED
  BY <1>1, <1>3, <1>4, FenceKept DEF Quiet, NoneCached, Marks, store, hist

LEMMA EndDeclarationQuiet ==
    ASSUME TypeOK, TypeOK', NumberInv, NEW c \in Everyone, EndDeclaration(c)
    PROVE  Quiet
<1>1. /\ calls' = [calls EXCEPT ![c] = None]
      /\ UNCHANGED <<subject, fetchSeq, consent, ended, barred, denied>>
  BY DEF EndDeclaration
<1>2. auth' = auth
  BY EndDeclarationStore
<1>3. EpochsGrow
  BY <1>1, <1>2, EpochsKept
<1>4. NoneNumbered
  <2>1. \A d \in Everyone : calls'[d] # None => calls'[d] = calls[d]
    BY <1>1 DEF TypeOK, CallType
  <2> QED
    BY <1>1, <1>2, <2>1 DEF NoneNumbered, NumberInv
<1>5. NoneCached
  <2>1. \/ entries' = entries /\ retained' = retained
        \/ \E k \in Keys : /\ entries' = [entries EXCEPT ![k] = None]
                           /\ retained' = [retained EXCEPT ![k] = None]
    BY EndDeclarationStore
  <2>2. entries \in [Keys -> EntryShape] /\ retained \in [Keys -> EntryShape]
    BY DEF TypeOK, StoreType
  <2> QED
    BY <2>1, <2>2 DEF NoneCached
<1>6. \A x \in (1..2) \X Keys : settled'[x] >= settled[x]
  <2>1. \/ settled' = settled
        \/ \E s \in 0..2, k \in Keys, n \in 0..MaxSeq : settled' = Raise(settled, s, k, n)
    BY EndDeclarationStore
  <2>2. ASSUME NEW s \in 0..2, NEW k \in Keys, NEW n \in 0..MaxSeq,
               settled' = Raise(settled, s, k, n)
        PROVE  \A x \in (1..2) \X Keys : settled'[x] >= settled[x]
    BY <2>2, RaiseType DEF TypeOK
  <2>3. CASE settled' = settled
    BY <2>3, FenceKept
  <2> QED
    BY <2>1, <2>2, <2>3
<1> QED
  BY <1>1, <1>3, <1>4, <1>5, <1>6 DEF Quiet, Marks

LEMMA OutsideQuiet ==
    ASSUME TypeOK, TypeOK', NumberInv,
           \/ \E grant \in BOOLEAN : SetConsent(grant)
           \/ \E k \in Keys : ApplyAgeRefused(k) \/ ApplyConflict(k)
           \/ ApplySentinel
           \/ Teardown
    PROVE  Quiet
<1>1. calls' = calls /\ UNCHANGED <<subject, fetchSeq, settled, ended>>
  BY DEF SetConsent, ApplyAgeRefused, ApplyConflict, ApplySentinel, Teardown, store, hist
<1>2. SUFFICES EpochsGrow /\ NoneCached /\ Marks
  BY <1>1, FenceKept, KeptNumbers DEF Quiet
<1>3. ASSUME NEW grant \in BOOLEAN, SetConsent(grant) PROVE EpochsGrow /\ NoneCached /\ Marks
  <2>1. /\ UNCHANGED <<store, barred>>
        /\ \/ denied' = denied /\ consent' = [granted |-> grant, epoch |-> consent.epoch]
           \/ denied' = fetchSeq /\ consent' = [granted |-> grant, epoch |-> consent.epoch + 1]
    BY <1>3 DEF SetConsent
  <2> QED
    BY <2>1, Numbers DEF EpochsGrow, NoneCached, Marks, Numeric, store
<1>4. ASSUME NEW k \in Keys, ApplyAgeRefused(k) PROVE EpochsGrow /\ NoneCached /\ Marks
  <2>1. /\ entries' = [entries EXCEPT ![k] = None] /\ retained' = [retained EXCEPT ![k] = None]
        /\ UNCHANGED <<auth, consent, barred, denied>>
    BY <1>4 DEF ApplyAgeRefused, Withdraw, Without, hist
  <2>2. entries \in [Keys -> EntryShape] /\ retained \in [Keys -> EntryShape]
    BY DEF TypeOK, StoreType
  <2>3. NoneCached
    BY <2>1, <2>2 DEF NoneCached
  <2> QED
    BY <2>1, <2>3, EpochsKept DEF Marks
<1>5. ASSUME NEW k \in Keys, ApplyConflict(k) PROVE EpochsGrow /\ NoneCached /\ Marks
  BY <1>5, EpochsKept DEF ApplyConflict, NoneCached, Marks, hist
<1>6. ASSUME ApplySentinel PROVE EpochsGrow /\ NoneCached /\ Marks
  <2>1. /\ entries' = Nothing /\ retained' = Nothing /\ barred' = fetchSeq
        /\ auth' = [blocked |-> TRUE, epoch |-> auth.epoch + 1] /\ UNCHANGED <<consent, denied>>
    BY <1>6 DEF ApplySentinel, WithdrawAll
  <2>2. NoneCached
    BY <2>1 DEF NoneCached, Nothing
  <2> QED
    BY <2>1, <2>2, Numbers DEF EpochsGrow, Marks, Numeric
<1>7. ASSUME Teardown PROVE EpochsGrow /\ NoneCached /\ Marks
  BY <1>7, EpochsKept DEF Teardown, NoneCached, Marks, store, hist
<1> QED
  BY <1>3, <1>4, <1>5, <1>6, <1>7

\* A call is given the next number, with the epochs of the moment.
NumbersOne(c) ==
    /\ fetchSeq' = fetchSeq + 1
    /\ \A d \in Everyone \ {c} : calls'[d] = calls[d]
    /\ calls'[c].seq = fetchSeq' /\ calls'[c].auth = auth.epoch /\ calls'[c].key \in Keys
    /\ calls'[c].epoch <= consent.epoch
    /\ UNCHANGED <<entries, retained, auth, consent, ended, barred, denied>>
    /\ subject' = subject \/ subject.id = 0
    /\ \A x \in (1..2) \X Keys : settled'[x] >= settled[x]

LEMMA NumberingKeeps ==
    ASSUME TypeOK, TypeOK', CacheInv, NEW c \in Everyone, NumbersOne(c)
    PROVE  CacheInv'
<1> USE DEF NumbersOne
<1>1. /\ fetchSeq \in Nat /\ auth.epoch \in Nat /\ barred \in Nat /\ denied \in Nat
      /\ subject.id \in 0..2
      /\ \A k \in Keys : ended[k] \in Nat
      /\ \A d \in Everyone : calls[d] # None =>
            /\ calls[d].key \in Keys /\ calls[d].seq \in Nat /\ calls[d].auth \in Nat
  BY Numbers DEF Numeric
<1>2. \A k \in Keys : ended'[k] < fetchSeq'
  BY <1>1 DEF CacheInv, NumberInv
<1>3. barred' < fetchSeq' /\ denied' < fetchSeq'
  BY <1>1 DEF CacheInv, NumberInv
<1>4. ASSUME NEW d \in Everyone, d # c, calls'[d] # None
      PROVE  /\ calls'[d].seq <= fetchSeq /\ calls'[d].auth <= auth.epoch
             /\ calls'[d].epoch <= consent.epoch
  BY <1>4 DEF CacheInv, NumberInv
<1>5. NumberInv'
  <2>1. ASSUME NEW d \in Everyone, calls'[d] # None
        PROVE  /\ calls'[d].seq <= fetchSeq' /\ calls'[d].auth <= auth'.epoch
               /\ calls'[d].epoch <= consent'.epoch
    <3>1. CASE d = c
      BY <1>1, <3>1
    <3>2. CASE d # c
      BY <1>1, <1>4, <2>1, <3>2
    <3> QED
      BY <3>1, <3>2
  <2>2. ASSUME NEW d \in Everyone, NEW e \in Everyone, Numbered(d)', Numbered(e)',
               calls'[d].seq <= calls'[e].seq
        PROVE  calls'[d].auth <= calls'[e].auth
    <3>1. CASE e = c
      BY <1>1, <2>1, <2>2, <3>1 DEF Numbered
    <3>2. CASE e # c /\ d = c
      BY <1>1, <1>4, <2>2, <3>2 DEF Numbered
    <3>3. CASE e # c /\ d # c
      <4>1. calls'[e] = calls[e] /\ calls'[d] = calls[d]
        BY <3>3
      <4> QED
        BY <2>2, <4>1 DEF Numbered, CacheInv, NumberInv
    <3> QED
      BY <3>1, <3>2, <3>3
  <2>3. barred' <= fetchSeq' /\ denied' <= fetchSeq' /\ \A k \in Keys : ended'[k] <= fetchSeq'
    BY <1>1, <1>2, <1>3
  <2> QED
    BY <2>1, <2>2, <2>3 DEF NumberInv
<1>6. FenceInv'
  <2>1. ASSUME NEW d \in Everyone, Numbered(d)', calls'[d].seq <= ended'[calls'[d].key]
        PROVE  \/ calls'[d].seq <= settled'[<<subject'.id, calls'[d].key>>]
               \/ calls'[d].auth < auth'.epoch
    <3>1. d # c
      BY <1>1, <1>2, <2>1
    <3>2. calls'[d] = calls[d] /\ Numbered(d) /\ calls[d] # None
      BY <2>1, <3>1 DEF Numbered
    <3>3. calls[d].key \in Keys /\ calls[d].seq \in Nat /\ calls[d].seq > 0
      BY <1>1, <3>2 DEF Numbered
    <3>4. subject.id # 0
      BY <2>1, <3>2, <3>3 DEF CacheInv, FenceInv
    <3>5. \/ calls[d].seq <= settled[<<subject.id, calls[d].key>>]
          \/ calls[d].auth < auth.epoch
      BY <2>1, <3>2 DEF CacheInv, FenceInv
    <3>6. <<subject.id, calls[d].key>> \in (1..2) \X Keys
      BY <1>1, <3>3, <3>4
    <3>7. /\ settled'[<<subject.id, calls[d].key>>] >= settled[<<subject.id, calls[d].key>>]
          /\ settled'[<<subject.id, calls[d].key>>] \in Nat
          /\ settled[<<subject.id, calls[d].key>>] \in Nat
      BY <3>6, Numbers, NumbersNext DEF Numeric
    <3>8. subject' = subject
      BY <3>4
    <3> QED
      BY <3>2, <3>3, <3>5, <3>7, <3>8
  <2>2. subject'.id = 0 => \A k \in Keys : ended'[k] = 0
    BY DEF CacheInv, FenceInv
  <2> QED
    BY <2>1, <2>2 DEF FenceInv
<1>7. BarInv'
  <2>1. ASSUME NEW d \in Everyone, Numbered(d)'
        PROVE  /\ calls'[d].seq <= barred' => calls'[d].auth < auth'.epoch
               /\ calls'[d].seq <= denied' => calls'[d].epoch < consent'.epoch
    <3>1. CASE d = c
      BY <1>1, <1>3, <3>1
    <3>2. CASE d # c
      BY <2>1, <3>2 DEF CacheInv, BarInv, Numbered
    <3> QED
      BY <3>1, <3>2
  <2> QED
    BY <2>1 DEF BarInv
<1>8. NoRevival'
  BY DEF CacheInv, NoRevival
<1> QED
  BY <1>5, <1>6, <1>7, <1>8 DEF CacheInv

\* An adult declaration raises the fence of its experiment.
LEMMA HostFence ==
    ASSUME TypeOK, NEW c \in Calls, NEW k \in Keys, NEW band \in HostBands, BeginHost(c, k, band)
    PROVE  \A x \in (1..2) \X Keys : settled'[x] >= settled[x]
<1>1. subject.id \in 0..2 /\ fetchSeq \in 0..MaxSeq
  BY Bounds DEF TypeOK, CallType
<1>2. settled' = settled \/ settled' = Raise(settled, subject.id, k, fetchSeq)
  <2>1. (fetchSeq + 1) - 1 = fetchSeq
    BY <1>1, Bounds
  <2> QED
    BY <2>1 DEF BeginHost
<1>3. CASE settled' = settled
  BY <1>3, FenceKept
<1>4. CASE settled' = Raise(settled, subject.id, k, fetchSeq)
  BY <1>1, <1>4, RaiseType DEF TypeOK
<1> QED
  BY <1>2, <1>3, <1>4

LEMMA BeginHostKeeps ==
    ASSUME TypeOK, TypeOK', CacheInv, NEW c \in Calls, NEW k \in Keys, NEW band \in HostBands,
           BeginHost(c, k, band)
    PROVE  CacheInv'
<1>1. c \in Everyone /\ consent.epoch \in Nat /\ subject.id \in 0..2 /\ fetchSeq \in 0..MaxSeq
  BY Bounds DEF TypeOK, CallType
<1>2. /\ UNCHANGED <<entries, retained, auth, consent, ended, barred, denied, subject>>
      /\ fetchSeq' = fetchSeq + 1
  BY DEF BeginHost
<1>3. /\ \A d \in Everyone \ {c} : calls'[d] = calls[d]
      /\ calls'[c].seq = fetchSeq' /\ calls'[c].auth = auth.epoch /\ calls'[c].key \in Keys
      /\ calls'[c].epoch = consent.epoch
  BY <1>1 DEF BeginHost, TypeOK, CallType
<1>4. \A x \in (1..2) \X Keys : settled'[x] >= settled[x]
  BY HostFence
<1>5. NumbersOne(c)
  BY <1>1, <1>2, <1>3, <1>4 DEF NumbersOne
<1> QED
  BY <1>1, <1>5, NumberingKeeps

LEMMA DispatchKeeps ==
    ASSUME TypeOK, TypeOK', CacheInv, NEW c \in Everyone, Dispatch(c)
    PROVE  CacheInv'
<1> DEFINE r == calls[c]
           n == IF r.seq = 0 THEN fetchSeq + 1 ELSE r.seq
<1>1. /\ r # None /\ r \in CallRecord
      /\ \A d \in Everyone \ {c} : calls'[d] = calls[d]
      /\ calls'[c].seq = n
      /\ calls'[c].auth = IF r.seq = 0 THEN auth.epoch ELSE r.auth
      /\ calls'[c].key = r.key /\ calls'[c].epoch = r.epoch
  BY DispatchCall
<1>2. /\ r.key \in Keys /\ r.seq \in Nat /\ r.epoch <= consent.epoch /\ r.auth <= auth.epoch
      /\ r.seq <= fetchSeq /\ fetchSeq \in Nat
  BY <1>1, Numbers DEF Numeric, CacheInv, NumberInv
<1>3. /\ UNCHANGED <<entries, retained, settled, auth, consent, ended, barred, denied>>
      /\ fetchSeq' = Larger(fetchSeq, n)
  BY DEF Dispatch, hist
<1>4. subject' = subject \/ subject.id = 0
  BY DEF Dispatch, TypeOK, CallType
<1>5. CASE r.seq = 0
  <2>1. fetchSeq' = fetchSeq + 1
    BY <1>2, <1>3, <1>5 DEF Larger
  <2>2. NumbersOne(c)
    BY <1>1, <1>2, <1>3, <1>4, <1>5, <2>1, FenceKept DEF NumbersOne
  <2> QED
    BY <2>2, NumberingKeeps
<1>6. CASE r.seq # 0
  <2>1. fetchSeq' = fetchSeq
    BY <1>2, <1>3, <1>6 DEF Larger
  <2>2. NoneNumbered
    <3>1. ASSUME NEW d \in Everyone, d # c, calls'[d] # None
          PROVE  calls'[d] = calls[d] /\ calls[d].auth <= auth.epoch /\ calls[d].epoch <= consent.epoch
      BY <1>1, <3>1 DEF CacheInv, NumberInv
    <3> QED
      BY <1>1, <1>2, <1>3, <1>6, <3>1 DEF NoneNumbered
  <2>3. EpochsGrow
    BY <1>3, EpochsKept
  <2>4. Quiet
    BY <1>3, <1>4, <2>1, <2>2, <2>3, FenceKept DEF Quiet, NoneCached, Marks
  <2> QED
    BY <2>4, QuietKeeps
<1> QED
  BY <1>5, <1>6

LEMMA RemintKeeps ==
    ASSUME TypeOK, TypeOK', CacheInv, NEW c \in Everyone, Remint(c)
    PROVE  CacheInv'
<1>1. At(c, "sent")
  BY DEF Remint
<1>2. calls[c] # None /\ calls[c] \in CallRecord
  BY <1>1, CallThere
<1>3. /\ calls' = [calls EXCEPT ![c] = Again(calls[c])]
      /\ UNCHANGED <<settled, auth, fetchSeq, consent, barred, denied>>
      /\ entries' = Nothing /\ retained' = Nothing
      /\ \A k \in Keys : ended'[k] = 0
  BY DEF Remint, Again, Emptied
<1>4. NoneNumbered
  <2>1. \A d \in Everyone : calls'[d] = IF d = c THEN Again(calls[c]) ELSE calls[d]
    BY <1>3 DEF TypeOK, CallType
  <2>2. /\ Again(calls[c]).seq = 0 /\ Again(calls[c]).auth = calls[c].auth
        /\ Again(calls[c]).epoch = calls[c].epoch
    BY <1>2, AgainCall
  <2>3. \A d \in Everyone : calls[d] # None =>
           calls[d].auth <= auth.epoch /\ calls[d].epoch <= consent.epoch
    BY DEF CacheInv, NumberInv
  <2> QED
    BY <1>2, <1>3, <2>1, <2>2, <2>3 DEF NoneNumbered
<1>5. EpochsGrow /\ Marks /\ NoneCached
  BY <1>3, EpochsKept DEF Marks, NoneCached, Nothing
<1>6. NumberInv'
  <2>1. fetchSeq \in Nat
    BY Numbers DEF Numeric
  <2> QED
    BY <1>3, <1>4, <1>5, <2>1, QuietNumberInv DEF CacheInv
<1>7. FenceInv'
  <2>1. ASSUME NEW d \in Everyone, Numbered(d)'
        PROVE  ~(calls'[d].seq <= ended'[calls'[d].key])
    <3>1. calls'[d] # None /\ calls'[d].seq > 0
      BY <2>1 DEF Numbered
    <3>2. calls'[d].key \in Keys /\ calls'[d].seq \in Nat
      BY <3>1, NumbersNext DEF Numeric
    <3> QED
      BY <1>3, <3>1, <3>2
  <2> QED
    BY <1>3, <2>1 DEF FenceInv
<1>8. BarInv'
  BY <1>4, <1>5, QuietBarInv DEF CacheInv
<1>9. NoRevival'
  BY <1>3, <1>5, QuietNoRevival DEF CacheInv
<1> QED
  BY <1>6, <1>7, <1>8, <1>9 DEF CacheInv

\* An assignment is installed only when the fence, the auth epoch and the
\* consent epoch let its request pass, so it is newer than every withdrawal.
LEMMA InstallIsNew ==
    ASSUME TypeOK, CacheInv, NEW c \in Everyone, NEW o, NEW new,
           SettleStep(c, calls[c], o, new), calls[c] # None, Installs(calls[c], o)
    PROVE  new.seq > ended[calls[c].key] /\ new.seq > barred /\ new.seq > denied
<1> DEFINE r == calls[c]
<1>1. /\ r.key \in Keys /\ r.seq \in Nat /\ r.auth \in Nat /\ barred \in Nat /\ denied \in Nat
      /\ ended[r.key] \in Nat /\ auth.epoch \in Nat /\ consent.epoch \in Nat /\ r.epoch \in Nat
  BY Numbers DEF Numeric
<1>2. new.seq = r.seq /\ r.seq > 0
  BY DEF SettleStep
<1>3. Numbered(c)
  BY <1>2 DEF Numbered
<1>4. Admitted(r, o) /\ Fresh(r) /\ o.new /\ ~Refused(r)
  BY DEF Installs
<1>5. /\ r.auth = auth.epoch /\ consent.epoch = r.epoch /\ subject.id = r.subj
  BY <1>4 DEF Fresh, Refused, Admitted, Current
<1>6. ~(r.seq <= barred) /\ ~(r.seq <= denied)
  BY <1>1, <1>3, <1>5 DEF CacheInv, BarInv
<1>7. ~(r.seq <= ended[r.key])
  <2>1. ~Fenced(r) \/ o.blocked
    BY <1>4 DEF Admitted
  <2>2. ~Fenced(r)
    BY <1>4, <2>1 DEF SettleStep
  <2>3. ~(r.seq <= settled[<<subject.id, r.key>>])
    BY <1>5, <2>2 DEF Fenced
  <2> QED
    BY <1>1, <1>3, <1>5, <2>3 DEF CacheInv, FenceInv
<1> QED
  BY <1>1, <1>2, <1>6, <1>7

LEMMA SettleKeeps ==
    ASSUME TypeOK, TypeOK', CacheInv, NEW c \in Everyone, NEW a \in Answers, Settle(c, a)
    PROVE  CacheInv'
<1>1. PICK o, new : SettleStep(c, calls[c], o, new)
  BY Settles
<1> DEFINE r == calls[c]
<1>2. At(c, "sent") /\ calls[c] # None
  BY DEF Settle, At
<1>3. /\ r \in CallRecord /\ r.key \in Keys /\ r.seq \in 0..MaxSeq /\ r.subj \in 0..2 /\ r.seq > 0
      /\ r.auth \in Nat
  BY <1>1 DEF SettleStep, CallRecord
<1>4. /\ Return(c) /\ UNCHANGED <<subject, fetchSeq, consent, denied>>
      /\ settled' = Fence(r, o) /\ (o.drop => ~o.transient)
      /\ ended' = IF WithdrawsOne(r, o) THEN [ended EXCEPT ![r.key] = Larger(ended[r.key], r.seq)]
                  ELSE ended
      /\ barred' = IF WithdrawsAll(r, o) THEN fetchSeq ELSE barred
  BY <1>1 DEF SettleStep
<1>5. /\ WithdrawsOne(r, o) => entries'[r.key] = None /\ retained'[r.key] = None
      /\ WithdrawsAll(r, o) => /\ entries' = Nothing /\ retained' = Nothing
                               /\ auth'.epoch = auth.epoch + 1
      /\ auth'.epoch = auth.epoch \/ auth'.epoch = auth.epoch + 1
  BY <1>1, SettledAuth
<1>6. /\ \A k \in Keys : \/ entries'[k] \in {None, entries[k], retained[k]}
                         \/ k = r.key /\ Installs(r, o) /\ entries'[k] = new
      /\ \A k \in Keys : retained'[k] \in {None, entries[k], retained[k]}
  BY <1>1, SettledCache
<1>7. Installs(r, o) => new.seq > ended[r.key] /\ new.seq > barred
  BY <1>1, <1>2, InstallIsNew
<1>8. Numeric /\ Numeric'
  BY Numbers, NumbersNext
<1>9. Numbered(c) /\ r # None
  BY <1>2, <1>3 DEF Numbered
<1> HIDE DEF r
<1>10. EpochsGrow /\ Marks
  BY <1>4, <1>5, <1>8 DEF EpochsGrow, Marks, Numeric
<1>11. NoneNumbered
  BY <1>2, <1>4, <1>10, ReturnNumbers DEF CacheInv
<1>12. r.seq <= fetchSeq /\ ended[r.key] \in Nat /\ ended[r.key] <= fetchSeq /\ fetchSeq \in Nat
  BY <1>3, <1>8, <1>9 DEF r, CacheInv, NumberInv, Numeric
<1>13. \A k \in Keys : /\ ended'[k] <= fetchSeq
                       /\ ended'[k] = ended[k] \/ (k = r.key /\ WithdrawsOne(r, o))
  <2>1. \A k \in Keys : ended[k] <= fetchSeq
    BY DEF CacheInv, NumberInv
  <2>2. ended \in [Keys -> 0..MaxSeq]
    BY DEF TypeOK, HistType
  <2>3. Larger(ended[r.key], r.seq) <= fetchSeq
    BY <1>12 DEF Larger
  <2> QED
    BY <1>3, <1>4, <2>1, <2>2, <2>3
<1>14. NumberInv'
  BY <1>4, <1>10, <1>11, <1>13, QuietNumberInv DEF CacheInv
<1>15. BarInv'
  BY <1>10, <1>11, QuietBarInv DEF CacheInv
<1>16. \A x \in (1..2) \X Keys : settled'[x] >= settled[x]
  <2>1. CASE settled' = settled
    BY <2>1, FenceKept
  <2>2. CASE settled' = Raise(settled, r.subj, r.key, r.seq)
    BY <1>3, <2>2, RaiseType DEF TypeOK
  <2> QED
    BY <1>4, <2>1, <2>2 DEF Fence
<1>17. FenceInv'
  <2>1. CASE ~WithdrawsOne(r, o)
    BY <1>4, <1>10, <1>11, <1>16, <2>1, QuietFenceInv DEF CacheInv
  <2>2. CASE WithdrawsOne(r, o)
    <3>1. Admitted(r, o) /\ o.drop /\ subject.id # 0 /\ subject.id = r.subj
      BY <2>2 DEF WithdrawsOne, Admitted, Current
    <3>2. ASSUME NEW d \in Everyone, Numbered(d)', calls'[d].seq <= ended'[calls'[d].key]
          PROVE  \/ calls'[d].seq <= settled'[<<subject'.id, calls'[d].key>>]
                 \/ calls'[d].auth < auth'.epoch
      <4>1. /\ Numbered(d) /\ calls[d] # None /\ calls'[d].seq = calls[d].seq
            /\ calls'[d].auth = calls[d].auth /\ calls'[d].key = calls[d].key
        BY <1>11, <3>2 DEF Numbered, NoneNumbered
      <4>2. calls[d].key \in Keys /\ calls[d].seq \in Nat /\ calls[d].auth \in Nat
        BY <1>8, <4>1 DEF Numeric
      <4>3. <<subject.id, calls[d].key>> \in (1..2) \X Keys
        BY <1>3, <3>1, <4>2
      <4>4. /\ settled'[<<subject.id, calls[d].key>>] >= settled[<<subject.id, calls[d].key>>]
            /\ settled'[<<subject.id, calls[d].key>>] \in Nat
            /\ settled[<<subject.id, calls[d].key>>] \in Nat
            /\ auth.epoch \in Nat /\ auth'.epoch \in Nat
        BY <1>8, <1>16, <4>3 DEF Numeric
      <4>5. CASE calls[d].seq <= ended[calls[d].key]
        <5>1. \/ calls[d].seq <= settled[<<subject.id, calls[d].key>>]
              \/ calls[d].auth < auth.epoch
          BY <4>1, <4>5 DEF CacheInv, FenceInv
        <5> QED
          BY <1>4, <1>10, <4>1, <4>2, <4>4, <5>1 DEF EpochsGrow
      <4>6. CASE ~(calls[d].seq <= ended[calls[d].key])
        <5>1. calls[d].key = r.key /\ calls[d].seq <= r.seq
          <6>1. ended'[calls[d].key] # ended[calls[d].key]
            BY <3>2, <4>1, <4>6
          <6>2. calls[d].key = r.key
            BY <1>13, <4>2, <6>1
          <6>3. ended'[r.key] = Larger(ended[r.key], r.seq)
            BY <1>3, <1>4, <2>2 DEF TypeOK, HistType
          <6> QED
            BY <3>2, <4>1, <4>6, <6>2, <6>3 DEF Larger
        <5>2. CASE Fresh(r)
          <6>1. settled' = Raise(settled, r.subj, r.key, r.seq)
            BY <1>4, <3>1, <5>2 DEF Fence
          <6>2. settled'[<<r.subj, r.key>>] >= r.seq
            BY <1>3, <3>1, <6>1, RaiseType DEF TypeOK
          <6> QED
            BY <1>3, <1>4, <3>1, <4>1, <4>2, <4>4, <5>1, <6>2
        <5>3. CASE ~Fresh(r)
          <6>1. r.auth < auth.epoch
            BY <1>3, <1>8, <1>9, <5>3 DEF Fresh, CacheInv, NumberInv, Numeric, r
          <6>2. calls[d].auth <= r.auth
            BY <1>9, <4>1, <5>1 DEF CacheInv, NumberInv, r
          <6> QED
            BY <1>3, <1>10, <4>1, <4>2, <4>4, <6>1, <6>2 DEF EpochsGrow
        <5> QED
          BY <5>2, <5>3
      <4> QED
        BY <4>5, <4>6
    <3>3. subject'.id # 0
      BY <1>4, <3>1
    <3> QED
      BY <3>2, <3>3 DEF FenceInv
  <2> QED
    BY <2>1, <2>2
<1>18. NoRevival'
  <2>1. SUFFICES ASSUME NEW k \in Keys, NEW e \in {entries'[k], retained'[k]}, e # None
                 PROVE  e.seq > ended'[k] /\ e.seq > barred'
    BY DEF NoRevival
  <2>2. ~WithdrawsAll(r, o) /\ barred' = barred
    BY <1>4, <1>5, <2>1 DEF Nothing
  <2>3. ended'[k] = ended[k]
    BY <1>5, <1>13, <2>1
  <2>4. CASE e \in {entries[k], retained[k]}
    BY <2>1, <2>2, <2>3, <2>4 DEF CacheInv, NoRevival
  <2>5. CASE k = r.key /\ Installs(r, o) /\ e = new
    BY <1>7, <2>2, <2>3, <2>5
  <2> QED
    BY <1>6, <2>1, <2>4, <2>5
<1> QED
  BY <1>14, <1>15, <1>17, <1>18 DEF CacheInv

LEMMA CacheInit == Init => CacheInv
<1> SUFFICES ASSUME Init PROVE CacheInv
  OBVIOUS
<1>1. /\ \A c \in Everyone : calls[c] = None
      /\ \A k \in Keys : entries[k] = None /\ retained[k] = None /\ ended[k] = 0
      /\ barred = 0 /\ denied = 0 /\ fetchSeq = 0
  BY DEF Init, Nothing
<1> QED
  BY <1>1 DEF CacheInv, NumberInv, FenceInv, BarInv, NoRevival, Numbered

LEMMA QuietSteps ==
    ASSUME TypeOK, TypeOK', NumberInv, Next,
           ~\E c \in Calls, k \in Keys, band \in HostBands : BeginHost(c, k, band),
           ~\E c \in Everyone : Dispatch(c) \/ Remint(c),
           ~\E c \in Everyone, a \in Answers : Settle(c, a)
    PROVE  Quiet
<1>1. CASE \E k \in Keys : BeginRevalidation(k)
  BY <1>1, BeginRevalidationQuiet
<1>2. CASE \E c \in Everyone : Refuse(c) \/ Abandon(c) \/ SettleTorn(c) \/ RemintRevoked(c)
  BY <1>2, ReturnQuiet
<1>3. CASE \E c \in Everyone : Reenter(c)
  BY <1>3, ReenterQuiet
<1>4. CASE \E c \in Everyone : EndDeclaration(c)
  BY <1>4, EndDeclarationQuiet
<1>5. CASE \/ \E grant \in BOOLEAN : SetConsent(grant)
           \/ \E k \in Keys : ApplyAgeRefused(k) \/ ApplyConflict(k)
           \/ ApplySentinel
           \/ Teardown
  BY <1>5, OutsideQuiet
<1> QED
  BY <1>1, <1>2, <1>3, <1>4, <1>5 DEF Next

LEMMA CacheStep == TypeOK /\ TypeOK' /\ CacheInv /\ [Next]_vars => CacheInv'
<1> SUFFICES ASSUME TypeOK, TypeOK', CacheInv, [Next]_vars PROVE CacheInv'
  OBVIOUS
<1>1. CASE UNCHANGED vars
  BY <1>1 DEF vars, store, hist, CacheInv, NumberInv, FenceInv, BarInv, NoRevival, Numbered
<1>2. CASE \E c \in Calls, k \in Keys, band \in HostBands : BeginHost(c, k, band)
  BY <1>2, BeginHostKeeps
<1>3. CASE \E c \in Everyone : Dispatch(c) \/ Remint(c)
  BY <1>3, DispatchKeeps, RemintKeeps
<1>4. CASE \E c \in Everyone, a \in Answers : Settle(c, a)
  BY <1>4, SettleKeeps
<1>5. CASE /\ Next
           /\ ~\E c \in Calls, k \in Keys, band \in HostBands : BeginHost(c, k, band)
           /\ ~\E c \in Everyone : Dispatch(c) \/ Remint(c)
           /\ ~\E c \in Everyone, a \in Answers : Settle(c, a)
  <2>1. NumberInv
    BY DEF CacheInv
  <2>2. Quiet
    BY <1>5, <2>1, QuietSteps
  <2> QED
    BY <2>2, QuietKeeps
<1> QED
  BY <1>1, <1>2, <1>3, <1>4, <1>5

\* Only an answer whose request passed the consent epoch adds to the cache.
LEMMA CachedSinceDenial ==
    ASSUME TypeOK, TypeOK', CacheInv, Next, NEW k \in Keys, entries'[k] # None,
           entries'[k] \notin {entries[k], retained[k]}
    PROVE  entries'[k].seq > denied
<1>1. CASE \E c \in Calls, j \in Keys, band \in HostBands : BeginHost(c, j, band)
  BY <1>1 DEF BeginHost
<1>2. CASE \E c \in Everyone : Dispatch(c)
  BY <1>2 DEF Dispatch
<1>3. CASE \E c \in Everyone : Remint(c)
  BY <1>3 DEF Remint, Emptied, Nothing
<1>4. ASSUME NEW c \in Everyone, NEW a \in Answers, Settle(c, a)
      PROVE  entries'[k].seq > denied
  <2>1. PICK o, new : SettleStep(c, calls[c], o, new)
    BY <1>4, Settles
  <2>2. calls[c] # None
    BY <1>4 DEF Settle, At
  <2>3. k = calls[c].key /\ Installs(calls[c], o) /\ entries'[k] = new
    BY <2>1, SettledCache
  <2> QED
    BY <2>1, <2>2, <2>3, InstallIsNew
<1>5. CASE /\ ~\E c \in Calls, j \in Keys, band \in HostBands : BeginHost(c, j, band)
           /\ ~\E c \in Everyone : Dispatch(c) \/ Remint(c)
           /\ ~\E c \in Everyone, a \in Answers : Settle(c, a)
  <2>1. NumberInv
    BY DEF CacheInv
  <2>2. Quiet
    BY <1>5, <2>1, QuietSteps
  <2> QED
    BY <2>2 DEF Quiet, NoneCached
<1> QED
  BY <1>1, <1>2, <1>3, <1>4, <1>5

LEMMA CacheCorrect == Spec => [](TypeOK /\ CacheInv)
<1>1. TypeOK /\ CacheInv /\ [Next]_vars => TypeOK' /\ CacheInv'
  BY TypeStep, CacheStep
<1>2. Init => TypeOK /\ CacheInv
  BY TypeInit, CacheInit
<1> QED
  BY <1>1, <1>2, PTL DEF Spec

\* No assignment that a verdict or the sentinel withdrew is cached again, or
\* kept behind the auth latch: not by the answer to a request that was under
\* way, however many are, in whatever order they settle.
THEOREM WithdrawnStaysWithdrawn == Spec => []NoRevival
<1>1. CacheInv => NoRevival
  BY DEF CacheInv
<1> QED
  BY <1>1, CacheCorrect, PTL

\* What a step adds to the cache was requested after the last denial, also
\* when consent is back by the time the answer settles.
THEOREM NothingAcrossDenial == Spec => NoInstallAcrossDenial
<1> DEFINE Added == \A k \in Keys :
                       (entries'[k] # None /\ entries'[k] \notin {entries[k], retained[k]})
                          => entries'[k].seq > denied
<1>1. TypeOK /\ TypeOK' /\ CacheInv /\ [Next]_vars => [Added]_vars
  <2> SUFFICES ASSUME TypeOK, TypeOK', CacheInv, Next PROVE Added
    OBVIOUS
  <2> QED
    BY CachedSinceDenial
<1> QED
  BY <1>1, CacheCorrect, PTL DEF Spec, NoInstallAcrossDenial

-----------------------------------------------------------------------------
(* A minor is not served.                                                  *)

\* The latch retains entries only while none is cached.
LatchInv == \A k \in Keys : entries[k] = None \/ retained[k] = None

\* A pending declaration is the host's last word on its experiment, and the
\* request that may decide it is no older.
Pending(k) ==
    /\ age[k] # None /\ age[k].band = "minor" /\ declaring[k].id = age[k].seq
    /\ declaring[k].id <= declaring[k].seq

\* A call is no older than the declaration it makes; one that starts over
\* with its attributes has no number yet.
Declares(r, n) ==
    /\ r.decl <= n /\ (r.seq > 0 => r.decl <= r.seq)
    /\ r.preset /\ r.pc = "begun" => r.seq = 0

AgeInv ==
    /\ \A k \in Keys : age[k] # None => age[k].seq <= fetchSeq
    /\ \A k \in Keys : declaring[k] # None => Pending(k)
    /\ \A c \in Everyone : calls[c] # None => Declares(calls[c], fetchSeq)

\* The declaration of a minor stands, and no pending call withholds what is cached.
Stands(k) ==
    IF age[k] = None THEN FALSE
    ELSE age[k].band = "minor" /\ ~age[k].lost /\ ~torn /\ ~Undecided(k)

\* Then no older assignment of a real subject is cached or retained, and every
\* older request meets the sequence fence or a newer auth epoch.
Shut(k) ==
    /\ subject.id # 0
    /\ \A e \in {entries[k], retained[k]} : e # None /\ e.gated => e.seq >= age[k].seq
    /\ \A c \in Everyone : Numbered(c) /\ calls[c].key = k /\ calls[c].seq < age[k].seq =>
          calls[c].seq <= settled[<<subject.id, k>>] \/ calls[c].auth < auth.epoch

MinorInv == LatchInv /\ AgeInv /\ \A k \in Keys : Stands(k) => Shut(k)

\* What the age invariants compare.
LEMMA AgeNumbers ==
    ASSUME TypeOK
    PROVE  /\ \A k \in Keys : age[k] # None => age[k].seq \in Nat
           /\ \A k \in Keys : declaring[k] # None =>
                 /\ declaring[k].id \in 1..MaxSeq /\ declaring[k].seq \in Nat
                 /\ declaring[k].decided \in BOOLEAN
           /\ \A c \in Everyone : calls[c] # None => calls[c].decl \in Nat
<1>1. \A k \in Keys : age[k] # None => age[k].seq \in Nat
  BY Bounds DEF TypeOK, HistType, AgeShape, Ages
<1>2. \A k \in Keys : declaring[k] # None =>
         /\ declaring[k].id \in 1..MaxSeq /\ declaring[k].seq \in Nat
         /\ declaring[k].decided \in BOOLEAN
  BY Bounds DEF TypeOK, StoreType, DeclarationShape, Declarations
<1>3. \A c \in Everyone : calls[c] # None => calls[c].decl \in Nat
  BY CallFields, Bounds DEF TypeOK, CallRecord
<1> QED
  BY <1>1, <1>2, <1>3

\* Calls keep their number, experiment and auth epoch, or lose it, or get one
\* that was not given out before.
NumberedLate ==
    \A d \in Everyone : calls'[d] # None =>
       \/ calls'[d].seq = 0
       \/ calls'[d].seq > fetchSeq
       \/ /\ calls[d] # None /\ calls'[d].seq = calls[d].seq /\ calls'[d].key = calls[d].key
          /\ calls'[d].auth = calls[d].auth

\* What is cached of k was cached before or is no older than its declaration.
CachedLate(k) ==
    \A e \in {entries'[k], retained'[k]} : e # None /\ e.gated =>
       e \in {entries[k], retained[k]} \/ e.seq >= age[k].seq

\* A standing declaration stays shut.
LEMMA StaysShut ==
    ASSUME TypeOK, TypeOK', AgeInv, NEW k \in Keys, age[k] # None, Shut(k), age'[k] = age[k],
           NumberedLate, EpochsGrow, CachedLate(k), subject' = subject \/ subject.id = 0,
           \A x \in (1..2) \X Keys : settled'[x] >= settled[x]
    PROVE  Shut(k)'
<1>1. subject' = subject /\ subject.id # 0 /\ subject'.id # 0
  BY DEF Shut
<1>2. /\ age[k].seq \in Nat /\ age[k].seq <= fetchSeq /\ fetchSeq \in Nat
      /\ auth.epoch \in Nat /\ auth'.epoch \in Nat
  BY AgeNumbers, Numbers, NumbersNext DEF AgeInv, Numeric
<1>3. <<subject.id, k>> \in (1..2) \X Keys
  BY <1>1 DEF TypeOK, CallType
<1>4. /\ settled[<<subject.id, k>>] \in Nat /\ settled'[<<subject.id, k>>] \in Nat
      /\ settled'[<<subject.id, k>>] >= settled[<<subject.id, k>>]
  BY <1>3, Numbers, NumbersNext DEF Numeric
<1>5. \A e \in {entries'[k], retained'[k]} : e # None /\ e.gated => e.seq >= age'[k].seq
  BY DEF CachedLate, Shut
<1>6. ASSUME NEW c \in Everyone, Numbered(c)', calls'[c].key = k, calls'[c].seq < age'[k].seq
      PROVE  calls'[c].seq <= settled'[<<subject'.id, k>>] \/ calls'[c].auth < auth'.epoch
  <2>1. calls'[c] # None /\ calls'[c].seq > 0 /\ calls'[c].seq \in Nat
    BY <1>6, NumbersNext DEF Numbered, Numeric
  <2>2. /\ calls[c] # None /\ calls'[c].seq = calls[c].seq /\ calls'[c].key = calls[c].key
        /\ calls'[c].auth = calls[c].auth
    BY <1>2, <1>6, <2>1 DEF NumberedLate
  <2>3. Numbered(c) /\ calls[c].auth \in Nat
    BY <2>1, <2>2, Numbers DEF Numbered, Numeric
  <2>4. calls[c].seq <= settled[<<subject.id, k>>] \/ calls[c].auth < auth.epoch
    BY <1>6, <2>2, <2>3 DEF Shut
  <2> QED
    BY <1>1, <1>2, <1>4, <2>1, <2>2, <2>3, <2>4 DEF EpochsGrow
<1> QED
  BY <1>1, <1>5, <1>6 DEF Shut

\* A step that numbers no call, caches nothing and leaves declarations alone.
LEMMA QuietShut ==
    ASSUME TypeOK, TypeOK', MinorInv, Quiet, age' = age, declaring' = declaring, torn => torn'
    PROVE  \A k \in Keys : Stands(k)' => Shut(k)'
<1> SUFFICES ASSUME NEW k \in Keys, Stands(k)' PROVE Shut(k)'
  OBVIOUS
<1>1. Stands(k) /\ age[k] # None
  BY DEF Stands, Undecided
<1>2. Shut(k) /\ AgeInv
  BY <1>1 DEF MinorInv
<1>3. NumberedLate
  BY DEF Quiet, NoneNumbered, NumberedLate
<1>4. CachedLate(k)
  BY DEF Quiet, NoneCached, CachedLate
<1> QED
  BY <1>1, <1>2, <1>3, <1>4, StaysShut DEF Quiet

\* Every call after the step declares no later than it was numbered.
CallsDeclare == \A d \in Everyone : calls'[d] # None => Declares(calls'[d], fetchSeq')

CacheShrinks ==
    \A k \in Keys : entries'[k] \in {None, entries[k]} /\ retained'[k] \in {None, retained[k]}

\* A quiet step that also leaves the declarations alone.
QuietAge ==
    /\ Quiet /\ CallsDeclare /\ CacheShrinks /\ age' = age /\ declaring' = declaring
    /\ torn => torn'

LEMMA QuietAgeKeeps ==
    ASSUME TypeOK, TypeOK', MinorInv, QuietAge
    PROVE  MinorInv'
<1>1. \A k \in Keys : Stands(k)' => Shut(k)'
  BY QuietShut DEF QuietAge
<1>2. LatchInv'
  BY DEF QuietAge, CacheShrinks, MinorInv, LatchInv
<1>3. fetchSeq' = fetchSeq
  BY DEF QuietAge, Quiet
<1>4. \A k \in Keys : age'[k] # None => age'[k].seq <= fetchSeq'
  BY <1>3 DEF QuietAge, MinorInv, AgeInv
<1>5. \A k \in Keys : declaring'[k] # None => Pending(k)'
  BY DEF QuietAge, MinorInv, AgeInv, Pending
<1>6. AgeInv'
  BY <1>4, <1>5 DEF QuietAge, CallsDeclare, AgeInv
<1> QED
  BY <1>1, <1>2, <1>6 DEF MinorInv

LEMMA ReturnDeclares ==
    ASSUME TypeOK, AgeInv, NEW c \in Everyone, calls[c] # None, Return(c), fetchSeq' = fetchSeq
    PROVE  CallsDeclare
<1> SUFFICES ASSUME NEW d \in Everyone, calls'[d] # None PROVE Declares(calls'[d], fetchSeq)
  BY DEF CallsDeclare
<1>1. calls'[d] = calls[d] \/ (d = c /\ calls'[d] = [calls[d] EXCEPT !.pc = "ending"])
  BY ReturnCalls DEF TypeOK
<1>2. calls[d] # None /\ Declares(calls[d], fetchSeq)
  BY <1>1 DEF AgeInv
<1>3. calls[d] \in CallRecord
  BY <1>2, CallFields DEF TypeOK
<1>4. CASE calls'[d] = calls[d]
  BY <1>2, <1>4
<1>5. CASE calls'[d] = [calls[d] EXCEPT !.pc = "ending"]
  <2>1. /\ calls'[d].pc = "ending" /\ calls'[d].decl = calls[d].decl
        /\ calls'[d].seq = calls[d].seq
    BY <1>3, <1>5 DEF CallRecord
  <2> QED
    BY <1>2, <2>1 DEF Declares
<1> QED
  BY <1>1, <1>4, <1>5

LEMMA CallQuietAge ==
    ASSUME TypeOK, TypeOK', NumberInv, MinorInv, NEW c \in Everyone,
           \/ Refuse(c) \/ Abandon(c) \/ SettleTorn(c) \/ RemintRevoked(c)
           \/ Reenter(c)
    PROVE  QuietAge
<1>1. Quiet
  BY ReturnQuiet, ReenterQuiet
<1>2. /\ UNCHANGED <<store, fetchSeq, age, torn>> /\ calls[c] # None
  BY DEF Refuse, Abandon, SettleTorn, RemintRevoked, Reenter, At, hist
<1>3. CallsDeclare
  <2>1. CASE Return(c)
    BY <1>2, <2>1, ReturnDeclares DEF MinorInv
  <2>2. CASE Reenter(c) /\ ~torn
    <3> DEFINE z == [[calls[c] EXCEPT !.pc = "begun"] EXCEPT !.epoch = consent.epoch]
    <3>1. calls' = [calls EXCEPT ![c] = z] /\ calls[c] \in CallRecord
      BY <2>2, ReenterCall
    <3>2. calls[c].seq = 0
      BY <2>2, Progress DEF Reenter, TypeOK
    <3>3. z.seq = 0 /\ z.decl = calls[c].decl
      BY <3>1, <3>2 DEF CallRecord
    <3> HIDE DEF z
    <3>4. \A d \in Everyone : calls'[d] = IF d = c THEN z ELSE calls[d]
      BY <3>1 DEF TypeOK, CallType
    <3>5. Declares(z, fetchSeq)
      BY <1>2, <3>2, <3>3 DEF MinorInv, AgeInv, Declares
    <3> QED
      BY <1>2, <3>4, <3>5 DEF CallsDeclare, MinorInv, AgeInv
  <2> QED
    BY <2>1, <2>2 DEF Refuse, Abandon, SettleTorn, RemintRevoked, Reenter
<1> QED
  BY <1>1, <1>2, <1>3 DEF QuietAge, CacheShrinks, store

LEMMA RevalidationQuietAge ==
    ASSUME TypeOK, TypeOK', NumberInv, MinorInv, NEW k \in Keys, BeginRevalidation(k)
    PROVE  QuietAge
<1>1. Quiet
  BY BeginRevalidationQuiet
<1>2. UNCHANGED <<store, fetchSeq, age, torn>>
  BY DEF BeginRevalidation, hist
<1>3. \A d \in Everyone : IF d = Lane THEN calls'[d].seq = 0 /\ calls'[d].decl = 0
                          ELSE calls'[d] = calls[d]
  BY DEF BeginRevalidation, TypeOK, CallType
<1>4. CallsDeclare
  <2>1. fetchSeq \in Nat
    BY Numbers DEF Numeric
  <2> QED
    BY <1>2, <1>3, <2>1 DEF CallsDeclare, Declares, MinorInv, AgeInv
<1> QED
  BY <1>1, <1>2, <1>4 DEF QuietAge, CacheShrinks, store

LEMMA OutsideQuietAge ==
    ASSUME TypeOK, TypeOK', NumberInv, MinorInv,
           \/ \E grant \in BOOLEAN : SetConsent(grant)
           \/ \E k \in Keys : ApplyAgeRefused(k) \/ ApplyConflict(k)
           \/ ApplySentinel
           \/ Teardown
    PROVE  QuietAge
<1>1. Quiet
  BY OutsideQuiet
<1>2. UNCHANGED <<calls, fetchSeq, age, declaring>> /\ (torn => torn')
  BY DEF SetConsent, ApplyAgeRefused, ApplyConflict, ApplySentinel, Teardown, store, hist
<1>3. CallsDeclare
  BY <1>2 DEF CallsDeclare, MinorInv, AgeInv
<1>4. CacheShrinks
  <2>1. CASE entries' = entries /\ retained' = retained
    BY <2>1 DEF CacheShrinks
  <2>2. ASSUME NEW k \in Keys, entries' = [entries EXCEPT ![k] = None],
               retained' = [retained EXCEPT ![k] = None]
        PROVE  CacheShrinks
    <3>1. entries \in [Keys -> EntryShape] /\ retained \in [Keys -> EntryShape]
      BY DEF TypeOK, StoreType
    <3> QED
      BY <2>2, <3>1 DEF CacheShrinks
  <2>3. CASE entries' = Nothing /\ retained' = Nothing
    BY <2>3 DEF CacheShrinks, Nothing
  <2>4. \/ entries' = entries /\ retained' = retained
        \/ \E k \in Keys : /\ entries' = [entries EXCEPT ![k] = None]
                           /\ retained' = [retained EXCEPT ![k] = None]
        \/ entries' = Nothing /\ retained' = Nothing
    BY DEF SetConsent, ApplyAgeRefused, ApplyConflict, ApplySentinel, Teardown, store,
           Withdraw, WithdrawAll, Without
  <2> QED
    BY <2>1, <2>2, <2>3, <2>4
<1> QED
  BY <1>1, <1>2, <1>3, <1>4 DEF QuietAge

\* A declaration made now: nothing it concerns stands yet, whatever its age.
LEMMA BeginHostAge ==
    ASSUME TypeOK, TypeOK', MinorInv, NEW c \in Calls, NEW k \in Keys, NEW band \in HostBands,
           BeginHost(c, k, band)
    PROVE  MinorInv'
<1>1. c \in Everyone /\ fetchSeq \in Nat /\ band \in Bands
  BY Bounds, Numbers, ExperimentAssignmentsAssumption DEF Numeric, Bands
<1>2. /\ UNCHANGED <<entries, retained, auth, consent, subject, torn>> /\ fetchSeq' = fetchSeq + 1
      /\ \A d \in Everyone \ {c} : calls'[d] = calls[d]
      /\ calls'[c].seq = fetchSeq + 1 /\ calls'[c].preset = FALSE
      /\ calls'[c].decl \in {0, fetchSeq + 1}
  BY <1>1 DEF BeginHost, TypeOK, CallType
<1>3. \A j \in Keys \ {k} : declaring'[j] = declaring[j] /\ age'[j] = age[j]
  BY <1>1 DEF BeginHost, TypeOK, StoreType, HistType
<1>4. /\ band = "none" => declaring'[k] = declaring[k] /\ age'[k] = age[k]
      /\ band = "adult" => /\ declaring'[k] = None
                           /\ age'[k] = [band |-> "adult", seq |-> fetchSeq + 1, lost |-> FALSE]
      /\ band = "minor" =>
            /\ declaring'[k] = [id |-> fetchSeq + 1, seq |-> fetchSeq + 1, decided |-> FALSE]
            /\ age'[k] = [band |-> "minor", seq |-> fetchSeq + 1, lost |-> FALSE]
  BY DEF BeginHost, TypeOK, StoreType, HistType
<1>5. /\ [id |-> fetchSeq + 1, seq |-> fetchSeq + 1, decided |-> FALSE] # None
      /\ [band |-> "minor", seq |-> fetchSeq + 1, lost |-> FALSE] # None
  <2>1. fetchSeq + 1 \in 1..MaxSeq
    BY <1>1, Bounds DEF BeginHost
  <2>2. [id |-> fetchSeq + 1, seq |-> fetchSeq + 1, decided |-> FALSE] \in Declarations
    BY <2>1 DEF Declarations
  <2>3. [band |-> "minor", seq |-> fetchSeq + 1, lost |-> FALSE] \in Ages
    BY <2>1 DEF Ages, Bands
  <2> QED
    BY <2>2, <2>3, ExperimentAssignmentsAssumption
<1>6. AgeInv'
  <2>1. ASSUME NEW j \in Keys, age'[j] # None PROVE age'[j].seq <= fetchSeq'
    <3>1. CASE age'[j] = age[j]
      BY <1>1, <1>2, <2>1, <3>1, AgeNumbers DEF MinorInv, AgeInv
    <3>2. CASE j = k /\ band # "none"
      BY <1>1, <1>2, <1>4, <3>2 DEF Bands
    <3> QED
      BY <1>3, <1>4, <3>1, <3>2
  <2>2. ASSUME NEW j \in Keys, declaring'[j] # None PROVE Pending(j)'
    <3>1. CASE declaring'[j] = declaring[j] /\ age'[j] = age[j]
      BY <2>2, <3>1 DEF MinorInv, AgeInv, Pending
    <3>2. CASE j = k /\ band # "none"
      <4>1. band = "minor"
        BY <1>1, <1>4, <2>2, <3>2 DEF Bands
      <4>2. age'[k] # None
        BY <1>4, <1>5, <4>1
      <4> QED
        BY <1>1, <1>4, <3>2, <4>1, <4>2 DEF Pending
    <3> QED
      BY <1>3, <1>4, <3>1, <3>2
  <2>3. ASSUME NEW d \in Everyone, calls'[d] # None PROVE Declares(calls'[d], fetchSeq')
    <3>1. CASE d = c
      BY <1>1, <1>2, <3>1 DEF Declares
    <3>2. CASE d # c
      <4>1. calls'[d] = calls[d] /\ Declares(calls[d], fetchSeq) /\ calls[d].decl \in Nat
        BY <1>2, <2>3, <3>2, AgeNumbers DEF MinorInv, AgeInv
      <4> QED
        BY <1>1, <1>2, <4>1 DEF Declares
    <3> QED
      BY <3>1, <3>2
  <2> QED
    BY <2>1, <2>2, <2>3 DEF AgeInv
<1>7. ASSUME NEW j \in Keys, Stands(j)' PROVE Shut(j)'
  <2>1. declaring'[j] = declaring[j] /\ age'[j] = age[j]
    BY <1>1, <1>3, <1>4, <1>7, <1>5 DEF Stands, Undecided, Bands
  <2>2. Stands(j) /\ age[j] # None
    BY <1>2, <1>7, <2>1 DEF Stands, Undecided
  <2>3. Shut(j) /\ AgeInv
    BY <2>2 DEF MinorInv
  <2>4. NumberedLate
    BY <1>1, <1>2 DEF NumberedLate
  <2>5. CachedLate(j) /\ EpochsGrow
    BY <1>2, EpochsKept DEF CachedLate
  <2>6. \A x \in (1..2) \X Keys : settled'[x] >= settled[x]
    BY HostFence
  <2> QED
    BY <1>2, <2>1, <2>2, <2>3, <2>4, <2>5, <2>6, StaysShut
<1>8. LatchInv'
  BY <1>2 DEF MinorInv, LatchInv
<1> QED
  BY <1>6, <1>7, <1>8 DEF MinorInv

\* A dispatched request may become the one that decides: it is no older than
\* the declaration.
LEMMA DispatchAge ==
    ASSUME TypeOK, TypeOK', NumberInv, MinorInv, NEW c \in Everyone, Dispatch(c)
    PROVE  MinorInv'
<1> DEFINE r == calls[c]
           n == IF r.seq = 0 THEN fetchSeq + 1 ELSE r.seq
<1>1. /\ r # None /\ r \in CallRecord /\ r.pc = "begun" /\ r.key \in Keys /\ r.seq \in Nat
      /\ r.decl \in Nat /\ n \in 1..MaxSeq /\ fetchSeq \in Nat /\ r.seq <= fetchSeq
      /\ \A d \in Everyone \ {c} : calls'[d] = calls[d]
      /\ calls'[c].pc = "sent" /\ calls'[c].seq = n /\ calls'[c].key = r.key
      /\ calls'[c].auth = IF r.seq = 0 THEN auth.epoch ELSE r.auth
      /\ calls'[c].decl = r.decl
  <2>1. /\ r # None /\ r \in CallRecord /\ n \in 1..MaxSeq
        /\ \A d \in Everyone \ {c} : calls'[d] = calls[d]
        /\ calls'[c].pc = "sent" /\ calls'[c].seq = n /\ calls'[c].key = r.key
        /\ calls'[c].auth = IF r.seq = 0 THEN auth.epoch ELSE r.auth
        /\ calls'[c].decl = r.decl
    BY DispatchCall
  <2>2. r.pc = "begun"
    BY DEF Dispatch, At
  <2>3. fetchSeq \in Nat /\ r.key \in Keys /\ r.seq \in Nat /\ r.decl \in Nat
    BY <2>1, Numbers, AgeNumbers DEF Numeric
  <2>4. r.seq <= fetchSeq
    BY <2>1 DEF NumberInv
  <2> HIDE DEF r, n
  <2> QED
    BY <2>1, <2>2, <2>3, <2>4
<1>2. /\ UNCHANGED <<entries, retained, settled, auth, consent, torn, age>>
      /\ fetchSeq' = Larger(fetchSeq, n)
  BY DEF Dispatch, hist
<1>3. Declares(r, fetchSeq)
  BY <1>1 DEF MinorInv, AgeInv
<1>4. fetchSeq' >= fetchSeq /\ fetchSeq' >= n /\ fetchSeq' \in Nat
  BY <1>1, <1>2 DEF Larger
<1>5. \A k \in Keys : \/ declaring'[k] = declaring[k]
                      \/ /\ k = r.key /\ declaring[k] # None
                         /\ declaring'[k] = [declaring[k] EXCEPT !.seq = n]
                         /\ declaring[k].id = r.decl \/ r.preset
  <2>1. declaring' = IF declaring[r.key] = None THEN declaring
                     ELSE IF declaring[r.key].id = r.decl \/ (c # Lane /\ r.preset /\ r.band = "minor")
                       THEN [declaring EXCEPT ![r.key].seq = n]
                       ELSE declaring
    BY DEF Dispatch
  <2>2. declaring \in [Keys -> DeclarationShape]
    BY DEF TypeOK, StoreType
  <2> HIDE DEF r, n
  <2> QED
    BY <1>1, <2>1, <2>2
<1>6. ASSUME NEW k \in Keys, declaring[k] # None, declaring'[k] = [declaring[k] EXCEPT !.seq = n]
      PROVE  /\ declaring'[k].id = declaring[k].id /\ declaring'[k].seq = n
             /\ declaring'[k].decided = declaring[k].decided /\ declaring'[k] # None
  <2>1. declaring[k] \in Declarations
    BY <1>6 DEF TypeOK, StoreType, DeclarationShape
  <2> HIDE DEF n
  <2>2. declaring'[k] \in Declarations
    BY <1>1, <1>6, <2>1 DEF Declarations
  <2>3. /\ declaring'[k].id = declaring[k].id /\ declaring'[k].seq = n
        /\ declaring'[k].decided = declaring[k].decided
    BY <1>6, <2>1 DEF Declarations
  <2> QED
    BY <2>2, <2>3, ExperimentAssignmentsAssumption
<1> HIDE DEF n
<1>7. AgeInv'
  <2>1. ASSUME NEW k \in Keys, age'[k] # None PROVE age'[k].seq <= fetchSeq'
    BY <1>1, <1>2, <1>4, <2>1, AgeNumbers DEF MinorInv, AgeInv
  <2>2. ASSUME NEW k \in Keys, declaring'[k] # None PROVE Pending(k)'
    <3>1. CASE declaring'[k] = declaring[k]
      BY <1>2, <2>2, <3>1 DEF MinorInv, AgeInv, Pending
    <3>2. CASE /\ k = r.key /\ declaring[k] # None
               /\ declaring'[k] = [declaring[k] EXCEPT !.seq = n]
               /\ declaring[k].id = r.decl \/ r.preset
      <4>1. Pending(k) /\ age[k].seq <= fetchSeq /\ declaring[k].id \in 1..MaxSeq
        BY <3>2, AgeNumbers DEF MinorInv, AgeInv, Pending
      <4>2. declaring[k].id <= n
        <5>1. CASE r.seq = 0
          BY <1>1, <4>1, <5>1, AgeNumbers DEF n, Pending
        <5>2. CASE r.seq # 0
          BY <1>1, <1>3, <3>2, <4>1, <5>2 DEF n, Declares
        <5> QED
          BY <5>1, <5>2
      <4> QED
        BY <1>2, <1>6, <3>2, <4>1, <4>2 DEF Pending
    <3> QED
      BY <1>5, <3>1, <3>2
  <2>3. ASSUME NEW d \in Everyone, calls'[d] # None PROVE Declares(calls'[d], fetchSeq')
    <3>1. CASE d = c
      <4>1. r.decl <= n /\ r.decl <= fetchSeq
        BY <1>1, <1>3 DEF Declares, n
      <4> QED
        BY <1>1, <1>4, <3>1, <4>1 DEF Declares
    <3>2. CASE d # c
      <4>1. calls'[d] = calls[d] /\ Declares(calls[d], fetchSeq) /\ calls[d].decl \in Nat
        BY <1>1, <2>3, <3>2, AgeNumbers DEF MinorInv, AgeInv
      <4> QED
        BY <1>1, <1>4, <4>1 DEF Declares
    <3> QED
      BY <3>1, <3>2
  <2> QED
    BY <2>1, <2>2, <2>3 DEF AgeInv
<1>8. ASSUME NEW k \in Keys, Stands(k)' PROVE Shut(k)'
  <2>1. Undecided(k) => Undecided(k)'
    BY <1>5, <1>6 DEF Undecided, Pending
  <2>2. Stands(k) /\ age[k] # None /\ age'[k] = age[k]
    BY <1>2, <1>8, <2>1 DEF Stands
  <2>3. Shut(k) /\ AgeInv
    BY <2>2 DEF MinorInv
  <2>4. NumberedLate
    <3>1. calls'[c].seq > fetchSeq \/ (calls'[c].seq = r.seq /\ calls'[c].auth = r.auth)
      BY <1>1 DEF n
    <3> QED
      BY <1>1, <3>1 DEF NumberedLate
  <2>5. CachedLate(k) /\ EpochsGrow
    BY <1>2, EpochsKept DEF CachedLate
  <2>6. subject' = subject \/ subject.id = 0
    BY DEF Dispatch, TypeOK, CallType
  <2> QED
    BY <1>2, <2>2, <2>3, <2>4, <2>5, <2>6, StaysShut, FenceKept
<1>9. LatchInv'
  BY <1>2 DEF MinorInv, LatchInv
<1> QED
  BY <1>7, <1>8, <1>9 DEF MinorInv

\* A re-mint empties the cache; a declaration outlives it only undecided.
LEMMA RemintAge ==
    ASSUME TypeOK, TypeOK', MinorInv, NEW c \in Everyone, Remint(c)
    PROVE  MinorInv'
<1>1. At(c, "sent") /\ calls[c] # None /\ calls[c] \in CallRecord
  BY CallThere DEF Remint
<1>2. /\ entries' = Nothing /\ UNCHANGED <<declaring, fetchSeq, torn>>
      /\ age' = [k \in Keys |-> IF Undecided(k) THEN age[k] ELSE Lost(k)]
      /\ calls' = [calls EXCEPT ![c] = Again(calls[c])]
  BY DEF Remint, Again, Emptied
<1>3. LatchInv'
  BY <1>2 DEF LatchInv, Nothing
<1>4. ASSUME NEW k \in Keys, age'[k] # None
      PROVE  /\ age[k] # None /\ age'[k].seq = age[k].seq /\ age'[k].band = age[k].band
             /\ Undecided(k) \/ age'[k].lost
  <2>1. CASE Undecided(k)
    BY <1>2, <1>4, <2>1
  <2>2. CASE ~Undecided(k)
    <3>1. age'[k] = Lost(k) /\ age[k] # None
      BY <1>2, <1>4, <2>2 DEF Lost
    <3>2. age[k] \in Ages
      BY <3>1 DEF TypeOK, HistType, AgeShape
    <3> QED
      BY <3>1, <3>2 DEF Lost, Ages
  <2> QED
    BY <2>1, <2>2
<1>5. ASSUME NEW k \in Keys PROVE ~Stands(k)'
  <2>1. Undecided(k)' <=> Undecided(k)
    BY <1>2 DEF Undecided
  <2> QED
    BY <1>4, <2>1 DEF Stands
<1>6. ASSUME NEW k \in Keys, age[k] # None PROVE age'[k] # None
  <2>1. age[k] \in Ages
    BY <1>6 DEF TypeOK, HistType, AgeShape
  <2>2. Lost(k) \in Ages
    BY <1>6, <2>1 DEF Lost, Ages
  <2> QED
    BY <1>2, <1>6, <2>2, ExperimentAssignmentsAssumption
<1>7. AgeInv'
  <2>1. \A k \in Keys : age'[k] # None => age'[k].seq <= fetchSeq'
    BY <1>2, <1>4 DEF MinorInv, AgeInv
  <2>2. \A k \in Keys : declaring'[k] # None => Pending(k)'
    BY <1>2, <1>4, <1>6 DEF MinorInv, AgeInv, Pending
  <2>3. ASSUME NEW d \in Everyone, calls'[d] # None PROVE Declares(calls'[d], fetchSeq')
    <3>1. calls'[d] = IF d = c THEN Again(calls[c]) ELSE calls[d]
      BY <1>2 DEF TypeOK, CallType
    <3>2. /\ Again(calls[c]).seq = 0 /\ Again(calls[c]).decl = calls[c].decl
      BY <1>1, AgainCall
    <3> QED
      BY <1>1, <1>2, <2>3, <3>1, <3>2 DEF MinorInv, AgeInv, Declares
  <2> QED
    BY <2>1, <2>2, <2>3 DEF AgeInv
<1> QED
  BY <1>3, <1>5, <1>7 DEF MinorInv

\* A declaration that ends undecided withdraws what is older and fences every
\* older request.
LEMMA EndDeclarationAge ==
    ASSUME TypeOK, TypeOK', NumberInv, MinorInv, NEW c \in Everyone, EndDeclaration(c)
    PROVE  MinorInv'
<1> DEFINE k == calls[c].key
           d == declaring[k]
<1>1. Quiet
  BY EndDeclarationQuiet
<1>2. /\ k \in Keys /\ UNCHANGED <<subject, fetchSeq, torn>> /\ calls' = [calls EXCEPT ![c] = None]
      /\ auth' = auth
  <2>1. At(c, "ending")
    BY DEF EndDeclaration
  <2> QED
    BY <2>1, CallThere, EndDeclarationStore DEF EndDeclaration
<1>3. \A b \in Everyone : calls'[b] # None => calls'[b] = calls[b]
  BY <1>2 DEF TypeOK, CallType
<1>4. CallsDeclare
  BY <1>2, <1>3 DEF CallsDeclare, MinorInv, AgeInv
<1>5. CacheShrinks
  <2>1. \/ entries' = entries /\ retained' = retained
        \/ \E j \in Keys : /\ entries' = [entries EXCEPT ![j] = None]
                           /\ retained' = [retained EXCEPT ![j] = None]
    BY EndDeclarationStore
  <2>2. entries \in [Keys -> EntryShape] /\ retained \in [Keys -> EntryShape]
    BY DEF TypeOK, StoreType
  <2> QED
    BY <2>1, <2>2 DEF CacheShrinks
<1>6. CASE d = None \/ d.id # calls[c].decl
  <2>1. UNCHANGED <<store, age>>
    BY <1>6 DEF EndDeclaration
  <2>2. QuietAge
    BY <1>1, <1>2, <1>4, <1>5, <2>1 DEF QuietAge, store
  <2> QED
    BY <2>2, QuietAgeKeeps
<1>7. CASE d # None /\ d.id = calls[c].decl
  <2>1. /\ age' = IF subject.id = 0 THEN [age EXCEPT ![k] = Lost(k)] ELSE age
        /\ declaring' = [declaring EXCEPT ![k] = None]
    BY <1>7 DEF EndDeclaration
  <2>2. Pending(k) /\ age[k] \in Ages /\ d.id \in 1..MaxSeq
    <3>1. Pending(k)
      BY <1>2, <1>7 DEF MinorInv, AgeInv
    <3> QED
      BY <1>2, <1>7, <3>1, AgeNumbers DEF TypeOK, HistType, AgeShape, Pending
  <2>3. /\ \A j \in Keys \ {k} : age'[j] = age[j] /\ declaring'[j] = declaring[j]
        /\ declaring'[k] = None
        /\ age'[k] = IF subject.id = 0 THEN Lost(k) ELSE age[k]
    BY <1>2, <2>1 DEF TypeOK, StoreType, HistType
  <2>4. Lost(k).seq = age[k].seq /\ Lost(k).lost
    BY <2>2 DEF Lost, Ages, Pending
  <2>5. AgeInv'
    <3>1. \A j \in Keys : age'[j] # None => age'[j].seq <= fetchSeq'
      BY <1>2, <2>2, <2>3, <2>4 DEF MinorInv, AgeInv, Pending
    <3>2. \A j \in Keys : declaring'[j] # None => Pending(j)'
      BY <2>3 DEF MinorInv, AgeInv, Pending
    <3> QED
      BY <1>4, <3>1, <3>2 DEF AgeInv, CallsDeclare
  <2>6. LatchInv'
    BY <1>5 DEF CacheShrinks, MinorInv, LatchInv
  <2>7. ASSUME NEW j \in Keys, Stands(j)' PROVE Shut(j)'
    <3>1. age'[j] = age[j] /\ age[j] # None
      BY <2>3, <2>4, <2>7 DEF Stands
    <3>2. CASE Stands(j)
      <4>1. NumberedLate /\ CachedLate(j)
        BY <1>1, <1>5 DEF Quiet, NoneNumbered, NumberedLate, CacheShrinks, CachedLate
      <4>2. Shut(j) /\ AgeInv
        BY <3>2 DEF MinorInv
      <4> QED
        BY <1>1, <3>1, <4>1, <4>2, StaysShut DEF Quiet
    <3>3. CASE ~Stands(j)
      <4>1. j = k /\ subject.id # 0 /\ ~d.decided /\ ~torn
        BY <1>2, <1>7, <2>3, <2>4, <2>7, <3>1, <3>3 DEF Stands, Undecided
      <4>2. EndWithdraws(d)
        BY <4>1 DEF EndWithdraws
      <4>3. settled' = Raise(settled, subject.id, k, d.id - 1)
        BY <1>7, <4>2 DEF EndDeclaration
      <4>4. \/ entries'[k] = None /\ retained'[k] = None
            \/ /\ entries'[k] = entries[k] /\ retained'[k] = retained[k]
               /\ Lifted[k] # None /\ ~Lifted[k].gated
        <5>1. \/ Withdraw(entries, retained, k)
              \/ /\ UNCHANGED <<entries, retained>>
                 /\ Lifted[k] # None /\ ~Lifted[k].gated
          BY <1>7, <4>2 DEF EndDeclaration
        <5>2. entries \in [Keys -> EntryShape] /\ retained \in [Keys -> EntryShape]
          BY DEF TypeOK, StoreType
        <5> HIDE DEF k
        <5> QED
          BY <1>2, <5>1, <5>2 DEF Withdraw, Without
      <4>5. \A e \in {entries'[k], retained'[k]} : ~(e # None /\ e.gated)
        <5>1. Lifted[k] = IF entries[k] = None THEN retained[k] ELSE entries[k]
          BY <1>2 DEF Lifted
        <5>2. entries[k] = None \/ retained[k] = None
          BY <1>2 DEF MinorInv, LatchInv
        <5> QED
          BY <4>4, <5>1, <5>2
      <4>6. ASSUME NEW b \in Everyone, Numbered(b)', calls'[b].key = k,
                   calls'[b].seq < age'[k].seq
            PROVE  calls'[b].seq <= settled'[<<subject'.id, k>>]
        <5>1. calls'[b].seq \in Nat /\ age[k].seq = d.id
          BY <2>2, <4>6, NumbersNext DEF Numbered, Numeric, Pending
        <5>2. d.id - 1 \in 0..MaxSeq /\ subject.id \in 0..2
          BY <2>2, Bounds DEF TypeOK, CallType
        <5>3. settled'[<<subject.id, k>>] >= d.id - 1 /\ settled'[<<subject.id, k>>] \in Nat
          <6>1. settled'[<<subject.id, k>>] >= d.id - 1
            BY <1>2, <4>1, <4>3, <5>2, RaiseType DEF TypeOK
          <6>2. <<subject.id, k>> \in (1..2) \X Keys
            BY <1>2, <4>1, <5>2
          <6> QED
            BY <6>1, <6>2, NumbersNext DEF Numeric
        <5> HIDE DEF d, k
        <5> QED
          BY <1>2, <2>2, <3>1, <4>1, <4>6, <5>1, <5>3
      <4> QED
        BY <1>2, <4>1, <4>5, <4>6 DEF Shut
    <3> QED
      BY <3>2, <3>3
  <2> QED
    BY <2>5, <2>6, <2>7 DEF MinorInv
<1> QED
  BY <1>6, <1>7

\* The latch after an answer.
LEMMA SettledLatch ==
    ASSUME TypeOK, LatchInv, NEW c \in Everyone, NEW r, NEW o, NEW new, SettleStep(c, r, o, new)
    PROVE  LatchInv'
<1>1. entries \in [Keys -> EntryShape] /\ retained \in [Keys -> EntryShape] /\ r.key \in Keys
  BY DEF TypeOK, StoreType, SettleStep, CallRecord
<1>2. CASE Ignores(r, o)
  BY <1>2 DEF Ignores, LatchInv
<1>3. CASE Closes(r, o) \/ Latches(r, o)
  BY <1>3 DEF Closes, Latches, WithdrawAll, Latch, Emptied, Nothing, LatchInv
<1>4. CASE Drops(r, o)
  <2>1. PICK m, kp : Base(m, kp) /\ entries' = [m EXCEPT ![r.key] = None]
                                /\ retained' = [kp EXCEPT ![r.key] = None]
    BY <1>4 DEF Drops, Without
  <2>2. CASE kp = Nothing
    BY <1>1, <2>1, <2>2 DEF Nothing, LatchInv
  <2>3. CASE m = entries /\ kp = retained
    BY <1>1, <2>1, <2>3 DEF LatchInv
  <2> QED
    BY <2>1, <2>2, <2>3 DEF Base
<1>5. CASE Serves(r, o, new)
  <2>1. PICK m, kp : /\ Base(m, kp) /\ retained' = kp
                     /\ \/ entries' = m
                        \/ kp = Nothing
    BY <1>5 DEF Serves
  <2> QED
    BY <2>1 DEF Base, Nothing, LatchInv
<1> QED
  BY <1>2, <1>3, <1>4, <1>5 DEF SettleStep

\* Which declaration an answer decides, and what is older then.
LEMMA DecisionIsNewer ==
    ASSUME TypeOK, AgeInv, NEW c \in Everyone, NEW r, NEW o, NEW new, SettleStep(c, r, o, new),
           NEW k \in Keys, Undecided(k), ~Undecided(k)'
    PROVE  /\ k = r.key /\ Decides(r, o) /\ age[k] # None
           /\ age[k].seq \in Nat /\ r.seq >= age[k].seq
<1>1. declaring[k] # None /\ ~declaring[k].decided /\ declaring'[k] # declaring[k]
  BY DEF Undecided
<1>2. declaring' = Decided(r, o) /\ r.key \in Keys
  BY DEF SettleStep, CallRecord
<1>3. declaring \in [Keys -> DeclarationShape]
  BY DEF TypeOK, StoreType
<1>4. k = r.key /\ declaring[k].seq = r.seq /\ Decides(r, o)
  BY <1>1, <1>2, <1>3 DEF Decided
<1>5. Pending(k)
  BY <1>1 DEF AgeInv
<1> QED
  BY <1>1, <1>4, <1>5, AgeNumbers DEF Pending

\* A standing declaration lets no older assignment through.
LEMMA InstallAfterMinor ==
    ASSUME TypeOK, NEW c \in Everyone, NEW r, r # None, NEW o, NEW new, SettleStep(c, r, o, new),
           age[r.key] # None, Shut(r.key), Installs(r, o)
    PROVE  r.seq >= age[r.key].seq
<1>1. r.key \in Keys /\ calls[c] = r /\ r.seq > 0 /\ ~o.blocked
  BY DEF SettleStep, CallRecord, Installs
<1>2. Numbered(c) /\ r.seq \in Nat /\ r.auth \in Nat /\ auth.epoch \in Nat
      /\ age[r.key].seq \in Nat
  BY <1>1, Numbers, AgeNumbers DEF Numbered, Numeric
<1>3. /\ r.auth = auth.epoch /\ subject.id = r.subj
      /\ ~(r.seq <= settled[<<subject.id, r.key>>])
  BY <1>1 DEF Installs, Admitted, Current, Fresh, Fenced
<1> QED
  BY <1>1, <1>2, <1>3 DEF Shut

\* The answer that decides leaves nothing older cached and shuts out every
\* older request.
LEMMA DecisionShuts ==
    ASSUME TypeOK, TypeOK', NumberInv, NEW c \in Everyone, NEW r, r # None, NEW o, NEW new,
           SettleStep(c, r, o, new), Decides(r, o),
           age[r.key] # None, age[r.key].seq \in Nat, r.seq >= age[r.key].seq
    PROVE  Shut(r.key)'
<1>1. /\ r.key \in Keys /\ calls[c] = r /\ r.seq > 0 /\ UNCHANGED <<subject, age>>
      /\ settled' = Fence(r, o) /\ Return(c) /\ (o.all => o.blocked)
      /\ (o.drop => ~o.transient) /\ (o.new => ~o.transient)
  BY DEF SettleStep, CallRecord
<1>2. /\ subject.id # 0 /\ subject.id = r.subj /\ Admitted(r, o)
      /\ o.all \/ o.drop \/ Installs(r, o)
  BY DEF Decides, Current, Admitted
<1>3. \A e \in {entries'[r.key], retained'[r.key]} : e # None => e.seq >= age[r.key].seq
  <2>1. CASE o.all
    BY <1>1, <1>2, <2>1, SettledAuth DEF WithdrawsAll, Nothing
  <2>2. CASE o.drop
    BY <1>2, <2>2, SettledAuth DEF WithdrawsOne
  <2>3. CASE Installs(r, o)
    BY <2>3 DEF SettleStep
  <2> QED
    BY <1>2, <2>1, <2>2, <2>3
<1>4. /\ auth'.epoch = auth.epoch \/ auth'.epoch = auth.epoch + 1
      /\ o.all => auth'.epoch = auth.epoch + 1
      /\ auth.epoch \in Nat /\ auth'.epoch \in Nat /\ r.auth \in Nat /\ r.seq \in Nat
      /\ r.auth <= auth.epoch
  <2>1. /\ auth'.epoch = auth.epoch \/ auth'.epoch = auth.epoch + 1
        /\ o.all => auth'.epoch = auth.epoch + 1
    BY <1>2, SettledAuth DEF WithdrawsAll
  <2> QED
    BY <1>1, <2>1, Numbers, NumbersNext DEF Numeric, NumberInv
<1>5. ASSUME NEW b \in Everyone, Numbered(b)', calls'[b].key = r.key,
             calls'[b].seq < age'[r.key].seq
      PROVE  calls'[b].seq <= settled'[<<subject'.id, r.key>>] \/ calls'[b].auth < auth'.epoch
  <2>1. /\ calls[b] # None /\ calls'[b].seq = calls[b].seq /\ calls'[b].auth = calls[b].auth
        /\ Numbered(b) /\ calls[b].seq \in Nat /\ calls[b].auth \in Nat
    <3>1. calls'[b] = calls[b] \/ (b = c /\ calls'[b] = [calls[b] EXCEPT !.pc = "ending"])
      BY <1>1, <1>5, ReturnCalls DEF TypeOK, Numbered
    <3>2. calls[b] # None
      BY <1>1, <1>5, <3>1 DEF Numbered
    <3>3. calls[b] \in CallRecord
      BY <3>2, CallFields DEF TypeOK
    <3>4. calls'[b].seq = calls[b].seq /\ calls'[b].auth = calls[b].auth
      BY <3>1, <3>3 DEF CallRecord
    <3> QED
      BY <1>5, <3>2, <3>4, Numbers DEF Numbered, Numeric
  <2>2. calls[b].seq < r.seq
    BY <1>1, <1>4, <1>5, <2>1
  <2>3. calls[b].auth <= r.auth
    BY <1>1, <1>4, <2>1, <2>2 DEF NumberInv, Numbered
  <2>4. CASE ~Fresh(r) \/ o.all
    BY <1>4, <2>1, <2>3, <2>4 DEF Fresh
  <2>5. CASE Fresh(r) /\ ~o.all
    <3>1. ~o.transient
      BY <1>1, <1>2, <2>5 DEF Installs
    <3>2. settled' = Raise(settled, r.subj, r.key, r.seq)
      BY <1>1, <1>2, <2>5, <3>1 DEF Fence
    <3>3. r.subj \in 0..2 /\ r.seq \in 0..MaxSeq
      BY <1>1 DEF SettleStep, CallRecord
    <3>4. settled'[<<r.subj, r.key>>] >= r.seq
      BY <1>1, <1>2, <3>2, <3>3, RaiseType DEF TypeOK
    <3>5. settled'[<<r.subj, r.key>>] \in Nat
      BY <1>1, <1>2, <3>3, NumbersNext DEF Numeric
    <3> QED
      BY <1>1, <1>2, <1>4, <2>1, <2>2, <3>4, <3>5
  <2> QED
    BY <2>4, <2>5
<1> QED
  BY <1>1, <1>2, <1>3, <1>5 DEF Shut

LEMMA SettleAge ==
    ASSUME TypeOK, TypeOK', NumberInv, MinorInv, NEW c \in Everyone, NEW r, r # None,
           NEW o, NEW new, SettleStep(c, r, o, new)
    PROVE  MinorInv'
<1>1. /\ calls[c] = r /\ r.key \in Keys /\ Return(c) /\ UNCHANGED <<subject, fetchSeq, torn, age>>
      /\ declaring' = Decided(r, o) /\ settled' = Fence(r, o) /\ consent' = consent
  BY DEF SettleStep, CallRecord
<1>2. LatchInv'
  BY SettledLatch DEF MinorInv
<1>3. \A k \in Keys : \/ declaring'[k] = declaring[k]
                      \/ /\ declaring[k] # None
                         /\ declaring'[k] = [declaring[k] EXCEPT !.decided = TRUE]
  <2>1. declaring \in [Keys -> DeclarationShape]
    BY DEF TypeOK, StoreType
  <2> QED
    BY <1>1, <2>1 DEF Decided
<1>4. ASSUME NEW k \in Keys, declaring[k] # None,
             declaring'[k] = [declaring[k] EXCEPT !.decided = TRUE]
      PROVE  declaring'[k].id = declaring[k].id /\ declaring'[k].seq = declaring[k].seq
  <2>1. declaring[k] \in Declarations
    BY <1>4 DEF TypeOK, StoreType, DeclarationShape
  <2> QED
    BY <1>4, <2>1 DEF Declarations
<1>5. AgeInv'
  <2>1. CallsDeclare
    BY <1>1, ReturnDeclares DEF MinorInv
  <2>2. \A k \in Keys : age'[k] # None => age'[k].seq <= fetchSeq'
    BY <1>1 DEF MinorInv, AgeInv
  <2>3. \A k \in Keys : declaring'[k] # None => Pending(k)'
    BY <1>1, <1>3, <1>4 DEF MinorInv, AgeInv, Pending
  <2> QED
    BY <2>1, <2>2, <2>3 DEF AgeInv, CallsDeclare
<1>6. EpochsGrow
  BY <1>1, SettledAuth, Numbers DEF EpochsGrow, Numeric
<1>7. \A x \in (1..2) \X Keys : settled'[x] >= settled[x]
  <2>1. CASE settled' = settled
    BY <2>1, FenceKept
  <2>2. CASE settled' = Raise(settled, r.subj, r.key, r.seq)
    <3>1. r.subj \in 0..2 /\ r.seq \in 0..MaxSeq
      BY DEF SettleStep, CallRecord
    <3> QED
      BY <1>1, <2>2, <3>1, RaiseType DEF TypeOK
  <2> QED
    BY <1>1, <2>1, <2>2 DEF Fence
<1>8. NumberedLate
  <2>1. NoneNumbered
    BY <1>1, <1>6, ReturnNumbers
  <2> QED
    BY <2>1 DEF NoneNumbered, NumberedLate
<1>9. ASSUME NEW k \in Keys, Stands(k)' PROVE Shut(k)'
  <2>1. age'[k] = age[k] /\ age[k] # None
    BY <1>1, <1>9 DEF Stands
  <2>2. CASE Stands(k)
    <3>1. Shut(k) /\ AgeInv
      BY <2>2 DEF MinorInv
    <3>2. k = r.key /\ Installs(r, o) => new.seq >= age[k].seq
      BY <2>1, <3>1, InstallAfterMinor DEF SettleStep
    <3>3. CachedLate(k)
      BY <3>2, SettledCache DEF CachedLate
    <3> QED
      BY <1>1, <1>6, <1>7, <1>8, <2>1, <3>1, <3>3, StaysShut
  <2>3. CASE ~Stands(k)
    <3>1. Undecided(k) /\ ~Undecided(k)'
      BY <1>1, <1>9, <2>1, <2>3 DEF Stands
    <3> QED
      BY <2>1, <3>1, DecisionIsNewer, DecisionShuts DEF MinorInv
  <2> QED
    BY <2>2, <2>3
<1> QED
  BY <1>2, <1>5, <1>9 DEF MinorInv

\* The number of a cached assignment.
LEMMA CachedSeq ==
    ASSUME TypeOK, NEW k \in Keys, NEW e \in {entries[k], retained[k]}, e # None
    PROVE  e.seq \in Nat
BY Bounds DEF TypeOK, StoreType, EntryShape

LEMMA CachedSeqNext ==
    TypeOK' => \A k \in Keys : \A e \in {entries'[k], retained'[k]} : e # None => e.seq \in Nat
BY Bounds DEF TypeOK, StoreType, EntryShape

\* What the last step returned to its caller.
ToldFits == told # None => AgeFits(told.key, told.entry)

\* What a call returns after a standing or a pending declaration.
LEMMA SettleTells ==
    ASSUME TypeOK, TypeOK', NumberInv, MinorInv, NEW c \in Everyone, NEW r, r # None,
           NEW o, NEW new, SettleStep(c, r, o, new)
    PROVE  ToldFits'
<1> DEFINE k == r.key
           served == IF entries'[k] = None THEN None
                     ELSE IF \/ entries'[k].band # r.band
                             \/ /\ entries'[k].gated
                                /\ (declaring'[k] # None \/ k \notin confirmed')
                       THEN None ELSE entries'[k]
           result == IF o.new THEN new ELSE IF o.transient THEN Cached(r) ELSE None
           source == IF Installs(r, o) THEN new ELSE Cached(r)
           plain == Refused(r) \/ (r.auth # auth'.epoch /\ ~o.blocked) \/ ~Current(r)
           late == ~Refused(r) /\ Current(r) /\ Fenced(r) /\ ~o.transient /\ ~o.blocked
           answer == CASE plain -> None
                       [] late -> served
                       [] OTHER -> IF Withheld(r, o, source) THEN None ELSE result
<1>1. /\ calls[c] = r /\ k \in Keys /\ UNCHANGED <<subject, torn, age>> /\ ~torn
      /\ declaring' = Decided(r, o) /\ told' = Told(r, o, new)
      /\ (o.new => ~o.blocked /\ ~o.transient)
      /\ (o.drop => ~o.transient) /\ (o.all => ~o.transient)
  BY DEF SettleStep, CallRecord
<1>2. told' = IF answer = None THEN None ELSE [key |-> k, entry |-> answer]
  BY <1>1 DEF Told
<1> HIDE DEF answer
<1> SUFFICES ASSUME answer # None, age[k] # None, age[k].band = "minor", ~age[k].lost,
                    answer.gated, answer.seq < age[k].seq
             PROVE  FALSE
  BY <1>1, <1>2 DEF ToldFits, AgeFits, PredatesMinor
<1>3. answer # None
  OBVIOUS
<1>4. MinorInv'
  BY SettleAge
<1>5. age[k].seq \in Nat
  BY <1>1, AgeNumbers
<1>6. \/ answer = served
      \/ answer = result /\ ~plain /\ ~late /\ ~Withheld(r, o, source)
  BY <1>3 DEF answer
<1>7. o.new /\ ~plain /\ ~late => Installs(r, o)
  <2>1. SUFFICES ASSUME o.new, ~plain, ~late PROVE Installs(r, o)
    OBVIOUS
  <2>2. /\ ~Refused(r) /\ r.auth = auth'.epoch /\ Current(r) /\ ~Fenced(r)
    BY <1>1, <2>1
  <2>3. r.auth <= auth.epoch /\ r.auth \in Nat /\ auth.epoch \in Nat
    BY <1>1, Numbers DEF NumberInv, Numeric
  <2>4. auth'.epoch = auth.epoch \/ auth'.epoch = auth.epoch + 1
    BY SettledAuth
  <2>5. Fresh(r)
    BY <2>2, <2>3, <2>4 DEF Fresh
  <2> QED
    BY <1>1, <2>1, <2>2, <2>5 DEF Installs, Admitted, Skips
<1>8. \A e \in {entries'[k], retained'[k]} :
         Shut(k)' /\ e # None /\ e.gated => ~(e.seq < age[k].seq)
  BY <1>1, <1>5, CachedSeqNext DEF Shut
<1>9. \A e \in {entries[k], retained[k]} :
         Shut(k) /\ e # None /\ e.gated => ~(e.seq < age[k].seq)
  BY <1>1, <1>5, CachedSeq DEF Shut
<1>10. CASE Undecided(k)'
  <2>1. declaring'[k] # None /\ ~declaring'[k].decided
    BY <1>10 DEF Undecided
  <2>2. answer # served
    BY <1>3, <2>1
  <2>3. answer = result /\ ~plain /\ ~late /\ ~Withheld(r, o, source)
    BY <1>6, <2>2
  <2>4. source = None \/ source.gated => FALSE
    BY <1>1, <2>1, <2>3 DEF Withheld
  <2>5. CASE o.new
    BY <1>7, <2>3, <2>4, <2>5
  <2>6. CASE ~o.new
    BY <1>1, <1>3, <2>3, <2>4, <2>6 DEF Installs
  <2> QED
    BY <2>5, <2>6
<1>11. CASE ~Undecided(k)'
  <2>1. Stands(k)' /\ Shut(k)'
    BY <1>1, <1>4, <1>11 DEF Stands, MinorInv
  <2>2. CASE answer = served
    BY <1>3, <1>8, <2>1, <2>2
  <2>3. CASE answer = result /\ ~plain /\ ~late
    <3>1. CASE o.new
      <4>1. Installs(r, o)
        BY <1>7, <2>3, <3>1
      <4>2. answer = entries'[k]
        BY <2>3, <3>1, <4>1 DEF SettleStep
      <4> QED
        BY <1>3, <1>8, <2>1, <4>2
    <3>2. CASE ~o.new /\ o.transient
      <4>1. answer = entries[k]
        BY <1>3, <2>3, <3>2 DEF Cached
      <4>2. ~Decides(r, o)
        BY <1>1, <3>2 DEF Decides, Installs
      <4>3. declaring'[k] = declaring[k]
        BY <1>1, <4>2 DEF Decided
      <4>4. Stands(k)
        BY <1>1, <1>11, <4>3 DEF Stands, Undecided
      <4> QED
        BY <1>1, <1>3, <1>9, <4>1, <4>4 DEF MinorInv
    <3> QED
      BY <1>3, <2>3, <3>1, <3>2
  <2> QED
    BY <1>6, <2>2, <2>3
<1> QED
  BY <1>10, <1>11

LEMMA MinorInit == Init => MinorInv /\ ToldFits
<1> SUFFICES ASSUME Init PROVE MinorInv /\ ToldFits
  OBVIOUS
<1>1. /\ \A c \in Everyone : calls[c] = None
      /\ \A k \in Keys : entries[k] = None /\ age[k] = None /\ declaring[k] = None
      /\ told = None
  BY DEF Init, Nothing
<1> QED
  BY <1>1 DEF MinorInv, LatchInv, AgeInv, Stands, ToldFits

LEMMA MinorStep ==
    TypeOK /\ TypeOK' /\ NumberInv /\ MinorInv /\ ToldFits /\ [Next]_vars => MinorInv' /\ ToldFits'
<1> SUFFICES ASSUME TypeOK, TypeOK', NumberInv, MinorInv, ToldFits, [Next]_vars
             PROVE  MinorInv' /\ ToldFits'
  OBVIOUS
<1>1. CASE UNCHANGED vars
  BY <1>1 DEF vars, store, hist, MinorInv, LatchInv, AgeInv, Pending, Stands, Undecided, Shut,
              Numbered, ToldFits, AgeFits, PredatesMinor
<1>2. ASSUME NEW c \in Everyone, NEW a \in Answers, Settle(c, a) PROVE MinorInv' /\ ToldFits'
  <2>1. PICK o, new : SettleStep(c, calls[c], o, new)
    BY <1>2, Settles
  <2>2. calls[c] # None
    BY <1>2 DEF Settle, At
  <2> QED
    BY <2>1, <2>2, SettleAge, SettleTells
<1>3. CASE \E c \in Calls, k \in Keys, band \in HostBands : BeginHost(c, k, band)
  BY <1>3, BeginHostAge DEF BeginHost, ToldFits
<1>4. CASE \E k \in Keys : BeginRevalidation(k)
  BY <1>4, RevalidationQuietAge, QuietAgeKeeps DEF BeginRevalidation, ToldFits
<1>5. ASSUME NEW c \in Everyone,
             Refuse(c) \/ Abandon(c) \/ RemintRevoked(c) \/ Reenter(c) \/ SettleTorn(c)
      PROVE  MinorInv' /\ ToldFits'
  <2>1. told' = None
    BY <1>5 DEF Refuse, Abandon, RemintRevoked, Reenter, SettleTorn
  <2> QED
    BY <1>5, <2>1, CallQuietAge, QuietAgeKeeps DEF ToldFits
<1>6. ASSUME NEW c \in Everyone, Dispatch(c) \/ Remint(c) \/ EndDeclaration(c)
      PROVE  MinorInv' /\ ToldFits'
  <2>1. told' = None
    BY <1>6 DEF Dispatch, Remint, EndDeclaration
  <2> QED
    BY <1>6, <2>1, DispatchAge, RemintAge, EndDeclarationAge DEF ToldFits
<1>7. CASE \/ \E grant \in BOOLEAN : SetConsent(grant)
           \/ \E k \in Keys : ApplyAgeRefused(k) \/ ApplyConflict(k)
           \/ ApplySentinel
           \/ Teardown
  <2>1. told' = None
    BY <1>7 DEF SetConsent, ApplyAgeRefused, ApplyConflict, ApplySentinel, Teardown
  <2> QED
    BY <1>7, <2>1, OutsideQuietAge, QuietAgeKeeps DEF ToldFits
<1> QED
  BY <1>1, <1>2, <1>3, <1>4, <1>5, <1>6, <1>7 DEF Next

\* Once the host has declared a minor, and as long as the subject it was
\* declared for is the current one, no getter shows and no call returns an
\* assignment of a real subject that was decided without the declaration,
\* whatever calls overlap, fail or are abandoned.
THEOREM DeclaredMinorNotServed == Spec => []MinorNotServed
<1>1. TypeOK /\ MinorInv /\ ToldFits => MinorNotServed
  <2> SUFFICES ASSUME TypeOK, MinorInv, ToldFits, NEW k \in Keys, Visible(k) # None,
                      PredatesMinor(k, Visible(k)), ~age[k].lost
               PROVE  FALSE
    BY DEF MinorNotServed, ToldFits, AgeFits
  <2>1. Visible(k) = entries[k] /\ entries[k] # None /\ ~torn
    BY DEF Visible, Served
  <2>2. /\ age[k] # None /\ age[k].band = "minor" /\ entries[k].gated
        /\ entries[k].seq < age[k].seq
    BY <2>1 DEF PredatesMinor
  <2>3. declaring[k] = None
    BY <2>1, <2>2 DEF Visible, Served
  <2>4. Shut(k)
    BY <2>1, <2>2, <2>3 DEF MinorInv, Stands, Undecided
  <2>5. entries[k].seq \in Nat /\ age[k].seq \in Nat
    BY <2>1, <2>2, CachedSeq, AgeNumbers
  <2> QED
    BY <2>1, <2>2, <2>4, <2>5 DEF Shut
<1>2. TypeOK /\ TypeOK' /\ CacheInv /\ MinorInv /\ ToldFits /\ [Next]_vars => MinorInv' /\ ToldFits'
  BY MinorStep DEF CacheInv
<1> QED
  BY <1>1, <1>2, MinorInit, CacheCorrect, PTL DEF Spec

=============================================================================
