--------------------------- MODULE ClientLifecycle ---------------------------
(***************************************************************************)
(* The life of a client's goroutines and how Close ends it (client.go):    *)
(* Track calls and SetConsent calls that Close waits for, the default-mode *)
(* consent sender behind its bounded channel (consent.go), the worker as   *)
(* far as Close sees it, the experiments lane, and any number of Close     *)
(* calls, each under a context of its own that may expire at any moment.   *)
(*                                                                         *)
(* What an event is, what a batch holds and what the spool stores belongs  *)
(* to EventPipeline and DiskSpool: here the worker holds work or does not. *)
(* The receipts of the consent floor (ConsentFloor) are none, durable on   *)
(* disk, or owed.                                                          *)
(***************************************************************************)
EXTENDS Integers, Sequences, FiniteSets

CONSTANTS Closers,        \* Close calls
          Tracks,         \* Track calls
          Buffer,         \* consentSendBuffer, the capacity of consentSends
          MaxDecisions,   \* bound: SetConsent calls
          Nobody          \* no Close call

ASSUME LifecycleAssumption == /\ Buffer \in Nat \ {0}
                              /\ Nobody \notin Closers /\ MaxDecisions \in Nat

VARIABLES
    floor,      \* Config enables the consent floor
    closed,     \* c.closed
    stop,       \* c.stop is closed
    \* Track and SetConsent
    tracking,   \* the Track calls that run, counted in trackWG
    tickets,    \* consentTicketNext
    serving,    \* consentTicketServing
    handing,    \* the serving decision's enqueueConsentPublish: none, try, full
    receipts,   \* the floor's receipts: none, durable, owed
    \* the consent sender
    sends,      \* consentSends, a sequence of decisions
    sender,     \* off, run, draining, done
    told,       \* the last decision handed to the transport
    \* the worker
    worker,     \* select, flush, done
    held,       \* the batch or the spool holds undelivered work
    flushing,   \* the Close call whose flush the worker serves
    reply,      \* per Close call: the answer of its flush, or "none"
    discarded,  \* closeDiscardedEvents > 0
    lane,       \* the experiments lane: run, done
    \* Close
    expired,    \* per Close call: its context is over
    call,       \* per Close call: where it stands
    err,        \* per Close call: the errors joined so far, then its result
    cut,        \* per Close call: its local expired
    waitsFor,   \* per Close call: whose closeDone it waits for
    inFlight,   \* closeInFlight: the Close call, or Nobody
    complete,   \* closeComplete
    closeErr, closeExpired,
    \* history, for the properties only
    gated       \* a final flush was refused by the receipt gate or an age hold

closeVars  == <<expired, call, err, cut, waitsFor, inFlight, complete, closeErr, closeExpired>>
hostVars   == <<closed, tracking, tickets, serving, handing, receipts>>
senderVars == <<sends, sender, told>>
workerVars == <<worker, held, flushing, reply, discarded, gated>>
vars == <<floor, stop, lane, closeVars, hostVars, senderVars, workerVars>>

Errors == {"ctx", "flush", "gated", "pending", "lost"}

Init ==
    /\ floor \in BOOLEAN
    /\ closed = FALSE /\ stop = FALSE /\ lane = "run"
    /\ tracking = {}
    /\ tickets = 0 /\ serving = 0 /\ handing = "none" /\ receipts = "none"
    /\ sends = <<>> /\ sender = "off" /\ told = 0
    /\ worker = "select" /\ held \in BOOLEAN
    /\ flushing = Nobody /\ reply = [c \in Closers |-> "none"]
    /\ discarded = FALSE
    /\ expired = [c \in Closers |-> FALSE] /\ call = [c \in Closers |-> "idle"]
    /\ err = [c \in Closers |-> {}] /\ cut = [c \in Closers |-> FALSE]
    /\ waitsFor = [c \in Closers |-> Nobody]
    /\ inFlight = Nobody /\ complete = FALSE /\ closeErr = {} /\ closeExpired = FALSE
    /\ gated = FALSE
-----------------------------------------------------------------------------
(* Track and SetConsent, as far as Close sees them.                        *)

\* Admitted under lifecycleMu, counted in trackWG, on the network.
TrackBegins(t) ==
    /\ ~closed /\ t \notin tracking
    /\ tracking' = tracking \cup {t}
    /\ UNCHANGED <<floor, stop, lane, closed, tickets, serving, handing, receipts, closeVars, senderVars, workerVars>>

TrackEnds(t) ==
    /\ t \in tracking
    /\ tracking' = tracking \ {t}
    /\ UNCHANGED <<floor, stop, lane, closed, tickets, serving, handing, receipts, closeVars, senderVars, workerVars>>

TracksOver == tracking = {}

\* The fast half of a decision: admission and ticket, under lifecycleMu.
SetConsent ==
    /\ ~closed /\ tickets < MaxDecisions
    /\ tickets' = tickets + 1
    /\ UNCHANGED <<floor, stop, lane, closed, tracking, serving, handing, receipts, closeVars, senderVars, workerVars>>

\* Its slow half, in ticket order.  Under the floor it leaves a receipt.
DecisionRecorded ==
    /\ floor /\ serving < tickets
    /\ receipts' \in {"durable", "owed"}
    /\ serving' = serving + 1
    /\ UNCHANGED <<floor, stop, lane, closed, tracking, tickets, handing, closeVars, senderVars, workerVars>>

\* Without the floor it goes to the sender: startConsentSender, then the loop
\* of enqueueConsentPublish, whose two selects are separate steps.
StartSender == IF sender = "off" THEN "run" ELSE sender

DecisionHandsOver ==
    /\ ~floor /\ serving < tickets /\ handing = "none"
    /\ handing' = "try" /\ sender' = StartSender
    /\ UNCHANGED <<floor, stop, lane, closed, tracking, tickets, serving, receipts, sends, told, closeVars, workerVars>>

DecisionEnqueued ==
    /\ handing = "try" /\ Len(sends) < Buffer
    /\ sends' = Append(sends, serving + 1)
    /\ handing' = "none" /\ serving' = serving + 1
    /\ UNCHANGED <<floor, stop, lane, closed, tracking, tickets, receipts, sender, told, closeVars, workerVars>>

BacklogFull ==
    /\ handing = "try" /\ Len(sends) = Buffer
    /\ handing' = "full"
    /\ UNCHANGED <<floor, stop, lane, closed, tracking, tickets, serving, receipts, senderVars, closeVars, workerVars>>

\* The channel may have been emptied since: then nothing is dropped.
Trimmed(q) == IF q = <<>> THEN q ELSE Tail(q)

\* Mutant: the decision that meets a full channel is the one given up.
DropNewest ==
    /\ handing = "full"
    /\ handing' = "none" /\ serving' = serving + 1
    /\ UNCHANGED <<floor, stop, lane, closed, tracking, tickets, receipts, sends, sender, told, closeVars, workerVars>>

DropOldest ==
    /\ handing = "full"
    /\ handing' = "try" /\ sends' = Trimmed(sends)
    /\ UNCHANGED <<floor, stop, lane, closed, tracking, tickets, serving, receipts, sender, told, closeVars, workerVars>>

\* Mutant: no fence for decisions under way.
DecisionsUnfenced == TRUE

DecisionsOver == serving = tickets
-----------------------------------------------------------------------------
(* consentSender                                                           *)

\* Its selects choose freely between the channel and a closed stop; once the
\* stop was seen an empty channel ends it.  The request of publishConsent is
\* part of the step, and its failure is only logged: a sender that is busy is
\* one that does not take the next decision yet.
SenderTakes ==
    /\ sender \in {"run", "draining"} /\ sends # <<>>
    /\ told' = Head(sends) /\ sends' = Tail(sends)
    /\ UNCHANGED <<floor, stop, lane, sender, hostVars, closeVars, workerVars>>

SenderStops ==
    /\ sender = "run" /\ stop
    /\ sender' = "draining"
    /\ UNCHANGED <<floor, stop, lane, sends, told, hostVars, closeVars, workerVars>>

SenderExits ==
    /\ sender = "draining" /\ sends = <<>>
    /\ sender' = "done"
    /\ UNCHANGED <<floor, stop, lane, sends, told, hostVars, closeVars, workerVars>>

LaneExits ==
    /\ lane = "run" /\ stop
    /\ lane' = "done"
    /\ UNCHANGED <<floor, stop, hostVars, senderVars, closeVars, workerVars>>
-----------------------------------------------------------------------------
(* The worker, as far as Close sees it: it takes events, sends what it     *)
(* holds, serves a flush and stops.  When it sends is RetryPacing's.       *)

SelectEvent ==
    /\ worker = "select" /\ ~closed
    /\ held' = TRUE
    /\ UNCHANGED <<floor, stop, lane, worker, flushing, reply, discarded, gated, hostVars, senderVars, closeVars>>

\* What it holds is delivered or dropped for good; what is kept for a retry
\* it still holds.
Publish ==
    /\ worker = "select" /\ held
    /\ held' = FALSE
    /\ UNCHANGED <<floor, stop, lane, worker, flushing, reply, discarded, gated, hostVars, senderVars, closeVars>>

SelectFlush(c) ==
    /\ worker = "select" /\ call[c] = "flush"
    /\ worker' = "flush" /\ flushing' = c
    /\ call' = [call EXCEPT ![c] = "reply"]
    /\ UNCHANGED <<floor, stop, lane, held, reply, discarded, gated, hostVars, senderVars, expired, err, cut, waitsFor, inFlight, complete, closeErr, closeExpired>>

\* How flushAvailable ends: all is delivered or discarded; something was
\* refused for good; something is left for a retry; nothing was sent behind
\* the receipt gate or an age hold; or the caller's context ended.
FlushEnds(o) ==
    /\ worker = "flush"
    /\ \/ o = "ok" /\ held' = FALSE
       \/ o = "flush" /\ held /\ held' \in BOOLEAN
       \/ o = "gated" /\ held /\ held' = TRUE
       \/ o = "ctx" /\ held /\ expired[flushing] /\ held' = TRUE
    /\ worker' = "select" /\ flushing' = Nobody
    /\ reply' = [reply EXCEPT ![flushing] = o]
    /\ gated' = (gated \/ o = "gated")
    /\ UNCHANGED <<floor, stop, lane, discarded, hostVars, senderVars, closeVars>>

\* The remnant is spooled or, under the floor, counted as discarded.
SelectStop ==
    /\ worker = "select" /\ stop
    /\ worker' = "done"
    /\ discarded' \in {FALSE, floor /\ held}
    /\ UNCHANGED <<floor, stop, lane, held, flushing, reply, gated, hostVars, senderVars, closeVars>>
-----------------------------------------------------------------------------
(* Close                                                                   *)

ContextEnds(c) ==
    /\ call[c] \notin {"idle", "returned"} /\ ~expired[c]
    /\ expired' = [expired EXCEPT ![c] = TRUE]
    /\ UNCHANGED <<floor, stop, lane, call, err, cut, waitsFor, inFlight, complete, closeErr, closeExpired, hostVars, senderVars, workerVars>>

Close(c) ==
    /\ call[c] = "idle"
    /\ closed' = TRUE
    /\ call' = [call EXCEPT ![c] = "tracks"]
    /\ UNCHANGED <<floor, stop, lane, tracking, tickets, serving, handing, receipts, expired, err, cut, waitsFor, inFlight, complete, closeErr, closeExpired, senderVars, workerVars>>

sharedVars == <<inFlight, complete, closeErr, closeExpired>>
restVars   == <<floor, lane, hostVars, senderVars, workerVars>>

\* A step of c alone: where it goes next and what it has joined to its error.
Moves(c, to, e) ==
    /\ call' = [call EXCEPT ![c] = to]
    /\ err' = [err EXCEPT ![c] = e]

Return(c, e) == Moves(c, "returned", e)

\* closeDiscardVerdict
Folded(e) == IF discarded THEN e \cup {"lost"} ELSE e

waitForTracks(c) ==
    /\ call[c] = "tracks"
    /\ \/ TracksOver /\ Moves(c, "decisions", {})
       \/ expired[c] /\ Return(c, {"ctx"})
    /\ UNCHANGED <<stop, expired, cut, waitsFor, sharedVars, restVars>>

waitForConsentDecisions(c) ==
    /\ call[c] = "decisions"
    /\ \/ DecisionsOver /\ Moves(c, "finish", {})
       \/ expired[c] /\ Return(c, {"ctx"})
    /\ UNCHANGED <<stop, expired, cut, waitsFor, sharedVars, restVars>>

\* finishClose, its first region under closeMu.
Retryable == "pending" \in closeErr \/ closeExpired

FinishWaits(c) ==
    /\ call[c] = "finish" /\ inFlight # Nobody
    /\ waitsFor' = [waitsFor EXCEPT ![c] = inFlight]
    /\ Moves(c, "waiter", {})
    /\ UNCHANGED <<stop, expired, cut, sharedVars, restVars>>

\* Mutant: the cached verdict is returned as it was stored.
CachedVerdictAsStored(c) ==
    /\ call[c] = "finish" /\ inFlight = Nobody /\ complete /\ ~Retryable
    /\ Return(c, closeErr)
    /\ UNCHANGED <<stop, expired, cut, waitsFor, sharedVars, restVars>>

CachedVerdict(c) ==
    /\ call[c] = "finish" /\ inFlight = Nobody /\ complete /\ ~Retryable
    /\ Return(c, Folded(closeErr))
    /\ UNCHANGED <<stop, expired, cut, waitsFor, sharedVars, restVars>>

FinishBegins(c) ==
    /\ call[c] = "finish" /\ inFlight = Nobody /\ (complete => Retryable)
    /\ inFlight' = c
    /\ Moves(c, IF complete THEN "redrain" ELSE "flush", {})
    /\ UNCHANGED <<stop, expired, cut, waitsFor, complete, closeErr, closeExpired, restVars>>

\* The other Close is done: its deadline is not this caller's.
WaiterWakes(c) ==
    /\ call[c] = "waiter"
    /\ \/ /\ call[waitsFor[c]] = "returned"
          /\ IF closeExpired THEN Moves(c, "finish", {}) ELSE Return(c, Folded(closeErr))
       \/ expired[c] /\ Return(c, {"ctx"})
    /\ waitsFor' = [waitsFor EXCEPT ![c] = Nobody]
    /\ UNCHANGED <<stop, expired, cut, sharedVars, restVars>>

\* The final flush, from the caller's side.  (Flush's third way out, a worker
\* that is done, is closed here: only this Close stops the worker, below.)
FlushReturns(c) ==
    /\ \/ /\ call[c] = "reply" /\ reply[c] # "none"
          /\ Moves(c, "stop", IF reply[c] = "ok" THEN {} ELSE {reply[c]})
       \/ /\ call[c] \in {"flush", "reply"} /\ expired[c]
          /\ Moves(c, "stop", {"ctx"})
    /\ UNCHANGED <<floor, stop, lane, expired, cut, waitsFor, sharedVars, hostVars, senderVars, workerVars>>

StopLanes(c) ==
    /\ call[c] = "stop"
    /\ stop' = TRUE
    /\ Moves(c, "worker", err[c])
    /\ UNCHANGED <<expired, cut, waitsFor, sharedVars, restVars>>

\* Waiting for a goroutine in the first Close: an expiry is noted only while
\* there is no other error, and the wait for the next one begins.
Awaits(c, done, next) ==
    \/ done /\ Moves(c, next, err[c]) /\ UNCHANGED cut
    \/ /\ expired[c]
       /\ Moves(c, next, IF err[c] = {} THEN {"ctx"} ELSE err[c])
       /\ cut' = [cut EXCEPT ![c] = @ \/ err[c] = {}]

AwaitWorker(c) ==
    /\ call[c] = "worker" /\ Awaits(c, worker = "done", "lane")
    /\ UNCHANGED <<stop, expired, waitsFor, sharedVars, restVars>>

\* Mutant: a sender that never ran is waited for all the same.
AwaitLaneOnly(c) ==
    /\ call[c] = "lane" /\ Awaits(c, lane = "done", "sender")
    /\ UNCHANGED <<stop, expired, waitsFor, sharedVars, restVars>>

\* After the lane the sender is started, so that it can exit.
AwaitLane(c) ==
    /\ call[c] = "lane" /\ Awaits(c, lane = "done", "sender")
    /\ sender' = StartSender
    /\ UNCHANGED <<stop, floor, lane, expired, waitsFor, sharedVars, hostVars, sends, told, workerVars>>

AwaitSender(c) ==
    /\ call[c] = "sender" /\ Awaits(c, sender = "done", "drain")
    /\ UNCHANGED <<stop, expired, waitsFor, sharedVars, restVars>>

\* finalizeConsentOutbox: the drain delivers, stores or leaves the receipts and
\* has v as its verdict; an expired context may cut it short.
finalizeConsentOutbox(c, v) ==
    /\ receipts' \in {"none", receipts} \cup (IF receipts = "owed" THEN {"durable"} ELSE {})
    /\ "pending" \in v <=> receipts' = "owed"
    /\ "ctx" \in v => expired[c] /\ receipts' # "none"

DrainVerdicts == SUBSET {"pending", "ctx"}

\* The first Close drops the gate's error in favour of the drain's verdict.
Drain(c) ==
    /\ call[c] = "drain"
    /\ \E v \in DrainVerdicts :
          /\ finalizeConsentOutbox(c, v)
          /\ Moves(c, "conclude", IF "gated" \in err[c] THEN v ELSE err[c] \cup v)
    /\ UNCHANGED <<floor, stop, lane, expired, cut, waitsFor, sharedVars, closed, tracking, tickets, serving, handing, senderVars, workerVars>>

\* A later Close drains again and then waits for all that still runs.
Redrain(c) ==
    /\ call[c] = "redrain"
    /\ \E v \in DrainVerdicts : finalizeConsentOutbox(c, v) /\ Moves(c, "lanes", v)
    /\ UNCHANGED <<floor, stop, lane, expired, cut, waitsFor, sharedVars, closed, tracking, tickets, serving, handing, senderVars, workerVars>>

LanesDone == worker = "done" /\ lane = "done" /\ sender = "done"

AwaitLanes(c) ==
    /\ call[c] = "lanes"
    /\ \/ LanesDone /\ Moves(c, "conclude", err[c]) /\ UNCHANGED cut
       \/ /\ expired[c] /\ Moves(c, "conclude", err[c] \cup {"ctx"})
          /\ cut' = [cut EXCEPT ![c] = TRUE]
    /\ UNCHANGED <<stop, expired, waitsFor, sharedVars, restVars>>

\* The verdict is stored and returned, and whoever waits for it is woken.
Conclude(c) ==
    /\ call[c] = "conclude"
    /\ Return(c, Folded(err[c]))
    /\ closeErr' = Folded(err[c]) /\ closeExpired' = cut[c]
    /\ complete' = TRUE /\ inFlight' = Nobody
    /\ UNCHANGED <<stop, expired, cut, waitsFor, restVars>>
-----------------------------------------------------------------------------
HostStep ==
    \/ \E t \in Tracks : TrackBegins(t) \/ TrackEnds(t)
    \/ SetConsent \/ DecisionRecorded \/ DecisionHandsOver \/ DecisionEnqueued
    \/ BacklogFull \/ DropOldest

SenderStep == SenderTakes \/ SenderStops \/ SenderExits

FlushOutcomes == {"ok", "flush", "gated", "ctx"}

WorkerStep ==
    \/ SelectEvent \/ Publish \/ SelectStop
    \/ \E c \in Closers : SelectFlush(c)
    \/ \E o \in FlushOutcomes : FlushEnds(o)

CloseStep(c) ==
    \/ waitForTracks(c) \/ waitForConsentDecisions(c)
    \/ FinishWaits(c) \/ CachedVerdict(c) \/ FinishBegins(c) \/ WaiterWakes(c)
    \/ FlushReturns(c) \/ StopLanes(c) \/ AwaitWorker(c) \/ AwaitLane(c) \/ AwaitSender(c)
    \/ Drain(c) \/ Redrain(c) \/ AwaitLanes(c) \/ Conclude(c)

Next == HostStep \/ SenderStep \/ WorkerStep \/ LaneExits
        \/ \E c \in Closers : Close(c) \/ ContextEnds(c) \/ CloseStep(c)

Spec == Init /\ [][Next]_vars

(* Fairness.  Requests end, because the transport bounds every attempt by  *)
(* HTTPTimeout; goroutines that can run do; and Go's select picks among    *)
(* its ready cases at random, so a case that is ready again and again is   *)
(* taken in the end.  Nothing is assumed of contexts, which need not       *)
(* expire.                                                                 *)
DecisionStep == DecisionRecorded \/ DecisionHandsOver \/ DecisionEnqueued \/ BacklogFull \/ DropOldest

Fairness ==
    /\ \A t \in Tracks : WF_vars(TrackEnds(t))
    /\ WF_vars(DecisionStep) /\ WF_vars(SenderStep) /\ WF_vars(LaneExits)
    /\ WF_vars(\E o \in FlushOutcomes : FlushEnds(o))
    /\ SF_vars(SelectStop)
    /\ \A c \in Closers : SF_vars(SelectFlush(c)) /\ WF_vars(CloseStep(c))

FairSpec == Spec /\ Fairness
-----------------------------------------------------------------------------
(* Properties                                                              *)

CallStates == {"idle", "tracks", "decisions", "finish", "waiter", "flush", "reply", "stop",
               "worker", "lane", "sender", "drain", "redrain", "lanes", "conclude", "returned"}

HostType ==
    /\ floor \in BOOLEAN /\ closed \in BOOLEAN /\ stop \in BOOLEAN
    /\ tracking \subseteq Tracks
    /\ tickets \in 0 .. MaxDecisions /\ serving \in 0 .. tickets
    /\ handing \in {"none", "try", "full"} /\ receipts \in {"none", "durable", "owed"}

SenderType ==
    /\ sends \in Seq(1 .. MaxDecisions) /\ Len(sends) <= Buffer
    /\ sender \in {"off", "run", "draining", "done"} /\ told \in 0 .. tickets

WorkerType ==
    /\ worker \in {"select", "flush", "done"} /\ lane \in {"run", "done"}
    /\ held \in BOOLEAN /\ discarded \in BOOLEAN /\ gated \in BOOLEAN
    /\ flushing \in Closers \cup {Nobody}
    /\ reply \in [Closers -> FlushOutcomes \cup {"none"}]

CloseType ==
    /\ expired \in [Closers -> BOOLEAN] /\ cut \in [Closers -> BOOLEAN]
    /\ call \in [Closers -> CallStates] /\ err \in [Closers -> SUBSET Errors]
    /\ waitsFor \in [Closers -> Closers \cup {Nobody}]
    /\ inFlight \in Closers \cup {Nobody}
    /\ complete \in BOOLEAN /\ closeErr \in SUBSET Errors /\ closeExpired \in BOOLEAN

TypeOK == HostType /\ SenderType /\ WorkerType /\ CloseType

\* A Close that reports success found everything ended: the worker, the lane
\* and the sender have exited and no decision is left behind (client.go, the
\* waits of finishClose and the fence of waitForConsentDecisions).  Where the
\* final flush was refused by a gate this fails: see the README.
CleanCloseIsComplete ==
    \A c \in Closers : call[c] = "returned" /\ err[c] = {} /\ ~gated
        => LanesDone /\ sends = <<>> /\ DecisionsOver

\* Events the worker discarded at its stop are reported by every Close that
\* returns after that, cached verdicts included, except to a caller whose own
\* context ended first (closeDiscardVerdict).
LossReported ==
    [][\A c \in Closers :
          call[c] # "returned" /\ call'[c] = "returned" /\ discarded
              => "lost" \in err'[c] \/ (expired[c] /\ "ctx" \in err'[c])]_vars

\* Every Close returns, also under a context that never ends: no wait for a
\* Track call, a decision, a flush, a goroutine or another Close is for ever.
CloseReturns ==
    \A c \in Closers : (call[c] = "tracks") ~> (call[c] = "returned")

\* In the default mode the sender, its channel and Close implement the
\* register: decisions reach the transport in order, and the newest always
\* does, also when the channel overflows and when the client is closed.
Register == INSTANCE ConsentRegister WITH
                decided <- IF floor THEN 0 ELSE tickets,
                told    <- told

ImplementsRegister == Register!RegisterSpec
=============================================================================
