---------------------------- MODULE EventDelivery ----------------------------
(***************************************************************************)
(* The event notification consumer (event_notification_consumer.py): worker *)
(* processes poll one SQS queue, fan each message out to the devices of its *)
(* audience under asyncio.gather, record every delivery in Redis, and       *)
(* delete the message once no device failed transiently.                    *)
(*                                                                          *)
(* An action runs from one await of the code to the next, where nothing     *)
(* else in the process can move.  What SQS, Redis, FCM and the backend do   *)
(* is chosen nondeterministically: every misfortune draws on one budget,    *)
(* MaxFaults, and those after which a phone may ring twice count in slips.  *)
(***************************************************************************)
EXTENDS Naturals, FiniteSets

CONSTANTS
    Workers,     \* worker processes polling the queue
    OldWorkers,  \* those that start on the release that ignored fire_at
    Msgs,        \* SQS messages
    Devices,     \* push devices
    Gathers,     \* identities for the gathers that exist at one time
    Shape,       \* [Msgs -> Shapes]: whether the body can be read
    Body,        \* [Msgs -> the fields of the body that make its key]
    Occasions,   \* the notifications a recipient is meant to get
    Occasion,    \* [Msgs -> Occasions]: the one a message asks for
    Targets,     \* [Msgs -> SUBSET Devices]: the backend's audience
    Removable,   \* messages whose event may be gone from the backend (404)
    Configured,  \* devices whose platform has push credentials
    NoFireAt,    \* the fireAt of a message that predates the field
    DispatchEnabled,   \* NOTIFICATION_DISPATCH_ENABLED
    LegacyKeyFallback, \* EVENT_NOTIFICATION_IDEMPOTENCY_LEGACY_KEY_FALLBACK
    MaxMessages, \* EVENT_NOTIFICATION_SQS_MAX_MESSAGES
    Concurrency, \* EVENT_NOTIFICATION_SEND_CONCURRENCY
    MaxFaults    \* bound: the misfortunes of one behaviour

Shapes == {"readable", "unreadable", "bad_event_id"}

ASSUME ConstantsAssumption ==
    /\ OldWorkers \subseteq Workers
    /\ Shape \in [Msgs -> Shapes]
    /\ Occasion \in [Msgs -> Occasions]
    /\ Targets \in [Msgs -> SUBSET Devices]
    /\ Removable \subseteq Msgs
    /\ Configured \subseteq Devices
    /\ DispatchEnabled \in BOOLEAN
    /\ LegacyKeyFallback \in BOOLEAN
    /\ MaxMessages \in Nat \ {0}
    /\ Concurrency \in Nat \ {0}
    /\ MaxFaults \in Nat

VARIABLES
    queue,    \* [Msgs -> "visible" | "inflight" | "deleted"]
    batch,    \* [Workers -> messages received and not yet looked at]
    release,  \* [Workers -> "old" | "new"]
    gather,   \* [Gathers -> a gather or NoGather]
    task,     \* [Gathers -> [Devices -> Stages]]: the per-device coroutines
    markers,  \* <<key, device>>: the idempotency markers in Redis
    inactive, \* devices the backend deactivated
    pushes,   \* history: [Occasions -> [Devices -> pushes FCM accepted]]
    refused,  \* history: [Occasions -> devices FCM refused for good]
    dropped,  \* history: messages deleted with nothing to deliver
    faults,   \* misfortunes so far
    slips     \* those of them that can cause a second push

sqsVars   == <<queue, batch>>
runVars   == <<gather, task>>
histVars  == <<pushes, refused, dropped>>
faultVars == <<faults, slips>>
vars == <<queue, batch, release, gather, task, markers, inactive,
          pushes, refused, dropped, faults, slips>>

\* A device coroutine is not a target, waits for the semaphore, has its
\* request with FCM, holds FCM's answer ("accepted", "rejected"), has tried to
\* deactivate the device, or has ended.  "done" is every result that does not
\* keep the message: sent, skipped and permanent_failed.
Holding  == {"sending", "accepted", "rejected", "deactivated"}
Finished == {"none", "done", "transient_failed", "raised"}
Stages   == {"queued"} \cup Holding \cup Finished

NoGather == [state |-> "free"]
NoTasks  == [d \in Devices |-> "none"]
Running  == [state : {"open", "abandoned"}, worker : Workers, msg : Msgs]

-----------------------------------------------------------------------------
(* Idempotency keys                                                         *)

IsReminder(m) == Body[m].type = "EVENT_REMINDER"

\* The key shape without fire_at: all the previous release knew.
LegacyKey(m) ==
    LET b == Body[m] IN
    CASE b.type = "EVENT_ANNOUNCEMENT" ->
            <<b.event, "ANNOUNCEMENT", b.announcement>>
      [] b.type = "EVENT_REMINDER" -> <<b.event, b.reminder>>
      [] OTHER -> <<b.event>>

\* One key per delivery: fire_at separates the days of a recurring event.
Key(m) ==
    IF IsReminder(m) /\ Body[m].fireAt # NoFireAt
    THEN <<Body[m].event, Body[m].reminder, Body[m].fireAt>>
    ELSE LegacyKey(m)

\* The releases that take part, and the key each gives a message.
Releases == IF OldWorkers = {} THEN {"new"} ELSE {"old", "new"}

KeyOn(rel, m) == IF rel = "old" THEN LegacyKey(m) ELSE Key(m)

Keys == {KeyOn(rel, m) : rel \in Releases, m \in Msgs}

\* Mutant: the rolling-deploy bridge is left out.
ConsultedKeysNoBridge(rel, m) == {KeyOn(rel, m)}

\* The keys whose presence makes a worker treat a device as already told.
ConsultedKeys(rel, m) ==
    IF rel = "new" /\ IsReminder(m) /\ LegacyKeyFallback
    THEN {Key(m), LegacyKey(m)}
    ELSE {KeyOn(rel, m)}

\* Mutant: the check always misses.
AlreadySentNever(w, m, d) == FALSE

AlreadySent(w, m, d) ==
    \E k \in ConsultedKeys(release[w], m) : <<k, d>> \in markers

-----------------------------------------------------------------------------
(* Fault accounting                                                         *)

Healthy == UNCHANGED faultVars

Glitch ==
    /\ faults < MaxFaults
    /\ faults' = faults + 1
    /\ UNCHANGED slips

Slip ==
    /\ faults < MaxFaults
    /\ faults' = faults + 1
    /\ slips' = slips + 1

-----------------------------------------------------------------------------
(* The queue                                                                *)

WorkerBusy(w) ==
    \E g \in Gathers : gather[g].state = "open" /\ gather[g].worker = w

\* Some coroutine still works on m, or some worker has yet to look at it.
InHand(m) ==
    \/ \E w \in Workers : m \in batch[w]
    \/ \E g \in Gathers : gather[g] # NoGather /\ gather[g].msg = m

\* A poll returns up to MaxMessages of the visible messages.
Receive(w, S) ==
    /\ ~WorkerBusy(w)
    /\ batch[w] = {}
    /\ S # {}
    /\ Cardinality(S) <= MaxMessages
    /\ \A m \in S : queue[m] = "visible"
    /\ queue' = [m \in Msgs |-> IF m \in S THEN "inflight" ELSE queue[m]]
    /\ batch' = [batch EXCEPT ![w] = S]
    /\ UNCHANGED <<release, runVars, markers, inactive, histVars, faultVars>>

\* The visibility timeout runs out.  That is how a message left for retry
\* comes back; if somebody still works on it, it is delivered twice.
VisibilityTimeout(m) ==
    /\ queue[m] = "inflight"
    /\ queue' = [queue EXCEPT ![m] = "visible"]
    /\ IF InHand(m) THEN Slip ELSE Healthy
    /\ UNCHANGED <<batch, release, runVars, markers, inactive, histVars>>

\* delete_event_notification_message: a ClientError is only logged, and a
\* receipt handle that outlived its receive may delete nothing.
DeleteMessage(m) ==
    \/ queue' = [queue EXCEPT ![m] = "deleted"] /\ Healthy
    \/ UNCHANGED queue /\ Glitch

-----------------------------------------------------------------------------
(* One message: process_event_notification_message up to the gather         *)

\* The worker's loop takes the next message of its batch.
Take(w, m) ==
    /\ ~WorkerBusy(w)
    /\ m \in batch[w]
    /\ batch' = [batch EXCEPT ![w] = @ \ {m}]

\* Deleted without a delivery: the history remembers it.
Drop(m) ==
    /\ DeleteMessage(m)
    /\ dropped' = IF queue' # queue THEN dropped \cup {m} ELSE dropped

\* An unreadable body, or dispatch switched off, or an event the backend no
\* longer has.
Discard(w, m) ==
    /\ Take(w, m)
    /\ \/ Shape[m] = "unreadable"
       \/ Shape[m] = "readable" /\ ~DispatchEnabled
       \/ Shape[m] = "readable" /\ m \in Removable
    /\ Drop(m)
    /\ UNCHANGED <<release, runVars, markers, inactive, pushes, refused>>

\* _parse_uuid raises on an event_id that is no UUID; the loop logs the
\* exception and leaves the message to come back.
FailToParse(w, m) ==
    /\ Take(w, m)
    /\ Shape[m] = "bad_event_id"
    /\ UNCHANGED <<queue, release, runVars, markers, inactive, histVars,
                   faultVars>>

\* The target fetch fails, transiently or not: the message is left.
FetchFails(w, m) ==
    /\ Take(w, m)
    /\ Shape[m] = "readable" /\ DispatchEnabled
    /\ Glitch
    /\ UNCHANGED <<queue, release, runVars, markers, inactive, histVars>>

\* The devices the backend answers with: it leaves out deactivated ones.
FetchedTargets(m) == Targets[m] \ inactive

\* Nobody to tell: the message is deleted.
NobodyToTell(w, m) ==
    /\ Take(w, m)
    /\ Shape[m] = "readable" /\ DispatchEnabled
    /\ FetchedTargets(m) = {}
    /\ DeleteMessage(m)
    /\ UNCHANGED <<release, runVars, markers, inactive, histVars>>

\* The gather starts one coroutine per device, all behind the semaphore.
StartGather(w, m, g) ==
    /\ Take(w, m)
    /\ Shape[m] = "readable" /\ DispatchEnabled
    /\ FetchedTargets(m) # {}
    /\ gather[g] = NoGather
    /\ gather' = [gather EXCEPT ![g] =
                    [state |-> "open", worker |-> w, msg |-> m]]
    /\ task' = [task EXCEPT ![g] =
                    [d \in Devices |->
                        IF d \in FetchedTargets(m) THEN "queued" ELSE "none"]]
    /\ UNCHANGED <<queue, release, markers, inactive, histVars, faultVars>>

-----------------------------------------------------------------------------
(* One device: _send_to_device and its two siblings                         *)

\* A coroutine moves on.  The first exception abandons its gather, whose other
\* coroutines run on unobserved until the last one ends.
Advance(g, d, stage) ==
    LET t == [task[g] EXCEPT ![d] = stage]
        state == IF stage = "raised" THEN "abandoned" ELSE gather[g].state
    IN  IF state = "abandoned" /\ \A e \in Devices : t[e] \in Finished
        THEN /\ gather' = [gather EXCEPT ![g] = NoGather]
             /\ task' = [task EXCEPT ![g] = NoTasks]
        ELSE /\ gather' = [gather EXCEPT ![g].state = state]
             /\ task' = [task EXCEPT ![g] = t]

\* Enter the semaphore.  The checks and the start of the send are one step.
EnterSemaphore(g, d) ==
    /\ gather[g] # NoGather
    /\ task[g][d] = "queued"
    /\ Cardinality({e \in Devices : task[g][e] \in Holding}) < Concurrency

StartSend(g, d) ==
    /\ EnterSemaphore(g, d)
    /\ IF d \in Configured /\ ~AlreadySent(gather[g].worker, gather[g].msg, d)
       THEN Advance(g, d, "sending")
       ELSE Advance(g, d, "done")
    /\ UNCHANGED <<sqsVars, release, markers, inactive, histVars, faultVars>>

\* Mutant: with Redis down the device is taken for already told.
CheckFailsSkips(g, d) ==
    /\ EnterSemaphore(g, d)
    /\ d \in Configured
    /\ Advance(g, d, "done")
    /\ Glitch
    /\ UNCHANGED <<sqsVars, release, markers, inactive, histVars>>

\* _already_sent lets a Redis error escape, outside the try of the send.
CheckFails(g, d) ==
    /\ EnterSemaphore(g, d)
    /\ d \in Configured
    /\ Advance(g, d, "raised")
    /\ Glitch
    /\ UNCHANGED <<sqsVars, release, markers, inactive, histVars>>

Subject(g) == Occasion[gather[g].msg]

PushArrives(g, d) == pushes' = [pushes EXCEPT ![Subject(g)][d] = @ + 1]

FcmAccepts(g, d) ==
    /\ task[g][d] = "sending"
    /\ Advance(g, d, "accepted")
    /\ PushArrives(g, d)
    /\ UNCHANGED <<sqsVars, release, markers, inactive, refused, dropped,
                   faultVars>>

\* Mutant: a dead token is retried like any other failure.
FcmRefusesForNow(g, d) ==
    /\ task[g][d] = "sending"
    /\ Advance(g, d, "transient_failed")
    /\ UNCHANGED <<sqsVars, release, markers, inactive, histVars, faultVars>>

\* FCM's error is one that _is_permanent_token_error takes for a dead token.
FcmRefuses(g, d) ==
    /\ task[g][d] = "sending"
    /\ Advance(g, d, "rejected")
    /\ refused' = [refused EXCEPT ![Subject(g)] = @ \cup {d}]
    /\ UNCHANGED <<sqsVars, release, markers, inactive, pushes, dropped,
                   faultVars>>

\* Any other exception.  When only the answer was lost, the push has arrived.
FcmFails(g, d) ==
    /\ task[g][d] = "sending"
    /\ Advance(g, d, "transient_failed")
    /\ \/ Glitch /\ UNCHANGED pushes
       \/ Slip /\ PushArrives(g, d)
    /\ UNCHANGED <<sqsVars, release, markers, inactive, refused, dropped>>

\* deactivate_push_device: a failure is only logged.
Deactivate(g, d) ==
    /\ task[g][d] = "rejected"
    /\ Advance(g, d, "deactivated")
    /\ \/ inactive' = inactive \cup {d} /\ Healthy
       \/ UNCHANGED inactive /\ Glitch
    /\ UNCHANGED <<sqsVars, release, markers, histVars>>

\* Mutant: the marker names the notification's subject, not the device.
MarkSentWrongId(g, d) ==
    /\ task[g][d] \in {"accepted", "deactivated"}
    /\ Advance(g, d, "done")
    /\ LET k == KeyOn(release[gather[g].worker], gather[g].msg) IN
       markers' = markers \cup {<<k, Subject(g)>>}
    /\ UNCHANGED <<sqsVars, release, inactive, histVars, faultVars>>

\* _mark_sent: a Redis error is logged and swallowed, so the result stands.
MarkSent(g, d) ==
    /\ task[g][d] \in {"accepted", "deactivated"}
    /\ Advance(g, d, "done")
    /\ \/ LET k == KeyOn(release[gather[g].worker], gather[g].msg) IN
          markers' = markers \cup {<<k, d>>} /\ Healthy
       \/ /\ UNCHANGED markers
          /\ IF task[g][d] = "accepted" THEN Slip ELSE Glitch
    /\ UNCHANGED <<sqsVars, release, inactive, histVars>>

\* Mutant: transient failures no longer keep the message.
ConcludeAlwaysDeletes(g) ==
    /\ gather[g].state = "open"
    /\ \A d \in Devices : task[g][d] \in Finished
    /\ gather' = [gather EXCEPT ![g] = NoGather]
    /\ task' = [task EXCEPT ![g] = NoTasks]
    /\ DeleteMessage(gather[g].msg)
    /\ UNCHANGED <<batch, release, markers, inactive, histVars>>

\* All coroutines returned.  A transient failure keeps the message.
Conclude(g) ==
    /\ gather[g].state = "open"
    /\ \A d \in Devices : task[g][d] \in Finished
    /\ gather' = [gather EXCEPT ![g] = NoGather]
    /\ task' = [task EXCEPT ![g] = NoTasks]
    /\ IF \E d \in Devices : task[g][d] = "transient_failed"
       THEN UNCHANGED queue /\ Healthy
       ELSE DeleteMessage(gather[g].msg)
    /\ UNCHANGED <<batch, release, markers, inactive, histVars>>

-----------------------------------------------------------------------------
(* Restarts and time                                                        *)

\* The process stops, is killed or redeployed: lifespan cancels its consumer
\* after five seconds, so coroutines and batch are lost wherever they are and
\* the messages stay in flight.  It comes back on the current release.
Restart(w) ==
    LET mine == {g \in Gathers : gather[g] # NoGather /\ gather[g].worker = w}
    IN  /\ gather' = [g \in Gathers |->
                        IF g \in mine THEN NoGather ELSE gather[g]]
        /\ task' = [g \in Gathers |-> IF g \in mine THEN NoTasks ELSE task[g]]
        /\ IF \E g \in mine, d \in Devices : task[g][d] = "accepted"
           THEN Slip
           ELSE Glitch
    /\ batch' = [batch EXCEPT ![w] = {}]
    /\ release' = [release EXCEPT ![w] = "new"]
    /\ UNCHANGED <<queue, markers, inactive, histVars>>

\* EVENT_NOTIFICATION_IDEMPOTENCY_TTL_SECONDS run out.
MarkerExpires(mk) ==
    /\ mk \in markers
    /\ markers' = markers \ {mk}
    /\ Slip
    /\ UNCHANGED <<sqsVars, release, runVars, inactive, histVars>>

-----------------------------------------------------------------------------

Init ==
    /\ queue = [m \in Msgs |-> "visible"]
    /\ batch = [w \in Workers |-> {}]
    /\ release = [w \in Workers |-> IF w \in OldWorkers THEN "old" ELSE "new"]
    /\ gather = [g \in Gathers |-> NoGather]
    /\ task = [g \in Gathers |-> NoTasks]
    /\ markers = {}
    /\ inactive = {}
    /\ pushes = [o \in Occasions |-> [d \in Devices |-> 0]]
    /\ refused = [o \in Occasions |-> {}]
    /\ dropped = {}
    /\ faults = 0
    /\ slips = 0

Poll(w) == \E S \in SUBSET Msgs : Receive(w, S)

Process(w, m) ==
    \/ Discard(w, m)
    \/ FailToParse(w, m)
    \/ FetchFails(w, m)
    \/ NobodyToTell(w, m)
    \/ \E g \in Gathers : StartGather(w, m, g)

Coroutine(g, d) ==
    \/ StartSend(g, d)
    \/ CheckFails(g, d)
    \/ FcmAccepts(g, d)
    \/ FcmRefuses(g, d)
    \/ FcmFails(g, d)
    \/ Deactivate(g, d)
    \/ MarkSent(g, d)

Next ==
    \/ \E w \in Workers : Poll(w)
    \/ \E w \in Workers, m \in Msgs : Process(w, m)
    \/ \E g \in Gathers, d \in Devices : Coroutine(g, d)
    \/ \E g \in Gathers : Conclude(g)
    \/ \E m \in Msgs : VisibilityTimeout(m)
    \/ \E w \in Workers : Restart(w)
    \/ \E mk \in Keys \X Devices : MarkerExpires(mk)

Spec == Init /\ [][Next]_vars

\* Every worker keeps looping and every awaited call ends (the HTTP clients
\* have timeouts, a thread runs FCM's).  SQS hands out a visible message again
\* and again, although a poll may be filled with other messages each time.
Fairness ==
    /\ \A w \in Workers, m \in Msgs : WF_vars(Process(w, m))
    /\ \A g \in Gathers, d \in Devices : WF_vars(Coroutine(g, d))
    /\ \A g \in Gathers : WF_vars(Conclude(g))
    /\ \A m \in Msgs :
          /\ WF_vars(~InHand(m) /\ VisibilityTimeout(m))
          /\ SF_vars(\E w \in Workers, S \in SUBSET Msgs :
                        m \in S /\ Receive(w, S))

FairSpec == Spec /\ Fairness

-----------------------------------------------------------------------------
(* Properties                                                               *)

TypeOK ==
    /\ queue \in [Msgs -> {"visible", "inflight", "deleted"}]
    /\ batch \in [Workers -> SUBSET Msgs]
    /\ release \in [Workers -> Releases]
    /\ gather \in [Gathers -> {NoGather} \cup Running]
    /\ task \in [Gathers -> [Devices -> Stages]]
    /\ markers \subseteq Keys \X Devices
    /\ inactive \subseteq Devices
    /\ pushes \in [Occasions -> [Devices -> Nat]]
    /\ refused \in [Occasions -> SUBSET Devices]
    /\ dropped \subseteq Msgs
    /\ faults \in Nat
    /\ slips \in Nat

\* FCM took the notification for the device, or refused it for good.
Handled(o, d) == pushes[o][d] > 0 \/ d \in refused[o]

\* No further delivery of m to d is owed: it was handled, or the device cannot
\* be pushed to (no credentials for its platform, deactivated).
Settled(m, d) == d \notin Configured \/ d \in inactive \/ Handled(Occasion[m], d)

\* A message is deleted only after every device of its audience is settled,
\* or because there was nothing to deliver: whatever crashes, expires, is
\* redelivered or fails in between, no recipient is lost with the message.
SettledBeforeDelete ==
    \A m \in Msgs : queue[m] = "deleted" /\ m \notin dropped =>
        \A d \in Targets[m] : Settled(m, d)

\* The keys tell notifications apart.  It holds on the current release (fire_at
\* separates the days), and while the bridge is on or old workers run only as
\* long as no second day of one reminder is on the queue.
KeysTellOccasions ==
    \A m, n \in Msgs, r1, r2 \in Releases :
        KeyOn(r2, n) \in ConsultedKeys(r1, m) => Occasion[m] = Occasion[n]

\* An idempotency marker found for a message speaks of the notification that
\* message carries: nobody is skipped for a push they never got, such as the
\* previous day's reminder of the same event.
MarkersSpeakTrue ==
    \A w \in Workers, m \in Msgs, d \in Devices :
        AlreadySent(w, m, d) => Handled(Occasion[m], d)

\* A device is pushed the same notification again only if a lost marker, a
\* lost answer, an overrun visibility timeout or a restart between FCM and
\* Redis accounts for it, one such slip per extra push.  Plain retries,
\* redeliveries, failed deletes and abandoned gathers never do, nor does the
\* replacement of a lone worker by the release that reads the old keys too.
RepeatsNeedSlips ==
    \A o \in Occasions, d \in Devices : pushes[o][d] <= 1 + slips

\* What the consumer does is what DeliveryContract allows.
Contract == INSTANCE DeliveryContract WITH
    Messages   <- Msgs,
    Recipients <- Devices,
    Audience   <- Targets,
    open       <- {m \in Msgs : queue[m] # "deleted"},
    settled    <- {md \in Msgs \X Devices : Settled(md[1], md[2])},
    withdrawn  <- dropped

\* EventDelivery implements the at-least-once contract of the consumers.
ImplementsContract == Contract!Spec

\* Once the misfortunes end, every message with a usable event_id leaves the
\* queue, poison messages beside it or not.
EveryMessageLeaves ==
    \A m \in Msgs : Shape[m] # "bad_event_id" => <>(queue[m] = "deleted")
=============================================================================
