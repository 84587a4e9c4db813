----------------------------- MODULE ChatDelivery -----------------------------
(***************************************************************************)
(* The consumers of the chat, prayer, join request and group post queues, in *)
(* one process.  A message is fanned out to the devices the backend names,  *)
(* with one Redis marker for each notice and device.                        *)
(*                                                                          *)
(* The first two loops run each message as a task of its own, as many at a  *)
(* time as there are slots; chat messages, prayers received and verse       *)
(* comment windows may come on either queue but for the last: copies share  *)
(* a notice and its markers.  The other two loops await each message in     *)
(* turn.  What a join request's message announces is up to the backend's    *)
(* answer: the request, or the decision if there is one by then.            *)
(*                                                                          *)
(* They differ from the event consumer in what a failing marker does: after *)
(* an accepted push it counts as a transient failure, after a refused one   *)
(* it escapes the coroutine.                                                *)
(*                                                                          *)
(* An action runs from one await to the next, as in EventDelivery.          *)
(***************************************************************************)
EXTENDS Naturals, FiniteSets

CONSTANTS
    Workers,     \* worker processes, each with a consumer for each queue
    Channels,    \* the queues
    Inline,      \* those whose loop awaits each message in turn
    Slots,       \* [Channels -> Nat]: ..._MESSAGE_CONCURRENCY, 1 if Inline
    Concurrency, \* [Channels -> Nat]: ..._SEND_CONCURRENCY
    MaxMessages, \* ..._SQS_MAX_MESSAGES
    Msgs,        \* SQS messages
    Traffics,    \* sets of messages: one of them is what the backend sends
    Channel,     \* [Msgs -> Channels]
    Form,        \* [Msgs -> Forms]: what the body holds
    Notices,     \* what a marker names: a message, a prayer, a comment window, a
                 \* post, a join request with its event type
    Notice,      \* [Msgs -> Notices]
    Verdict,     \* a function from join requests made to the decisions on them
    Devices,     \* push devices
    Targets,     \* [Notices -> SUBSET Devices]: the backend's audience
    Removable,   \* notices that may be gone from the backend (404)
    Configured,  \* devices whose platform has push credentials
    Gathers,     \* identities for the gathers that exist at one time
    DispatchEnabled, \* NOTIFICATION_DISPATCH_ENABLED
    Slow,        \* messages whose pushes need not end (for liveness only)
    MaxFaults    \* bound: the misfortunes of one behaviour

\* A body that is rejected or names no id, and a comment window whose id is no
\* UUID; any other id that is none.
Forms == {"readable", "unreadable", "bad_id"}

ASSUME ConstantsAssumption ==
    /\ Inline \subseteq Channels
    /\ Slots \in [Channels -> Nat \ {0}]
    /\ \A c \in Inline : Slots[c] = 1
    /\ Concurrency \in [Channels -> Nat \ {0}]
    /\ MaxMessages \in Nat \ {0}
    /\ Traffics \subseteq SUBSET Msgs
    /\ Channel \in [Msgs -> Channels]
    /\ Form \in [Msgs -> Forms]
    /\ Notice \in [Msgs -> Notices]
    /\ DOMAIN Verdict \subseteq Notices
    /\ \A n \in DOMAIN Verdict : Verdict[n] \in Notices \ DOMAIN Verdict
    /\ Targets \in [Notices -> SUBSET Devices]
    /\ Removable \subseteq Notices
    /\ Configured \subseteq Devices
    /\ DispatchEnabled \in BOOLEAN
    /\ Slow \subseteq Msgs
    /\ MaxFaults \in Nat

VARIABLES
    decided,  \* the join requests a moderator has decided
    queue,    \* [Msgs -> "absent" | "unsent" | "visible" | "inflight" | "deleted"]
    batch,    \* [Workers -> messages received that got no slot yet]
    gather,   \* [Gathers -> a gather or NoGather]
    task,     \* [Gathers -> [Devices -> Stages]]: the per-device coroutines
    markers,  \* <<notice, device>>: the idempotency markers in Redis
    inactive, \* devices the backend deactivated
    pushes,   \* history: [Msgs -> [Notices -> [Devices -> pushes FCM accepted]]]
    refused,  \* history: <<notice, device>> that FCM refused for good
    dropped,  \* history: messages deleted with nothing to deliver
    faults,   \* misfortunes so far
    slips     \* those of them that can cause a second push

sqsVars   == <<decided, queue, batch>>
runVars   == <<gather, task>>
histVars  == <<pushes, refused, dropped>>
faultVars == <<faults, slips>>
vars == <<decided, queue, batch, gather, task, markers, inactive, pushes, refused,
          dropped, faults, slips>>

Holding  == {"sending", "accepted", "rejected", "deactivated"}
Finished == {"none", "done", "transient_failed", "raised"}
Stages   == {"queued"} \cup Holding \cup Finished

NoGather == [state |-> "free"]
NoTasks  == [d \in Devices |-> "none"]
Running  == [state : {"open", "abandoned"}, worker : Workers, msg : Msgs,
             notice : Notices]

-----------------------------------------------------------------------------
(* Fault accounting                                                         *)

Healthy == UNCHANGED faultVars

Glitch ==
    /\ faults < MaxFaults
    /\ faults' = faults + 1
    /\ UNCHANGED slips

Slip ==
    /\ faults < MaxFaults
    /\ faults' = faults + 1
    /\ slips' = slips + 1

-----------------------------------------------------------------------------
(* The queues and the loops                                                 *)

Waiting(w, c) == {m \in batch[w] : Channel[m] = c}

\* The messages of c whose handler has not returned: each holds a slot.  A
\* handler that an exception ended gave its slot back, whatever it left behind.
InSlots(w, c) ==
    {g \in Gathers : /\ gather[g] # NoGather /\ gather[g].state = "open"
                     /\ gather[g].worker = w /\ Channel[gather[g].msg] = c}

Visible(c) == {m \in Msgs : Channel[m] = c /\ queue[m] = "visible"}

InHand(m) ==
    \/ \E w \in Workers : m \in batch[w]
    \/ \E g \in Gathers : gather[g] # NoGather /\ gather[g].msg = m

\* A moderator decides a join request, and the backend publishes that.
Decide(n) ==
    /\ n \in DOMAIN Verdict \ decided
    /\ \E m \in Msgs : Notice[m] = n /\ queue[m] # "absent"
    /\ decided' = decided \cup {n}
    /\ queue' = [m \in Msgs |->
                    IF queue[m] = "unsent" /\ Notice[m] = Verdict[n]
                    THEN "visible" ELSE queue[m]]
    /\ UNCHANGED <<batch, runVars, markers, inactive, histVars, faultVars>>

\* A loop polls again when every message it has got a slot, an inline one when
\* every message is done with.
Receive(w, c, S) ==
    /\ Waiting(w, c) = {}
    /\ c \in Inline => InSlots(w, c) = {}
    /\ S # {} /\ Cardinality(S) <= MaxMessages
    /\ S \subseteq Visible(c)
    /\ queue' = [m \in Msgs |-> IF m \in S THEN "inflight" ELSE queue[m]]
    /\ batch' = [batch EXCEPT ![w] = @ \cup S]
    /\ UNCHANGED <<decided, runVars, markers, inactive, histVars, faultVars>>

\* A message left for retry comes back; one in hand is delivered twice.
VisibilityTimeout(m) ==
    /\ queue[m] = "inflight"
    /\ queue' = [queue EXCEPT ![m] = "visible"]
    /\ IF InHand(m) THEN Slip ELSE Healthy
    /\ UNCHANGED <<decided, batch, runVars, markers, inactive, histVars>>

\* A delete goes to the queue the message came from; a ClientError is logged.
DeleteMessage(m) ==
    \/ queue' = [queue EXCEPT ![m] = "deleted"] /\ Healthy
    \/ UNCHANGED queue /\ Glitch

\* Mutant: the loop awaits the message it has, instead of starting a task.
TakeAwaits(w, m) ==
    /\ m \in batch[w]
    /\ InSlots(w, Channel[m]) = {}
    /\ batch' = [batch EXCEPT ![w] = @ \ {m}]

\* The next message gets a slot and its handler runs to its first await.
Take(w, m) ==
    /\ m \in batch[w]
    /\ Cardinality(InSlots(w, Channel[m])) < Slots[Channel[m]]
    /\ batch' = [batch EXCEPT ![w] = @ \ {m}]

-----------------------------------------------------------------------------
(* One message, up to the gather                                            *)

Deliverable(m) == Form[m] = "readable" /\ DispatchEnabled

Discard(w, m) ==
    /\ Take(w, m)
    /\ \/ Form[m] = "unreadable"
       \/ ~DispatchEnabled /\ ~(Form[m] = "bad_id" /\ Channel[m] \in Inline)
       \/ Deliverable(m) /\ Notice[m] \in Removable
    /\ DeleteMessage(m)
    /\ dropped' = IF queue' # queue THEN dropped \cup {m} ELSE dropped
    /\ UNCHANGED <<decided, runVars, markers, inactive, pushes, refused>>

\* _parse_uuid raises; the handler logs it and the message stays.  The inline
\* consumers parse before they look at the dispatch switch.
FailToParse(w, m) ==
    /\ Take(w, m)
    /\ Form[m] = "bad_id"
    /\ DispatchEnabled \/ Channel[m] \in Inline
    /\ UNCHANGED <<decided, queue, runVars, markers, inactive, histVars, faultVars>>

FetchFails(w, m) ==
    /\ Take(w, m)
    /\ Deliverable(m)
    /\ Glitch
    /\ UNCHANGED <<decided, queue, runVars, markers, inactive, histVars>>

\* What the backend has to say: targets.event_type tells which notice it is,
\* whatever event the message was sent for.
CurrentNotice(m) ==
    IF Notice[m] \in decided THEN Verdict[Notice[m]] ELSE Notice[m]

\* The devices the backend answers with: it leaves out deactivated ones.
FetchedTargets(m) == Targets[CurrentNotice(m)] \ inactive

NobodyToTell(w, m) ==
    /\ Take(w, m)
    /\ Deliverable(m)
    /\ FetchedTargets(m) = {}
    /\ DeleteMessage(m)
    /\ UNCHANGED <<decided, runVars, markers, inactive, histVars>>

StartGather(w, m, g) ==
    /\ Take(w, m)
    /\ Deliverable(m)
    /\ FetchedTargets(m) # {}
    /\ gather[g] = NoGather
    /\ gather' = [gather EXCEPT ![g] =
                    [state |-> "open", worker |-> w, msg |-> m,
                     notice |-> CurrentNotice(m)]]
    /\ task' = [task EXCEPT ![g] =
                    [d \in Devices |->
                        IF d \in FetchedTargets(m) THEN "queued" ELSE "none"]]
    /\ UNCHANGED <<decided, queue, markers, inactive, histVars, faultVars>>

-----------------------------------------------------------------------------
(* One device: _send_to_device                                              *)

\* The first exception abandons a gather, whose other coroutines run on
\* unobserved until the last one ends.
Advance(g, d, stage) ==
    LET t == [task[g] EXCEPT ![d] = stage]
        state == IF stage = "raised" THEN "abandoned" ELSE gather[g].state
    IN  IF state = "abandoned" /\ \A e \in Devices : t[e] \in Finished
        THEN /\ gather' = [gather EXCEPT ![g] = NoGather]
             /\ task' = [task EXCEPT ![g] = NoTasks]
        ELSE /\ gather' = [gather EXCEPT ![g].state = state]
             /\ task' = [task EXCEPT ![g] = t]

\* The fan-out goes by the answer it started with.
Subject(g) == gather[g].notice

\* Mutant: the marker of a copy on the other queue is not found.
AlreadySentNever(g, d) == FALSE

AlreadySent(g, d) == <<Subject(g), d>> \in markers

\* The semaphore of the gather.  The checks and the start of the send are one
\* step.
EnterSemaphore(g, d) ==
    /\ gather[g] # NoGather
    /\ task[g][d] = "queued"
    /\ Cardinality({e \in Devices : task[g][e] \in Holding})
           < Concurrency[Channel[gather[g].msg]]

StartSend(g, d) ==
    /\ EnterSemaphore(g, d)
    /\ IF d \in Configured /\ ~AlreadySent(g, d)
       THEN Advance(g, d, "sending")
       ELSE Advance(g, d, "done")
    /\ UNCHANGED <<sqsVars, markers, inactive, histVars, faultVars>>

\* Mutant: with Redis down the device is taken for already told.
CheckFailsSkips(g, d) ==
    /\ EnterSemaphore(g, d)
    /\ d \in Configured
    /\ Advance(g, d, "done")
    /\ Glitch
    /\ UNCHANGED <<sqsVars, markers, inactive, histVars>>

\* _already_sent lets a Redis error escape.
CheckFails(g, d) ==
    /\ EnterSemaphore(g, d)
    /\ d \in Configured
    /\ Advance(g, d, "raised")
    /\ Glitch
    /\ UNCHANGED <<sqsVars, markers, inactive, histVars>>

PushArrives(g, d) ==
    pushes' = [pushes EXCEPT ![gather[g].msg][Subject(g)][d] = @ + 1]

FcmAccepts(g, d) ==
    /\ task[g][d] = "sending"
    /\ Advance(g, d, "accepted")
    /\ PushArrives(g, d)
    /\ UNCHANGED <<sqsVars, markers, inactive, refused, dropped, faultVars>>

FcmRefuses(g, d) ==
    /\ task[g][d] = "sending"
    /\ Advance(g, d, "rejected")
    /\ refused' = refused \cup {<<Subject(g), d>>}
    /\ UNCHANGED <<sqsVars, markers, inactive, pushes, dropped, faultVars>>

\* Any other exception.  When only the answer was lost, the push has arrived.
FcmFails(g, d) ==
    /\ task[g][d] = "sending"
    /\ Advance(g, d, "transient_failed")
    /\ \/ Glitch /\ UNCHANGED pushes
       \/ Slip /\ PushArrives(g, d)
    /\ UNCHANGED <<sqsVars, markers, inactive, refused, dropped>>

\* deactivate_push_device: a failure is only logged.
Deactivate(g, d) ==
    /\ task[g][d] = "rejected"
    /\ Advance(g, d, "deactivated")
    /\ \/ inactive' = inactive \cup {d} /\ Healthy
       \/ UNCHANGED inactive /\ Glitch
    /\ UNCHANGED <<sqsVars, markers, histVars>>

MarkSent(g, d) ==
    /\ task[g][d] \in {"accepted", "deactivated"}
    /\ Advance(g, d, "done")
    /\ markers' = markers \cup {<<Subject(g), d>>}
    /\ UNCHANGED <<sqsVars, inactive, histVars, faultVars>>

\* _mark_sent raises.  After an accepted push that is one more transient
\* failure of the send, and the retry will find no marker; after a refused one
\* nothing catches it.
MarkFails(g, d) ==
    /\ \/ /\ task[g][d] = "accepted"
          /\ Advance(g, d, "transient_failed")
          /\ Slip
       \/ /\ task[g][d] = "deactivated"
          /\ Advance(g, d, "raised")
          /\ Glitch
    /\ UNCHANGED <<sqsVars, markers, inactive, histVars>>

\* Mutant: transient failures no longer keep the message.
ConcludeAlwaysDeletes(g) ==
    /\ gather[g].state = "open"
    /\ \A d \in Devices : task[g][d] \in Finished
    /\ gather' = [gather EXCEPT ![g] = NoGather]
    /\ task' = [task EXCEPT ![g] = NoTasks]
    /\ DeleteMessage(gather[g].msg)
    /\ UNCHANGED <<decided, batch, markers, inactive, histVars>>

\* All coroutines returned.  A transient failure keeps the message.
Conclude(g) ==
    /\ gather[g].state = "open"
    /\ \A d \in Devices : task[g][d] \in Finished
    /\ gather' = [gather EXCEPT ![g] = NoGather]
    /\ task' = [task EXCEPT ![g] = NoTasks]
    /\ IF \E d \in Devices : task[g][d] = "transient_failed"
       THEN UNCHANGED queue /\ Healthy
       ELSE DeleteMessage(gather[g].msg)
    /\ UNCHANGED <<decided, batch, markers, inactive, histVars>>

-----------------------------------------------------------------------------
(* Restarts and time                                                        *)

\* The process stops.  A loop awaits the tasks in flight, but lifespan cancels
\* it after five seconds, so all of them may be lost wherever they are.
Restart(w) ==
    LET mine == {g \in Gathers : gather[g] # NoGather /\ gather[g].worker = w}
    IN  /\ gather' = [g \in Gathers |->
                        IF g \in mine THEN NoGather ELSE gather[g]]
        /\ task' = [g \in Gathers |-> IF g \in mine THEN NoTasks ELSE task[g]]
        /\ IF \E g \in mine, d \in Devices : task[g][d] = "accepted"
           THEN Slip ELSE Glitch
    /\ batch' = [batch EXCEPT ![w] = {}]
    /\ UNCHANGED <<decided, queue, markers, inactive, histVars>>

\* ..._IDEMPOTENCY_TTL_SECONDS run out.
MarkerExpires(mk) ==
    /\ mk \in markers
    /\ markers' = markers \ {mk}
    /\ Slip
    /\ UNCHANGED <<sqsVars, runVars, inactive, histVars>>

-----------------------------------------------------------------------------

Init ==
    /\ decided = {}
    /\ \E T \in Traffics :
          queue = [m \in Msgs |->
                     CASE m \notin T -> "absent"
                       [] m \in T /\ \E n \in DOMAIN Verdict : Verdict[n] = Notice[m] -> "unsent"
                       [] OTHER -> "visible"]
    /\ batch = [w \in Workers |-> {}]
    /\ gather = [g \in Gathers |-> NoGather]
    /\ task = [g \in Gathers |-> NoTasks]
    /\ markers = {}
    /\ inactive = {}
    /\ pushes = [m \in Msgs |-> [n \in Notices |-> [d \in Devices |-> 0]]]
    /\ refused = {}
    /\ dropped = {}
    /\ faults = 0
    /\ slips = 0

Poll(w) == \E c \in Channels : \E S \in SUBSET Visible(c) : Receive(w, c, S)

Process(w, m) ==
    \/ Discard(w, m)
    \/ FailToParse(w, m)
    \/ FetchFails(w, m)
    \/ NobodyToTell(w, m)
    \/ \E g \in Gathers : StartGather(w, m, g)

Coroutine(g, d) ==
    \/ StartSend(g, d)
    \/ CheckFails(g, d)
    \/ FcmAccepts(g, d)
    \/ FcmRefuses(g, d)
    \/ FcmFails(g, d)
    \/ Deactivate(g, d)
    \/ MarkSent(g, d)
    \/ MarkFails(g, d)

Next ==
    \/ \E n \in Notices : Decide(n)
    \/ \E w \in Workers : Poll(w) \/ Restart(w)
    \/ \E w \in Workers, m \in Msgs : Process(w, m)
    \/ \E g \in Gathers, d \in Devices : Coroutine(g, d)
    \/ \E g \in Gathers : Conclude(g)
    \/ \E m \in Msgs : VisibilityTimeout(m)
    \/ \E mk \in Notices \X Devices : MarkerExpires(mk)

Spec == Init /\ [][Next]_vars

\* As in EventDelivery, except that the pushes of a slow message take as long
\* as they like.
Fairness ==
    /\ \A w \in Workers, m \in Msgs : WF_vars(Process(w, m))
    /\ \A g \in Gathers :
          /\ \A d \in Devices :
                WF_vars(/\ gather[g] # NoGather /\ gather[g].msg \notin Slow
                        /\ Coroutine(g, d))
          /\ WF_vars(Conclude(g))
    /\ \A m \in Msgs :
          /\ WF_vars(~InHand(m) /\ VisibilityTimeout(m))
          /\ SF_vars(\E w \in Workers, S \in SUBSET Visible(Channel[m]) :
                        m \in S /\ Receive(w, Channel[m], S))

FairSpec == Spec /\ Fairness

-----------------------------------------------------------------------------
(* Properties                                                               *)

TypeOK ==
    /\ decided \subseteq DOMAIN Verdict
    /\ queue \in [Msgs -> {"absent", "unsent", "visible", "inflight", "deleted"}]
    /\ batch \in [Workers -> SUBSET Msgs]
    /\ gather \in [Gathers -> {NoGather} \cup Running]
    /\ task \in [Gathers -> [Devices -> Stages]]
    /\ markers \subseteq Notices \X Devices
    /\ inactive \subseteq Devices
    /\ pushes \in [Msgs -> [Notices -> [Devices -> Nat]]]
    /\ refused \subseteq Notices \X Devices
    /\ dropped \subseteq Msgs
    /\ faults \in Nat
    /\ slips \in Nat

Handled(n, d) == (\E m \in Msgs : pushes[m][n][d] > 0) \/ <<n, d>> \in refused

\* Told, refused for good, without credentials for the platform, deactivated.
Settled(n, d) == d \notin Configured \/ d \in inactive \/ Handled(n, d)

\* What a message may announce by now.
Announced(m) == {Notice[m], CurrentNotice(m)}

\* A message leaves its queue only when every device of its audience is
\* settled, by it or by a copy on the other queue, or when there was nothing
\* to deliver: no abandoned gather, crash or lost marker takes a recipient
\* along.  A join request decided meanwhile may have told the requester
\* instead of the moderators, but one audience has been told.
SettledBeforeDelete ==
    \A m \in Msgs : queue[m] = "deleted" /\ m \notin dropped =>
        \E n \in Announced(m) : \A d \in Targets[n] : Settled(n, d)

\* Each message pushes a notice to a device at most once, and once more for
\* each slip.  A Redis failure after FCM accepted is a slip here: the device
\* counts as failed and the retry finds no marker.  Plain retries, failed
\* deletes, abandoned gathers, handlers running side by side, and a decision
\* that the message of the request and its own message both tell, are none.
RepeatsNeedSlips ==
    \A m \in Msgs, n \in Notices, d \in Devices : pushes[m][n][d] <= 1 + slips

\* What the consumers do is what DeliveryContract allows.  A device is settled
\* for a request decided meanwhile when the decision has been told.
Contract == INSTANCE DeliveryContract WITH
    Messages   <- Msgs,
    Recipients <- Devices,
    Audience   <- [m \in Msgs |-> Targets[Notice[m]]],
    open       <- {m \in Msgs : queue[m] # "deleted"},
    settled    <- {md \in Msgs \X Devices :
                     \/ Settled(Notice[md[1]], md[2])
                     \/ /\ Notice[md[1]] \in decided
                        /\ \A e \in Targets[CurrentNotice(md[1])] :
                              Settled(CurrentNotice(md[1]), e)},
    withdrawn  <- dropped

\* These consumers implement the at-least-once contract too.
ImplementsContract == Contract!Spec

\* A fan-out that never ends does not hold back messages received after it, as
\* long as there are more slots than it takes with its redeliveries; and a
\* message behind one that raises, in a loop of one slot, is served as well.
SlowHoldsNobodyBack ==
    \A m \in Msgs : m \notin Slow /\ Form[m] # "bad_id" =>
        (queue[m] = "visible" => <>(queue[m] = "deleted"))
=============================================================================
