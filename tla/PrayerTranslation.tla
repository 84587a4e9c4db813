-------------------------- MODULE PrayerTranslation --------------------------
(***************************************************************************)
(* The prayer translation consumer (prayer_translation).  For every message  *)
(* it reads the prayer from the backend, has it translated and posts the     *)
(* result along with the text it was made from.  One message is awaited at   *)
(* a time; an error of the backend escapes the handler, and with it go the   *)
(* messages of the batch behind it, until SQS shows them again.              *)
(*                                                                          *)
(* The backend sends a message for a new prayer and for each edit, and does  *)
(* not keep a translation of a text the prayer no longer has: body_at_dispatch *)
(* is posted for that.                                                       *)
(***************************************************************************)
EXTENDS Naturals, FiniteSets

CONSTANTS
    Workers,   \* processes, each with one consumer
    Prayers,   \* prayer requests
    Garbage,   \* messages without a body or a UUID
    Traffics,  \* sets of prayers and garbage: one of them is what comes
    Rejected,  \* prayers whose results the backend refuses, whatever they are
    BatchSize, \* PRAYER_TRANSLATION_SQS_MAX_MESSAGES
    MaxEdits,  \* bound, [Prayers -> Nat]: texts of one prayer
    MaxFaults  \* bound: the misfortunes of one behaviour

ASSUME ConstantsAssumption ==
    /\ Traffics \subseteq SUBSET (Prayers \cup Garbage)
    /\ Rejected \subseteq Prayers
    /\ BatchSize \in Nat \ {0}
    /\ MaxEdits \in [Prayers -> Nat]
    /\ \A p \in Prayers, m \in Garbage : \A n \in 1..MaxEdits[p] : m # <<p, n>>
    /\ MaxFaults \in Nat

VARIABLES
    body,       \* [Prayers -> Nat]: the text at the backend
    gone,       \* prayers deleted there or emptied, or never to be written
    translated, \* [Prayers -> Nat]: the text its translations are of
    queue,      \* [Msgs -> "unsent" | "visible" | "inflight" | "deleted"]
    phase,      \* [Workers -> "up" | "stopping" | "down"]
    batch,      \* [Workers -> received messages that were not begun]
    handler,    \* [Workers -> Handlers]: the message being processed
    faults      \* misfortunes so far

backendVars == <<body, gone, translated>>
vars == <<body, gone, translated, queue, phase, batch, handler, faults>>

\* A prayer's texts are numbered, 0 before it is written.  The message <<p, n>>
\* was sent for the n-th text of p.
Messages(p) == {p} \X (1..MaxEdits[p])
Msgs     == (UNION {Messages(p) : p \in Prayers}) \cup Garbage

Idle     == [stage |-> "idle"]
Handlers == {Idle} \cup
    [stage : {"reading", "translating", "posting", "deleting"}, msg : Msgs,
     text : Nat]

Healthy == UNCHANGED faults
Glitch  == faults < MaxFaults /\ faults' = faults + 1

InHand(w) == batch[w] \cup (IF handler[w] = Idle THEN {} ELSE {handler[w].msg})
Loose(m)  == \A w \in Workers : m \notin InHand(w)

-----------------------------------------------------------------------------
(* The backend and the queue                                                *)

\* A prayer is written or edited, and a message published.
Edit(p) ==
    /\ p \notin gone /\ body[p] < MaxEdits[p]
    /\ body' = [body EXCEPT ![p] = @ + 1]
    /\ queue' = [queue EXCEPT ![<<p, body[p] + 1>>] = "visible"]
    /\ UNCHANGED <<gone, translated, phase, batch, handler, faults>>

Remove(p) ==
    /\ p \notin gone /\ body[p] > 0
    /\ gone' = gone \cup {p}
    /\ UNCHANGED <<body, translated, queue, phase, batch, handler, faults>>

\* The visibility timeout ends: for a message that was left, or that has been
\* with a slow consumer for too long.
VisibilityEnds(m) ==
    /\ queue[m] = "inflight"
    /\ queue' = [queue EXCEPT ![m] = "visible"]
    /\ IF Loose(m) THEN Healthy ELSE Glitch
    /\ UNCHANGED <<backendVars, phase, batch, handler>>

-----------------------------------------------------------------------------
(* run_prayer_translation_sqs_consumer                                      *)

Stage(w, stage, m, text) ==
    handler' = [handler EXCEPT ![w] = [stage |-> stage, msg |-> m, text |-> text]]

\* The handler returned: the message is deleted, or left on the queue.
Return(w) == handler' = [handler EXCEPT ![w] = Idle] /\ UNCHANGED batch

\* Mutant: the handler's state outlives its batch.
RaiseKeeps(w) == batch' = [batch EXCEPT ![w] = {}] /\ UNCHANGED handler

\* The handler raised: the batch is abandoned.
Raise(w) ==
    /\ handler' = [handler EXCEPT ![w] = Idle]
    /\ batch' = [batch EXCEPT ![w] = {}]

Visible == {m \in Msgs : queue[m] = "visible"}

\* Mutant: what cannot be read is left alone.
BeginLeaves(w, m) ==
    IF m \in Garbage THEN UNCHANGED handler ELSE Stage(w, "reading", m, 0)

\* The handler starts: what cannot be read or names no prayer is deleted.
Begin(w, m) == Stage(w, IF m \in Garbage THEN "deleting" ELSE "reading", m, 0)

\* A batch: m, and S behind it in the order SQS gave, which can be any.
Receive(w, m, S) ==
    /\ phase[w] = "up"
    /\ handler[w] = Idle /\ batch[w] = {}
    /\ Cardinality(S) < BatchSize
    /\ queue' = [n \in Msgs |-> IF n \in S \cup {m} THEN "inflight" ELSE queue[n]]
    /\ batch' = [batch EXCEPT ![w] = S]
    /\ Begin(w, m)
    /\ UNCHANGED <<backendVars, phase, faults>>

Continue(w, m) ==
    /\ phase[w] = "up"
    /\ handler[w] = Idle
    /\ m \in batch[w]
    /\ batch' = [batch EXCEPT ![w] = @ \ {m}]
    /\ Begin(w, m)
    /\ UNCHANGED <<backendVars, queue, phase, faults>>

\* get_prayer_translation_payload: without a text there is nothing to do.
Get(w) ==
    LET m == handler[w].msg IN
    /\ handler[w].stage = "reading"
    /\ \/ /\ IF m[1] \in gone THEN Stage(w, "deleting", m, 0)
             ELSE Stage(w, "translating", m, body[m[1]])
          /\ UNCHANGED batch
          /\ Healthy
       \/ Raise(w) /\ Glitch
    /\ UNCHANGED <<backendVars, queue, phase>>

\* Mutant: what Gemini cannot translate is deleted.
TranslateGivesUp(w) ==
    /\ handler[w].stage = "translating"
    /\ \/ /\ handler' = [handler EXCEPT ![w].stage = "posting"]
          /\ Healthy
       \/ /\ handler' = [handler EXCEPT ![w].stage = "deleting"]
          /\ Glitch
    /\ UNCHANGED <<backendVars, queue, phase, batch>>

\* translate_prayer_request: without all three languages the message is left.
Translate(w) ==
    /\ handler[w].stage = "translating"
    /\ \/ /\ Stage(w, "posting", handler[w].msg, handler[w].text)
          /\ UNCHANGED batch
          /\ Healthy
       \/ Return(w) /\ Glitch
    /\ UNCHANGED <<backendVars, queue, phase>>

\* What a result for text does at the backend.
Stored(p, text) ==
    IF p \notin Rejected \cup gone /\ body[p] = text THEN [translated EXCEPT ![p] = text]
    ELSE translated

\* post_prayer_translation_result: a result that is not wanted may be refused
\* or just ignored; a request or its answer may get lost.
Post(w) ==
    LET m    == handler[w].msg
        p    == m[1]
        text == handler[w].text
    IN
    /\ handler[w].stage = "posting"
    /\ \/ /\ p \notin Rejected
          /\ translated' = Stored(p, text)
          /\ Stage(w, "deleting", m, 0)
          /\ UNCHANGED batch
          /\ Healthy
       \/ /\ p \in Rejected \cup gone \/ body[p] # text
          /\ Raise(w)
          /\ UNCHANGED translated
          /\ Healthy
       \/ /\ translated' \in {translated, Stored(p, text)}
          /\ Raise(w)
          /\ Glitch
    /\ UNCHANGED <<body, gone, queue, phase>>

\* A failed delete is logged.
Delete(w) ==
    LET m == handler[w].msg IN
    /\ handler[w].stage = "deleting"
    /\ \/ queue' = [queue EXCEPT ![m] = "deleted"] /\ Healthy
       \/ UNCHANGED queue /\ Glitch
    /\ Return(w)
    /\ UNCHANGED <<backendVars, phase>>

-----------------------------------------------------------------------------
(* lifespan                                                                 *)

Stop(w) ==
    /\ phase[w] = "up"
    /\ phase' = [phase EXCEPT ![w] = "stopping"]
    /\ Glitch
    /\ UNCHANGED <<backendVars, queue, batch, handler>>

\* Between two messages the consumer sees the stop event; the rest of its batch
\* is left.
Leave(w) ==
    /\ phase[w] = "stopping"
    /\ handler[w] = Idle
    /\ phase' = [phase EXCEPT ![w] = "down"]
    /\ batch' = [batch EXCEPT ![w] = {}]
    /\ UNCHANGED <<backendVars, queue, handler, faults>>

\* Five seconds after the stop the task is cancelled, or the process is killed:
\* what it awaits may be done all the same.
Cancel(w) ==
    LET m == handler[w].msg IN
    /\ handler[w] # Idle
    /\ IF phase[w] = "stopping" THEN Healthy ELSE phase[w] = "up" /\ Glitch
    /\ \/ UNCHANGED <<translated, queue>>
       \/ /\ handler[w].stage = "posting"
          /\ translated' = Stored(m[1], handler[w].text)
          /\ UNCHANGED queue
       \/ /\ handler[w].stage = "deleting"
          /\ queue' = [queue EXCEPT ![m] = "deleted"]
          /\ UNCHANGED translated
    /\ phase' = [phase EXCEPT ![w] = "down"]
    /\ Raise(w)
    /\ UNCHANGED <<body, gone>>

Start(w) ==
    /\ phase[w] = "down"
    /\ phase' = [phase EXCEPT ![w] = "up"]
    /\ UNCHANGED <<backendVars, queue, batch, handler, faults>>

-----------------------------------------------------------------------------

Init ==
    /\ body = [p \in Prayers |-> 0]
    /\ translated = [p \in Prayers |-> 0]
    /\ \E T \in Traffics :
          /\ gone = Prayers \ T
          /\ queue = [m \in Msgs |->
                        IF m \in Garbage \cap T THEN "visible" ELSE "unsent"]
    /\ phase = [w \in Workers |-> "up"]
    /\ batch = [w \in Workers |-> {}]
    /\ handler = [w \in Workers |-> Idle]
    /\ faults = 0

Process(w) == Get(w) \/ Translate(w) \/ Post(w) \/ Delete(w)

Next ==
    \/ \E p \in Prayers : Edit(p) \/ Remove(p)
    \/ \E m \in Msgs : VisibilityEnds(m)
    \/ \E w \in Workers :
          \/ \E m \in Visible : \E S \in SUBSET (Visible \ {m}) : Receive(w, m, S)
          \/ \E m \in batch[w] : Continue(w, m)
          \/ Process(w) \/ Stop(w) \/ Leave(w) \/ Cancel(w) \/ Start(w)

Spec == Init /\ [][Next]_vars

\* What a worker awaits ends, a stopped one is started again, and what was left
\* gets visible.  No message is forever received behind another one.
Fairness ==
    /\ \A w \in Workers :
          WF_vars(\/ Process(w) \/ Leave(w) \/ Start(w)
                  \/ \E m \in batch[w] : Continue(w, m))
    /\ \A m \in Msgs :
          /\ WF_vars(Loose(m) /\ VisibilityEnds(m))
          /\ SF_vars(/\ m \in Visible
                     /\ \E w \in Workers : \E S \in SUBSET (Visible \ {m}) :
                           Receive(w, m, S))

FairSpec == Spec /\ Fairness

-----------------------------------------------------------------------------
(* Properties                                                               *)

TypeOK ==
    /\ body \in [Prayers -> Nat]
    /\ translated \in [Prayers -> Nat]
    /\ \A p \in Prayers : translated[p] <= body[p] /\ body[p] <= MaxEdits[p]
    /\ gone \subseteq Prayers
    /\ queue \in [Msgs -> {"unsent", "visible", "inflight", "deleted"}]
    /\ phase \in [Workers -> {"up", "stopping", "down"}]
    /\ batch \in [Workers -> SUBSET Msgs]
    /\ handler \in [Workers -> Handlers]
    /\ \A w \in Workers : phase[w] = "down" => handler[w] = Idle /\ batch[w] = {}
    /\ faults \in 0..MaxFaults

\* A prayer that has no translations of its present text still has a message:
\* no edit between the read and the post, no second consumer with the same
\* message, no failure and no stop makes the worker delete the last one too
\* early.
NoPrayerForgotten ==
    \A p \in Prayers :
        \/ p \in gone
        \/ translated[p] = body[p]
        \/ \E m \in Messages(p) : queue[m] \in {"visible", "inflight"}

\* Every message leaves the queue in the end, those behind one whose result the
\* backend always refuses included: what a failure abandons comes back.  Failures
\* are finitely many here, so a prayer that Gemini will never translate, whose
\* message the code receives for ever, is not spoken of.
EveryMessageLeaves ==
    \A m \in Msgs \ UNION {Messages(p) : p \in Rejected} :
        queue[m] = "visible" ~> queue[m] = "deleted"
=============================================================================
