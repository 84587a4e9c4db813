------------------------------- MODULE AudioJob -------------------------------
(***************************************************************************)
(* The audio job consumer (audio_job_consumer.py): a worker takes a message *)
(* off the audio queue, looks the job up at the backend, claims it by       *)
(* PATCHing it to "processing", generates the audio, has the backend apply  *)
(* it, PATCHes the verdict and deletes the message.                         *)
(*                                                                          *)
(* The job row lives at the backend, which is external: of a PATCH that     *)
(* claims it the worker's code and tests expect that a pending job becomes  *)
(* processing, that one in process is answered with 409, and that a         *)
(* finished one is answered with its status.                                *)
(***************************************************************************)
EXTENDS Naturals, FiniteSets

CONSTANTS
    Workers,     \* worker processes polling the audio queue
    Msgs,        \* SQS messages
    Jobs,        \* audio jobs
    NoMsg,       \* the message of a worker that has none
    JobOf,       \* [Msgs -> Jobs]
    Form,        \* [Msgs -> Forms]: what the body holds
    MaxMessages, \* AUDIO_SQS_MAX_MESSAGES
    MaxFaults    \* bound: the misfortunes of one behaviour

\* No JSON object with a job_id; a job_id that is no UUID; a body or a plan
\* that no audio can be made from (language or ids missing, nothing to read).
Forms == {"good", "unreadable", "bad_job_id", "incomplete"}

ASSUME ConstantsAssumption ==
    /\ NoMsg \notin Msgs
    /\ JobOf \in [Msgs -> Jobs]
    /\ Form \in [Msgs -> Forms]
    /\ MaxMessages \in Nat \ {0}
    /\ MaxFaults \in Nat

VARIABLES
    queue,   \* [Msgs -> "visible" | "inflight" | "deleted"]
    batch,   \* [Workers -> messages received and not yet looked at]
    step,    \* [Workers -> Steps]: the await the consumer is at
    holds,   \* [Workers -> the message being processed, or NoMsg]
    job,     \* [Jobs -> Statuses]: the backend's row
    audio,   \* [Jobs -> generation results the backend applied]
    starts,  \* history: [Jobs -> times its generation was started]
    faults,  \* misfortunes so far
    strands  \* those of them that leave a claimed job without a worker

sqsVars     == <<queue, batch>>
workerVars  == <<step, holds>>
backendVars == <<job, audio>>
faultVars   == <<faults, strands>>
vars == <<queue, batch, step, holds, job, audio, starts, faults, strands>>

Terminal == {"completed", "failed"}
Statuses == {"missing", "pending", "processing"} \cup Terminal

\* Waiting for a poll; for the GET, the claiming PATCH, the payload and the
\* speech, the POST of the result, either closing PATCH; all is said and done.
Owning == {"generating", "applying", "completing", "failing"}
Steps  == {"idle", "looking", "claiming", "finished"} \cup Owning

Job(w) == JobOf[holds[w]]

\* The claim of j is w's, and the verdict is still to come.
Owns(w, j) == step[w] \in Owning /\ Job(w) = j

-----------------------------------------------------------------------------
(* Fault accounting and the queue                                           *)

Healthy == UNCHANGED faultVars

Glitch ==
    /\ faults < MaxFaults
    /\ faults' = faults + 1
    /\ UNCHANGED strands

Strand ==
    /\ faults < MaxFaults
    /\ faults' = faults + 1
    /\ strands' = strands + 1

Receive(w, S) ==
    /\ step[w] = "idle" /\ batch[w] = {}
    /\ S # {} /\ Cardinality(S) <= MaxMessages
    /\ \A m \in S : queue[m] = "visible"
    /\ queue' = [m \in Msgs |-> IF m \in S THEN "inflight" ELSE queue[m]]
    /\ batch' = [batch EXCEPT ![w] = S]
    /\ UNCHANGED <<workerVars, backendVars, starts, faultVars>>

\* AUDIO_SQS_VISIBILITY_TIMEOUT_SECONDS run out, with or without a worker on it.
VisibilityTimeout(m) ==
    /\ queue[m] = "inflight"
    /\ queue' = [queue EXCEPT ![m] = "visible"]
    /\ IF \E w \in Workers : m \in batch[w] \/ holds[w] = m
       THEN Glitch ELSE Healthy
    /\ UNCHANGED <<batch, workerVars, backendVars, starts>>

\* delete_audio_job_message: a ClientError is only logged.
DeleteMessage(m) ==
    \/ queue' = [queue EXCEPT ![m] = "deleted"] /\ Healthy
    \/ UNCHANGED queue /\ Glitch

-----------------------------------------------------------------------------
(* process_audio_job_message                                                *)

\* The worker's call is over and the loop goes on with the batch.
Return(w) ==
    /\ step' = [step EXCEPT ![w] = "idle"]
    /\ holds' = [holds EXCEPT ![w] = NoMsg]

\* An exception reaches the loop, which gives up the rest of the batch.
Escape(w) ==
    /\ Return(w)
    /\ batch' = [batch EXCEPT ![w] = {}]

Goto(w, s) == step' = [step EXCEPT ![w] = s] /\ UNCHANGED holds

AtMessage(w, m) == step[w] = "idle" /\ m \in batch[w]

\* A body that cannot be read is deleted.
Discard(w, m) ==
    /\ AtMessage(w, m)
    /\ Form[m] = "unreadable"
    /\ batch' = [batch EXCEPT ![w] = @ \ {m}]
    /\ DeleteMessage(m)
    /\ UNCHANGED <<workerVars, backendVars, starts>>

\* _parse_uuid raises on a job_id that is no UUID.
RejectJobId(w, m) ==
    /\ AtMessage(w, m)
    /\ Form[m] = "bad_job_id"
    /\ Escape(w)
    /\ UNCHANGED <<queue, backendVars, starts, faultVars>>

Begin(w, m) ==
    /\ AtMessage(w, m)
    /\ Form[m] \in {"good", "incomplete"}
    /\ batch' = [batch EXCEPT ![w] = @ \ {m}]
    /\ step' = [step EXCEPT ![w] = "looking"]
    /\ holds' = [holds EXCEPT ![w] = m]
    /\ UNCHANGED <<queue, backendVars, starts, faultVars>>

\* Mutant: the message of a finished job is not deleted.
LookUpKeepsFinished(w) ==
    /\ step[w] = "looking"
    /\ IF job[Job(w)] \in Terminal \cup {"missing"}
       THEN Return(w)
       ELSE Goto(w, "claiming")
    /\ UNCHANGED <<sqsVars, backendVars, starts, faultVars>>

\* get_audio_job_status.  A job that is missing or over ends the message.
LookUp(w) ==
    /\ step[w] = "looking"
    /\ IF job[Job(w)] \in Terminal \cup {"missing"}
       THEN Return(w) /\ DeleteMessage(holds[w])
       ELSE Goto(w, "claiming") /\ UNCHANGED queue /\ Healthy
    /\ UNCHANGED <<batch, backendVars, starts>>

LookUpFails(w) ==
    /\ step[w] = "looking"
    /\ Escape(w)
    /\ Glitch
    /\ UNCHANGED <<queue, backendVars, starts>>

\* Mutant: the answer to the claim is not looked at.
ClaimUnchecked(w) ==
    /\ step[w] = "claiming"
    /\ job' = [job EXCEPT ![Job(w)] = "processing"]
    /\ starts' = [starts EXCEPT ![Job(w)] = @ + 1]
    /\ Goto(w, "generating")
    /\ Healthy
    /\ UNCHANGED <<sqsVars, audio>>

\* The claim: PATCH to "processing".  A 409, or a finished job, ends the
\* message; the job read before the await may no longer be what it was.
Claim(w) ==
    /\ step[w] = "claiming"
    /\ IF job[Job(w)] = "pending"
       THEN /\ job' = [job EXCEPT ![Job(w)] = "processing"]
            /\ starts' = [starts EXCEPT ![Job(w)] = @ + 1]
            /\ Goto(w, "generating")
            /\ UNCHANGED queue /\ Healthy
       ELSE /\ Return(w) /\ DeleteMessage(holds[w])
            /\ UNCHANGED <<job, starts>>
    /\ UNCHANGED <<batch, audio>>

\* Any other error of the PATCH escapes.  When only the answer was lost, the
\* job is claimed and nobody knows.
ClaimFails(w) ==
    /\ step[w] = "claiming"
    /\ Escape(w)
    /\ \/ Glitch /\ UNCHANGED job
       \/ /\ job[Job(w)] = "pending"
          /\ job' = [job EXCEPT ![Job(w)] = "processing"]
          /\ Strand
    /\ UNCHANGED <<queue, audio, starts>>

\* generate_plan_audio_service up to the POST: payload, speech, WAV, upload.
Generate(w) ==
    /\ step[w] = "generating"
    /\ Form[holds[w]] = "good"
    /\ Goto(w, "applying")
    /\ UNCHANGED <<sqsVars, backendVars, starts, faultVars>>

\* Mutant: an unusable request leaves the try as any other exception.
GenerateFailsUncaught(w) ==
    /\ step[w] = "generating"
    /\ Escape(w)
    /\ IF Form[holds[w]] = "incomplete" THEN Healthy ELSE Glitch
    /\ UNCHANGED <<queue, backendVars, starts>>

GenerateFails(w) ==
    /\ step[w] = "generating"
    /\ Goto(w, "failing")
    /\ IF Form[holds[w]] = "incomplete" THEN Healthy ELSE Glitch
    /\ UNCHANGED <<sqsVars, backendVars, starts>>

\* Mutant: the job is closed before its result is handed over.
ApplyForgotten(w) ==
    /\ step[w] = "applying"
    /\ Goto(w, "completing")
    /\ UNCHANGED <<sqsVars, backendVars, starts, faultVars>>

\* Mutant: the worker is done with the message and does not let go of it.
ApplyIdles(w) ==
    /\ step[w] = "applying"
    /\ audio' = [audio EXCEPT ![Job(w)] = @ + 1]
    /\ Goto(w, "idle")
    /\ UNCHANGED <<sqsVars, job, starts, faultVars>>

\* The backend applies the generation result.
Apply(w) ==
    /\ step[w] = "applying"
    /\ audio' = [audio EXCEPT ![Job(w)] = @ + 1]
    /\ Goto(w, "completing")
    /\ UNCHANGED <<sqsVars, job, starts, faultVars>>

\* The POST, its answer or the presigned URL after it fails.
ApplyFails(w) ==
    /\ step[w] = "applying"
    /\ Goto(w, "failing")
    /\ Glitch
    /\ \/ UNCHANGED audio
       \/ audio' = [audio EXCEPT ![Job(w)] = @ + 1]
    /\ UNCHANGED <<sqsVars, job, starts>>

\* What the backend makes of a verdict; a finished job may keep the first one.
Verdict(j, status) ==
    \/ job' = [job EXCEPT ![j] = status]
    \/ job[j] \in Terminal /\ UNCHANGED job

Complete(w) ==
    /\ step[w] = "completing"
    /\ Verdict(Job(w), "completed")
    /\ Goto(w, "finished")
    /\ UNCHANGED <<sqsVars, audio, starts, faultVars>>

\* The except clause covers this PATCH too: the job is then failed, although
\* the audio is there and, if only the answer was lost, the job completed.
CompleteFails(w) ==
    /\ step[w] = "completing"
    /\ Goto(w, "failing")
    /\ Glitch
    /\ UNCHANGED job \/ Verdict(Job(w), "completed")
    /\ UNCHANGED <<sqsVars, audio, starts>>

Fail(w) ==
    /\ step[w] = "failing"
    /\ Verdict(Job(w), "failed")
    /\ Goto(w, "finished")
    /\ UNCHANGED <<sqsVars, audio, starts, faultVars>>

\* This PATCH is not covered: its error escapes and the message is kept.
FailFails(w) ==
    /\ step[w] = "failing"
    /\ Escape(w)
    /\ \/ UNCHANGED job /\ Strand
       \/ Verdict(Job(w), "failed") /\ Glitch
    /\ UNCHANGED <<queue, audio, starts>>

Finish(w) ==
    /\ step[w] = "finished"
    /\ Return(w)
    /\ DeleteMessage(holds[w])
    /\ UNCHANGED <<batch, backendVars, starts>>

\* The process stops at any point; a claim it holds stays at the backend.
Restart(w) ==
    /\ Escape(w)
    /\ IF step[w] \in Owning THEN Strand ELSE Glitch
    /\ UNCHANGED <<queue, backendVars, starts>>

-----------------------------------------------------------------------------

Init ==
    /\ queue = [m \in Msgs |-> "visible"]
    /\ batch = [w \in Workers |-> {}]
    /\ step = [w \in Workers |-> "idle"]
    /\ holds = [w \in Workers |-> NoMsg]
    /\ job \in [Jobs -> {"missing", "pending"}]
    /\ audio = [j \in Jobs |-> 0]
    /\ starts = [j \in Jobs |-> 0]
    /\ faults = 0
    /\ strands = 0

Poll(w) == \E S \in SUBSET Msgs : Receive(w, S)

Open(w) == \E m \in Msgs : Discard(w, m) \/ RejectJobId(w, m) \/ Begin(w, m)

Process(w) ==
    \/ LookUp(w) \/ LookUpFails(w)
    \/ Claim(w) \/ ClaimFails(w)
    \/ Generate(w) \/ GenerateFails(w)
    \/ Apply(w) \/ ApplyFails(w)
    \/ Complete(w) \/ CompleteFails(w)
    \/ Fail(w) \/ FailFails(w)
    \/ Finish(w)

Next ==
    \/ \E w \in Workers : Poll(w) \/ Open(w) \/ Process(w) \/ Restart(w)
    \/ \E m \in Msgs : VisibilityTimeout(m)

Spec == Init /\ [][Next]_vars

\* The loop runs, awaited calls end (every client has a timeout), SQS hands out a
\* visible message sooner or later, and a batch has no fixed order: no message is
\* for ever behind one that breaks its batch.
Fairness ==
    /\ \A w \in Workers : WF_vars(Open(w)) /\ WF_vars(Process(w))
    /\ \A m \in Msgs :
          /\ WF_vars(VisibilityTimeout(m))
          /\ SF_vars(\E w \in Workers : Discard(w, m) \/ Begin(w, m))
          /\ SF_vars(\E w \in Workers, S \in SUBSET Msgs :
                        m \in S /\ Receive(w, S))

FairSpec == Spec /\ Fairness

-----------------------------------------------------------------------------
(* Properties                                                               *)

TypeOK ==
    /\ queue \in [Msgs -> {"visible", "inflight", "deleted"}]
    /\ batch \in [Workers -> SUBSET Msgs]
    /\ step \in [Workers -> Steps]
    /\ holds \in [Workers -> Msgs \cup {NoMsg}]
    /\ \A w \in Workers : holds[w] = NoMsg <=> step[w] = "idle"
    /\ job \in [Jobs -> Statuses]
    /\ audio \in [Jobs -> Nat]
    /\ starts \in [Jobs -> Nat]
    /\ faults \in Nat
    /\ strands \in Nat

\* However often its messages are delivered, and to however many workers at a
\* time, the audio of a job is generated once: no second run overwrites it.
GeneratedOnce == \A j \in Jobs : starts[j] <= 1

\* A job that is reported complete has had its audio applied.
CompletedHasAudio ==
    \A j \in Jobs : job[j] = "completed" => audio[j] = 1

\* In process at the backend, and no worker is on it: a redelivered message
\* meets a 409, so it stays that way.
Stranded ==
    {j \in Jobs : job[j] = "processing" /\ \A w \in Workers : ~Owns(w, j)}

\* A job is left in process for good only by a process that dies while it owns
\* the claim, by a lost answer to a claim or by a failing report of failure,
\* one job for each.  Bad requests, failing generation, overrun visibility
\* timeouts, redeliveries and failed deletes strand none.
StrandsAccountedFor == Cardinality(Stranded) <= strands

\* A message is deleted once its job is over, unless the job got stranded.
EveryJobEnds ==
    \A m \in Msgs : Form[m] \in {"good", "incomplete"} =>
        <>(/\ queue[m] = "deleted"
           /\ job[JobOf[m]] \in Terminal \cup {"missing"} \/ strands > 0)
=============================================================================
