--------------------------- MODULE AudioJobProofs ---------------------------
(***************************************************************************)
(* Proofs about AudioJob for every fleet, queue and number of faults: type *)
(* correctness, no job generated twice, no job complete without its audio, *)
(* and a fault for every job that is stranded; and about AudioTimeline, for *)
(* every day: its timeline keeps to its recording.                          *)
(***************************************************************************)
EXTENDS AudioJob, AudioTimeline, FiniteSetTheorems, WellFoundedInduction,
        TLAPS

-----------------------------------------------------------------------------
(* The inductive invariant                                                  *)

\* A worker between its claim and its verdict is alone with a claimed job, and
\* how far it came tells whether the audio was applied.
OwnersInv ==
    \A w \in Workers : step[w] \in Owning =>
        /\ job[Job(w)] \notin {"missing", "pending"}
        /\ \A v \in Workers : Owns(v, Job(w)) => v = w
        /\ step[w] \in {"generating", "applying"} =>
              job[Job(w)] = "processing" /\ audio[Job(w)] = 0
        /\ step[w] = "completing" => audio[Job(w)] = 1

\* A job nobody claimed has neither a start nor audio.
UnclaimedInv ==
    \A j \in Jobs : job[j] \in {"missing", "pending"} =>
        starts[j] = 0 /\ audio[j] = 0

IInv ==
    /\ TypeOK
    /\ OwnersInv
    /\ UnclaimedInv
    /\ GeneratedOnce
    /\ CompletedHasAudio

-----------------------------------------------------------------------------
(* Type correctness                                                         *)

LEMMA FaultTypes ==
    ASSUME TypeOK, Healthy \/ Glitch \/ Strand
    PROVE  faults' \in Nat /\ strands' \in Nat
BY DEF TypeOK, Healthy, Glitch, Strand, faultVars

LEMMA DeleteType ==
    ASSUME TypeOK, NEW m \in Msgs, DeleteMessage(m)
    PROVE  /\ queue' \in [Msgs -> {"visible", "inflight", "deleted"}]
           /\ faults' \in Nat /\ strands' \in Nat
BY FaultTypes DEF TypeOK, DeleteMessage

\* Return and Goto keep the loop state of the workers well-formed, and touch
\* one worker only.
LEMMA ReturnEffect ==
    ASSUME TypeOK, NEW w \in Workers, Return(w)
    PROVE  /\ step' \in [Workers -> Steps]
           /\ holds' \in [Workers -> Msgs \cup {NoMsg}]
           /\ \A v \in Workers : holds'[v] = NoMsg <=> step'[v] = "idle"
           /\ step'[w] = "idle"
           /\ \A v \in Workers \ {w} : step'[v] = step[v] /\ holds'[v] = holds[v]
BY DEF TypeOK, Return, Steps

LEMMA GotoEffect ==
    ASSUME TypeOK, NEW w \in Workers, NEW s \in Steps \ {"idle"},
           step[w] # "idle", Goto(w, s)
    PROVE  /\ step' \in [Workers -> Steps]
           /\ holds' \in [Workers -> Msgs \cup {NoMsg}]
           /\ \A v \in Workers : holds'[v] = NoMsg <=> step'[v] = "idle"
           /\ step'[w] = s
           /\ \A v \in Workers \ {w} : step'[v] = step[v]
           /\ holds' = holds
BY DEF TypeOK, Goto, Steps

LEMMA StepNames ==
    {"looking", "claiming", "generating", "applying", "completing", "failing",
     "finished"} \subseteq Steps \ {"idle"}
BY DEF Steps, Owning

\* A worker that is not idle has a message.
LEMMA BusyHolds ==
    ASSUME TypeOK, NEW w \in Workers, step[w] # "idle"
    PROVE  holds[w] \in Msgs /\ Job(w) \in Jobs
BY ConstantsAssumption DEF TypeOK, Job

LEMMA VerdictType ==
    ASSUME TypeOK, NEW j \in Jobs, NEW s \in Terminal, Verdict(j, s)
    PROVE  job' \in [Jobs -> Statuses]
BY DEF TypeOK, Verdict, Statuses

LEMMA InitType == Init => TypeOK
BY ConstantsAssumption DEF Init, TypeOK, Steps, Statuses, Terminal

LEMMA OpenType ==
    ASSUME TypeOK, NEW w \in Workers, Open(w)
    PROVE  TypeOK'
<1>1. PICK m \in Msgs : Discard(w, m) \/ RejectJobId(w, m) \/ Begin(w, m)
  BY DEF Open
<1>2. CASE Discard(w, m)
  BY <1>2, DeleteType DEF Discard, TypeOK, workerVars, backendVars
<1>3. CASE RejectJobId(w, m)
  BY <1>3, ReturnEffect
  DEF RejectJobId, Escape, TypeOK, backendVars, faultVars
<1>4. CASE Begin(w, m)
  BY <1>4, ConstantsAssumption, StepNames DEF Begin, TypeOK, backendVars, faultVars
<1>5. QED
  BY <1>1, <1>2, <1>3, <1>4

LEMMA ProcessType ==
    ASSUME TypeOK, NEW w \in Workers, Process(w)
    PROVE  TypeOK'
<1> USE StepNames, ReturnEffect, GotoEffect, BusyHolds, DeleteType, FaultTypes
<1>1. CASE LookUp(w)
  BY <1>1 DEF LookUp, TypeOK, backendVars
<1>2. CASE LookUpFails(w)
  BY <1>2 DEF LookUpFails, Escape, TypeOK, backendVars
<1>3. CASE Claim(w)
  BY <1>3 DEF Claim, TypeOK, Statuses
<1>4. CASE ClaimFails(w)
  BY <1>4 DEF ClaimFails, Escape, TypeOK, Statuses
<1>5. CASE Generate(w)
  BY <1>5 DEF Generate, TypeOK, sqsVars, backendVars, faultVars
<1>6. CASE GenerateFails(w)
  BY <1>6 DEF GenerateFails, TypeOK, sqsVars, backendVars
<1>7. CASE Apply(w)
  BY <1>7 DEF Apply, TypeOK, sqsVars, faultVars
<1>8. CASE ApplyFails(w)
  BY <1>8 DEF ApplyFails, TypeOK, sqsVars
<1>9. CASE Complete(w)
  BY <1>9, VerdictType DEF Complete, TypeOK, Terminal, sqsVars, faultVars
<1>10. CASE CompleteFails(w)
  BY <1>10, VerdictType DEF CompleteFails, TypeOK, Terminal, sqsVars
<1>11. CASE Fail(w)
  BY <1>11, VerdictType DEF Fail, TypeOK, Terminal, sqsVars, faultVars
<1>12. CASE FailFails(w)
  BY <1>12, VerdictType DEF FailFails, Escape, TypeOK, Terminal
<1>13. CASE Finish(w)
  BY <1>13 DEF Finish, TypeOK, backendVars
<1>14. QED
  BY <1>1, <1>2, <1>3, <1>4, <1>5, <1>6, <1>7, <1>8, <1>9, <1>10, <1>11,
     <1>12, <1>13 DEF Process

LEMMA NextType == TypeOK /\ [Next]_vars => TypeOK'
<1> SUFFICES ASSUME TypeOK, [Next]_vars PROVE TypeOK'
  OBVIOUS
<1>1. CASE \E w \in Workers : Poll(w)
  BY <1>1 DEF Poll, Receive, TypeOK, workerVars, backendVars, faultVars
<1>2. CASE \E w \in Workers : Open(w)
  BY <1>2, OpenType
<1>3. CASE \E w \in Workers : Process(w)
  BY <1>3, ProcessType
<1>4. CASE \E w \in Workers : Restart(w)
  BY <1>4, ReturnEffect, FaultTypes DEF Restart, Escape, TypeOK, backendVars
<1>5. CASE \E m \in Msgs : VisibilityTimeout(m)
  BY <1>5, FaultTypes DEF VisibilityTimeout, TypeOK, workerVars, backendVars
<1>6. CASE UNCHANGED vars
  BY <1>6 DEF vars, TypeOK
<1>7. QED
  BY <1>1, <1>2, <1>3, <1>4, <1>5, <1>6 DEF Next

\* Every reachable state is well-typed, whatever the constants are.
THEOREM TypeCorrect == Spec => []TypeOK
BY InitType, NextType, PTL DEF Spec

-----------------------------------------------------------------------------
(* Preservation of the inductive invariant                                  *)

JobsInv == OwnersInv /\ UnclaimedInv /\ GeneratedOnce /\ CompletedHasAudio

\* Nothing changes for the jobs while owners stay as they are or give up.
LEMMA OwnersOnlyLeave ==
    ASSUME TypeOK, JobsInv, UNCHANGED <<job, audio, starts>>,
           \A v \in Workers : step'[v] \in Owning =>
               step'[v] = step[v] /\ holds'[v] = holds[v]
    PROVE  JobsInv'
BY DEF TypeOK, JobsInv, OwnersInv, UnclaimedInv, GeneratedOnce,
       CompletedHasAudio, Owns, Job

\* An owner that moves on keeps the others out; what it does to its job has to
\* agree with where it goes.
LEMMA OwnerMoves ==
    ASSUME TypeOK, JobsInv, TypeOK', NEW w \in Workers, NEW s \in Steps,
           step[w] \in Owning, holds' = holds, starts' = starts,
           step' = [step EXCEPT ![w] = s],
           \A j \in Jobs : j # Job(w) => job'[j] = job[j] /\ audio'[j] = audio[j],
           job'[Job(w)] \notin {"missing", "pending"},
           job'[Job(w)] = "completed" => audio'[Job(w)] = 1,
           s \in {"generating", "applying"} =>
               job'[Job(w)] = "processing" /\ audio'[Job(w)] = 0,
           s = "completing" => audio'[Job(w)] = 1
    PROVE  JobsInv'
<1>1. \A v \in Workers : Job(v)' = Job(v)
  BY DEF Job
<1>2. Job(w) \in Jobs
  BY BusyHolds DEF Owning
<1>3. \A v \in Workers : v # w /\ step[v] \in Owning => Job(v) # Job(w)
  BY DEF JobsInv, OwnersInv, Owns
<1>4. \A v \in Workers : v # w => step'[v] = step[v]
  BY DEF TypeOK
<1>5. \A v \in Workers : step[v] \in Owning => Job(v) \in Jobs
  BY BusyHolds DEF Owning
<1>6. step'[w] = s
  BY DEF TypeOK
<1>7. \A v \in Workers : step'[v] \in Owning => step[v] \in Owning
  BY <1>4
<1>8. OwnersInv'
  <2> SUFFICES ASSUME NEW u \in Workers, step'[u] \in Owning
               PROVE  /\ job'[Job(u)] \notin {"missing", "pending"}
                      /\ \A v \in Workers :
                            step'[v] \in Owning /\ Job(v) = Job(u) => v = u
                      /\ step'[u] \in {"generating", "applying"} =>
                            job'[Job(u)] = "processing" /\ audio'[Job(u)] = 0
                      /\ step'[u] = "completing" => audio'[Job(u)] = 1
    BY <1>1 DEF OwnersInv, Owns
  <2>1. \A v \in Workers : step'[v] \in Owning /\ Job(v) = Job(u) => v = u
    BY <1>7 DEF JobsInv, OwnersInv, Owns
  <2>2. CASE u = w
    BY <2>1, <2>2, <1>6
  <2>3. CASE u # w
    <3>1. step[u] = step'[u] /\ Job(u) \in Jobs /\ Job(u) # Job(w)
      BY <2>3, <1>3, <1>4, <1>5
    <3>2. job'[Job(u)] = job[Job(u)] /\ audio'[Job(u)] = audio[Job(u)]
      BY <3>1
    <3>3. QED
      BY <2>1, <3>1, <3>2 DEF JobsInv, OwnersInv
  <2>4. QED
    BY <2>2, <2>3
<1>9. UnclaimedInv' /\ GeneratedOnce' /\ CompletedHasAudio'
  BY <1>2 DEF JobsInv, UnclaimedInv, GeneratedOnce, CompletedHasAudio
<1>10. QED
  BY <1>8, <1>9 DEF JobsInv

\* The job of an owner, as OwnersInv has it.
LEMMA OwnersJob ==
    ASSUME TypeOK, JobsInv, NEW w \in Workers, step[w] \in Owning
    PROVE  /\ Job(w) \in Jobs
           /\ job[Job(w)] \in Statuses \ {"missing", "pending"}
           /\ job[Job(w)] = "completed" => audio[Job(w)] = 1
           /\ step[w] \in {"generating", "applying"} =>
                 job[Job(w)] = "processing" /\ audio[Job(w)] = 0
           /\ step[w] = "completing" => audio[Job(w)] = 1
<1>1. Job(w) \in Jobs
  BY BusyHolds DEF Owning
<1>2. QED
  BY <1>1 DEF TypeOK, JobsInv, OwnersInv, CompletedHasAudio

\* Up to the claim, and after the verdict, the jobs are only looked at.
LEMMA LookingJobs ==
    ASSUME TypeOK, JobsInv, NEW w \in Workers,
           LookUp(w) \/ LookUpFails(w) \/ Finish(w)
    PROVE  JobsInv'
<1>1. UNCHANGED <<job, audio, starts>>
  BY DEF LookUp, LookUpFails, Finish, backendVars
<1>2. CASE Return(w)
  BY <1>1, <1>2, OwnersOnlyLeave, ReturnEffect DEF Owning
<1>3. CASE LookUp(w) /\ Goto(w, "claiming")
  BY <1>1, <1>3, OwnersOnlyLeave, GotoEffect, StepNames DEF Owning, LookUp
<1>4. QED
  BY <1>2, <1>3 DEF LookUp, LookUpFails, Finish, Escape

\* Claiming a pending job makes its first owner.
LEMMA ClaimJobs ==
    ASSUME TypeOK, JobsInv, NEW w \in Workers, Claim(w)
    PROVE  JobsInv'
<1>1. Job(w) \in Jobs /\ step[w] # "idle"
  BY BusyHolds DEF Claim
<1>2. CASE job[Job(w)] # "pending"
  BY <1>2, OwnersOnlyLeave, ReturnEffect DEF Claim, Owning
<1>3. CASE job[Job(w)] = "pending"
  <2>1. /\ job' = [job EXCEPT ![Job(w)] = "processing"]
        /\ starts' = [starts EXCEPT ![Job(w)] = @ + 1]
        /\ audio' = audio /\ Goto(w, "generating")
    BY <1>3 DEF Claim
  <2>2. /\ holds' = holds /\ step'[w] = "generating"
        /\ \A v \in Workers : v # w => step'[v] = step[v]
    BY <2>1, <1>1, GotoEffect, StepNames
  <2>3. \A v \in Workers : step[v] \in Owning => Job(v) # Job(w) /\ Job(v) \in Jobs
    BY <1>3, BusyHolds DEF JobsInv, OwnersInv, Owning
  <2>4. starts[Job(w)] = 0 /\ audio[Job(w)] = 0
    BY <1>1, <1>3 DEF JobsInv, UnclaimedInv
  <2>5. UnclaimedInv' /\ GeneratedOnce' /\ CompletedHasAudio'
    BY <1>1, <2>1, <2>4
    DEF TypeOK, JobsInv, UnclaimedInv, GeneratedOnce, CompletedHasAudio
  <2>6. OwnersInv'
    <3> SUFFICES ASSUME NEW u \in Workers, step'[u] \in Owning
                 PROVE  /\ job'[Job(u)] \notin {"missing", "pending"}
                        /\ \A v \in Workers :
                              step'[v] \in Owning /\ Job(v) = Job(u) => v = u
                        /\ step'[u] \in {"generating", "applying"} =>
                              job'[Job(u)] = "processing" /\ audio'[Job(u)] = 0
                        /\ step'[u] = "completing" => audio'[Job(u)] = 1
      BY <2>2 DEF OwnersInv, Owns, Job
    <3>1. CASE u = w
      BY <3>1, <1>1, <2>1, <2>2, <2>3, <2>4 DEF TypeOK
    <3>2. CASE u # w
      <4>1. step[u] = step'[u] /\ Job(u) # Job(w) /\ Job(u) \in Jobs
        BY <3>2, <2>2, <2>3
      <4>2. job'[Job(u)] = job[Job(u)]
        BY <4>1, <2>1, <1>1 DEF TypeOK
      <4>3. \A v \in Workers : step'[v] \in Owning /\ Job(v) = Job(u) => v = u
        BY <4>1, <2>2 DEF JobsInv, OwnersInv, Owns
      <4>4. QED
        BY <4>1, <4>2, <4>3, <2>1 DEF JobsInv, OwnersInv
    <3>3. QED
      BY <3>1, <3>2
  <2>7. QED
    BY <2>5, <2>6 DEF JobsInv
<1>4. QED
  BY <1>2, <1>3

\* A claim whose answer is lost makes no owner.
LEMMA ClaimFailsJobs ==
    ASSUME TypeOK, JobsInv, NEW w \in Workers, ClaimFails(w)
    PROVE  JobsInv'
<1>1. Job(w) \in Jobs
  BY BusyHolds DEF ClaimFails
<1>2. /\ \A v \in Workers : step'[v] \in Owning => step'[v] = step[v] /\ holds'[v] = holds[v]
      /\ audio' = audio /\ starts' = starts
  BY ReturnEffect DEF ClaimFails, Escape, Owning
<1>3. CASE job' = job
  BY <1>2, <1>3, OwnersOnlyLeave
<1>4. CASE job[Job(w)] = "pending" /\ job' = [job EXCEPT ![Job(w)] = "processing"]
  <2>1. \A v \in Workers : step[v] \in Owning => job'[Job(v)] = job[Job(v)]
    BY <1>1, <1>4, BusyHolds DEF JobsInv, OwnersInv, TypeOK, Owning
  <2>2. OwnersInv'
    BY <1>2, <2>1 DEF JobsInv, OwnersInv, Owns, Job
  <2>3. UnclaimedInv' /\ GeneratedOnce' /\ CompletedHasAudio'
    BY <1>1, <1>2, <1>4
    DEF TypeOK, JobsInv, UnclaimedInv, GeneratedOnce, CompletedHasAudio
  <2>4. QED
    BY <2>2, <2>3 DEF JobsInv
<1>5. QED
  BY <1>3, <1>4 DEF ClaimFails

\* What an owner does to its job.
LEMMA OwnerJobs ==
    ASSUME TypeOK, JobsInv, TypeOK', NEW w \in Workers, step[w] \in Owning,
           \/ Generate(w) \/ GenerateFails(w) \/ Apply(w) \/ ApplyFails(w)
           \/ Complete(w) \/ CompleteFails(w) \/ Fail(w)
    PROVE  JobsInv'
<1>1. /\ Job(w) \in Jobs
      /\ job[Job(w)] \in Statuses \ {"missing", "pending"}
      /\ job[Job(w)] = "completed" => audio[Job(w)] = 1
      /\ step[w] \in {"generating", "applying"} =>
            job[Job(w)] = "processing" /\ audio[Job(w)] = 0
      /\ step[w] = "completing" => audio[Job(w)] = 1
  BY OwnersJob
<1>2. \A s \in Steps : Goto(w, s) => holds' = holds /\ step' = [step EXCEPT ![w] = s]
  BY DEF Goto
<1>3. CASE Generate(w)
  BY <1>1, <1>2, <1>3, OwnerMoves, StepNames DEF Generate, backendVars
<1>4. CASE GenerateFails(w)
  BY <1>1, <1>2, <1>4, OwnerMoves, StepNames DEF GenerateFails, backendVars
<1>5. CASE Apply(w)
  <2>1. audio'[Job(w)] = 1
    BY <1>1, <1>5 DEF Apply, TypeOK
  <2>2. QED
    BY <1>1, <1>2, <1>5, <2>1, OwnerMoves, StepNames DEF Apply, TypeOK
<1>6. CASE ApplyFails(w)
  BY <1>1, <1>2, <1>6, OwnerMoves, StepNames DEF ApplyFails, TypeOK
<1>7. CASE Complete(w)
  BY <1>1, <1>2, <1>7, OwnerMoves, StepNames DEF Complete, Verdict, TypeOK
<1>8. CASE CompleteFails(w)
  BY <1>1, <1>2, <1>8, OwnerMoves, StepNames DEF CompleteFails, Verdict, TypeOK
<1>9. CASE Fail(w)
  BY <1>1, <1>2, <1>9, OwnerMoves, StepNames DEF Fail, Verdict, TypeOK
<1>10. QED
  BY <1>3, <1>4, <1>5, <1>6, <1>7, <1>8, <1>9

\* Giving up on the report of a failure closes the job, or leaves it.
LEMMA FailFailsJobs ==
    ASSUME TypeOK, JobsInv, NEW w \in Workers, FailFails(w)
    PROVE  JobsInv'
<1>1. Job(w) \in Jobs /\ step[w] \in Owning
  BY BusyHolds DEF FailFails, Owning
<1>2. /\ \A v \in Workers : step'[v] \in Owning =>
            v # w /\ step'[v] = step[v] /\ holds'[v] = holds[v]
      /\ audio' = audio /\ starts' = starts
  BY ReturnEffect DEF FailFails, Escape, Owning
<1>3. CASE job' = job
  BY <1>2, <1>3, OwnersOnlyLeave
<1>4. CASE job' = [job EXCEPT ![Job(w)] = "failed"]
  <2>1. \A v \in Workers : step[v] \in Owning /\ v # w => job'[Job(v)] = job[Job(v)]
    BY <1>1, <1>4, BusyHolds DEF JobsInv, OwnersInv, Owns, TypeOK, Owning
  <2>2. OwnersInv'
    BY <1>2, <2>1 DEF JobsInv, OwnersInv, Owns, Job
  <2>3. UnclaimedInv' /\ GeneratedOnce' /\ CompletedHasAudio'
    BY <1>1, <1>2, <1>4
    DEF TypeOK, JobsInv, UnclaimedInv, GeneratedOnce, CompletedHasAudio
  <2>4. QED
    BY <2>2, <2>3 DEF JobsInv
<1>5. QED
  BY <1>3, <1>4 DEF FailFails, Verdict

LEMMA ProcessJobs ==
    ASSUME TypeOK, JobsInv, TypeOK', NEW w \in Workers, Process(w)
    PROVE  JobsInv'
<1>1. CASE LookUp(w) \/ LookUpFails(w) \/ Finish(w)
  BY <1>1, LookingJobs
<1>2. CASE Claim(w) \/ ClaimFails(w) \/ FailFails(w)
  BY <1>2, ClaimJobs, ClaimFailsJobs, FailFailsJobs
<1>3. CASE \/ Generate(w) \/ GenerateFails(w) \/ Apply(w) \/ ApplyFails(w)
           \/ Complete(w) \/ CompleteFails(w) \/ Fail(w)
  <2>1. step[w] \in Owning
    BY <1>3 DEF Owning, Generate, GenerateFails, Apply, ApplyFails, Complete,
                CompleteFails, Fail
  <2>2. QED
    BY <1>3, <2>1, OwnerJobs
<1>4. QED
  BY <1>1, <1>2, <1>3 DEF Process

-----------------------------------------------------------------------------
(* Counting the stranded jobs                                               *)

StrandsInv == IsFiniteSet(Stranded) /\ StrandsAccountedFor

\* A step that strands one job at most, and only if it is counted as a Strand.
LEMMA StrandsGrow ==
    ASSUME TypeOK, StrandsInv, NEW j,
           \/ Stranded' \subseteq Stranded /\ strands' \in {strands, strands + 1}
           \/ Stranded' \subseteq Stranded \cup {j} /\ strands' = strands + 1
    PROVE  StrandsInv'
<1>1. /\ IsFiniteSet(Stranded) /\ Cardinality(Stranded) <= strands
      /\ strands \in Nat /\ Cardinality(Stranded) \in Nat
  BY FS_CardinalityType DEF StrandsInv, StrandsAccountedFor, TypeOK
<1>2. CASE Stranded' \subseteq Stranded /\ strands' \in {strands, strands + 1}
  <2>1. IsFiniteSet(Stranded') /\ Cardinality(Stranded') <= Cardinality(Stranded)
    BY <1>1, <1>2, FS_Subset
  <2>2. Cardinality(Stranded') \in Nat
    BY <2>1, FS_CardinalityType
  <2>3. QED
    BY <1>1, <1>2, <2>1, <2>2 DEF StrandsInv, StrandsAccountedFor
<1>3. CASE Stranded' \subseteq Stranded \cup {j} /\ strands' = strands + 1
  <2>1. /\ IsFiniteSet(Stranded \cup {j})
        /\ Cardinality(Stranded \cup {j}) <= Cardinality(Stranded) + 1
        /\ Cardinality(Stranded \cup {j}) \in Nat
    <3>1. /\ IsFiniteSet(Stranded \cup {j})
          /\ Cardinality(Stranded \cup {j}) =
                IF j \in Stranded THEN Cardinality(Stranded) ELSE Cardinality(Stranded) + 1
      BY <1>1, FS_AddElement
    <3>2. QED
      BY <1>1, <3>1
  <2>2. /\ IsFiniteSet(Stranded')
        /\ Cardinality(Stranded') <= Cardinality(Stranded \cup {j})
    BY <1>3, <2>1, FS_Subset
  <2>3. Cardinality(Stranded') \in Nat
    BY <2>2, FS_CardinalityType
  <2>4. QED
    BY <1>1, <1>3, <2>1, <2>2, <2>3 DEF StrandsInv, StrandsAccountedFor
<1>4. QED
  BY <1>2, <1>3

\* A worker's step concerns the job of its message; who owned another still does.
LEMMA WorkerStrands ==
    ASSUME TypeOK, StrandsInv, NEW w \in Workers, NEW j,
           \A v \in Workers : v # w => step'[v] = step[v] /\ holds'[v] = holds[v],
           \A i \in Jobs : i # j => job'[i] = job[i] /\ ~Owns(w, i),
           \/ strands' = strands + 1
           \/ strands' = strands /\ (j \in Stranded' => j \in Stranded)
    PROVE  StrandsInv'
<1>1. Stranded' \subseteq Stranded \cup {j}
  <2>1. SUFFICES ASSUME NEW i \in Stranded', i # j
                 PROVE  i \in Stranded
    OBVIOUS
  <2>2. i \in Jobs /\ job[i] = "processing" /\ ~Owns(w, i)
    BY <2>1 DEF Stranded
  <2>3. ASSUME NEW v \in Workers, v # w
        PROVE  ~Owns(v, i)
    BY <2>1, <2>3 DEF Stranded, Owns, Job
  <2>4. QED
    BY <2>2, <2>3 DEF Stranded
<1>2. QED
  BY <1>1, StrandsGrow

\* Nobody's claim changes.
LEMMA NothingStrands ==
    ASSUME TypeOK, StrandsInv, UNCHANGED <<job, strands>>,
           \A v \in Workers : step[v] \in Owning =>
               step'[v] \in Owning /\ holds'[v] = holds[v]
    PROVE  StrandsInv'
<1>1. Stranded' \subseteq Stranded
  BY DEF Stranded, Owns, Job
<1>2. QED
  BY <1>1, StrandsGrow

LEMMA OpenStrands ==
    ASSUME TypeOK, StrandsInv, NEW w \in Workers, Open(w)
    PROVE  StrandsInv'
<1>1. PICK m \in Msgs : Discard(w, m) \/ RejectJobId(w, m) \/ Begin(w, m)
  BY DEF Open
<1>2. step[w] \notin Owning /\ UNCHANGED <<job, strands>>
  BY <1>1 DEF Discard, RejectJobId, Begin, AtMessage, Owning, backendVars, faultVars,
              DeleteMessage, Healthy, Glitch
<1>3. \A v \in Workers : v # w => step'[v] = step[v] /\ holds'[v] = holds[v]
  BY <1>1, ReturnEffect DEF Discard, RejectJobId, Begin, Escape, workerVars, TypeOK
<1>4. QED
  BY <1>2, <1>3, NothingStrands

\* Before its claim and after its verdict a worker owns nothing.
LEMMA LookingStrands ==
    ASSUME TypeOK, StrandsInv, NEW w \in Workers,
           LookUp(w) \/ LookUpFails(w) \/ Finish(w)
    PROVE  StrandsInv'
<1>1. step[w] \notin Owning /\ step[w] # "idle" /\ UNCHANGED <<job, strands>>
  BY DEF LookUp, LookUpFails, Finish, Owning, backendVars, faultVars, DeleteMessage,
         Healthy, Glitch
<1>2. \A v \in Workers : v # w => step'[v] = step[v] /\ holds'[v] = holds[v]
  BY <1>1, ReturnEffect, GotoEffect, StepNames DEF LookUp, LookUpFails, Finish, Escape
<1>3. QED
  BY <1>1, <1>2, NothingStrands

LEMMA ClaimStrands ==
    ASSUME TypeOK, StrandsInv, NEW w \in Workers, Claim(w) \/ ClaimFails(w)
    PROVE  StrandsInv'
<1>1. /\ step[w] = "claiming" /\ step[w] \notin Owning /\ step[w] # "idle"
      /\ Job(w) \in Jobs
  BY BusyHolds DEF Claim, ClaimFails, Owning
<1>2. \A v \in Workers : v # w => step'[v] = step[v] /\ holds'[v] = holds[v]
  BY <1>1, ReturnEffect, GotoEffect, StepNames DEF Claim, ClaimFails, Escape
<1>3. \A i \in Jobs : i # Job(w) => job'[i] = job[i] /\ ~Owns(w, i)
  BY <1>1 DEF Claim, ClaimFails, Owns, TypeOK
<1>4. CASE Claim(w)
  <2>1. strands' = strands
    BY <1>4 DEF Claim, DeleteMessage, Healthy, Glitch, faultVars
  <2>2. CASE job[Job(w)] = "pending"
    <3>1. step'[w] \in Owning /\ holds'[w] = holds[w]
      BY <1>1, <1>4, <2>2, GotoEffect, StepNames DEF Claim, Owning
    <3>2. Job(w) \notin Stranded'
      BY <3>1 DEF Stranded, Owns, Job
    <3>3. QED
      BY <1>2, <1>3, <2>1, <3>2, WorkerStrands
  <2>3. CASE job[Job(w)] # "pending"
    BY <1>1, <1>2, <1>4, <2>1, <2>3, NothingStrands DEF Claim
  <2>4. QED
    BY <2>2, <2>3
<1>5. CASE ClaimFails(w)
  <2>1. CASE Strand
    BY <1>2, <1>3, <2>1, WorkerStrands DEF Strand
  <2>2. CASE Glitch /\ UNCHANGED job
    BY <1>1, <1>2, <2>2, NothingStrands DEF Glitch
  <2>3. QED
    BY <1>5, <2>1, <2>2 DEF ClaimFails
<1>6. QED
  BY <1>4, <1>5

\* An owner goes on owning, or leaves its job with a verdict.
LEMMA OwnerStrands ==
    ASSUME TypeOK, StrandsInv, NEW w \in Workers, step[w] \in Owning,
           \/ Generate(w) \/ GenerateFails(w) \/ Apply(w) \/ ApplyFails(w)
           \/ Complete(w) \/ CompleteFails(w) \/ Fail(w)
    PROVE  StrandsInv'
<1>1. step[w] # "idle" /\ Job(w) \in Jobs
  BY BusyHolds DEF Owning
<1>2. /\ holds' = holds
      /\ \A v \in Workers : v # w => step'[v] = step[v]
  BY <1>1, GotoEffect, StepNames
  DEF Generate, GenerateFails, Apply, ApplyFails, Complete, CompleteFails, Fail
<1>3. strands' = strands
  BY DEF Generate, GenerateFails, Apply, ApplyFails, Complete, CompleteFails, Fail,
         Healthy, Glitch, faultVars
<1>4. \A i \in Jobs : i # Job(w) => job'[i] = job[i] /\ ~Owns(w, i)
  BY <1>1
  DEF Generate, GenerateFails, Apply, ApplyFails, Complete, CompleteFails, Fail,
      Verdict, Owns, backendVars, TypeOK
<1>5. Job(w) \notin Stranded'
  <2>1. CASE step'[w] \in Owning
    BY <1>2, <2>1 DEF Stranded, Owns, Job
  <2>2. CASE step'[w] \notin Owning
    <3>1. Complete(w) \/ Fail(w)
      BY <1>1, <2>2, GotoEffect, StepNames
      DEF Generate, GenerateFails, Apply, ApplyFails, CompleteFails, Owning
    <3>2. job'[Job(w)] \in Terminal
      BY <1>1, <3>1 DEF Complete, Fail, Verdict, Terminal, TypeOK
    <3>3. QED
      BY <3>2 DEF Stranded, Terminal
  <2>3. QED
    BY <2>1, <2>2
<1>6. QED
  BY <1>2, <1>3, <1>4, <1>5, WorkerStrands

\* Whoever drops its claim without a verdict is counted.
LEMMA EscapeStrands ==
    ASSUME TypeOK, StrandsInv, NEW w \in Workers, FailFails(w) \/ Restart(w)
    PROVE  StrandsInv'
<1>1. \A v \in Workers : v # w => step'[v] = step[v] /\ holds'[v] = holds[v]
  BY ReturnEffect DEF FailFails, Restart, Escape
<1>2. CASE step[w] \in Owning
  <2>1. Job(w) \in Jobs
    BY <1>2, BusyHolds DEF Owning
  <2>2. \A i \in Jobs : i # Job(w) => job'[i] = job[i] /\ ~Owns(w, i)
    BY <2>1 DEF FailFails, Restart, Verdict, Owns, backendVars, TypeOK
  <2>3. CASE Strand
    BY <1>1, <2>2, <2>3, WorkerStrands DEF Strand
  <2>4. CASE Verdict(Job(w), "failed") /\ Glitch
    <3>1. job'[Job(w)] \in Terminal
      BY <2>1, <2>4 DEF Verdict, Terminal, TypeOK
    <3>2. Job(w) \notin Stranded'
      BY <3>1 DEF Stranded, Terminal
    <3>3. QED
      BY <1>1, <2>2, <2>4, <3>2, WorkerStrands DEF Glitch
  <2>5. QED
    BY <1>2, <2>3, <2>4 DEF FailFails, Restart
<1>3. CASE step[w] \notin Owning
  <2>1. UNCHANGED <<job, strands>>
    BY <1>3 DEF FailFails, Restart, Owning, Glitch, backendVars
  <2>2. QED
    BY <1>1, <1>3, <2>1, NothingStrands
<1>4. QED
  BY <1>2, <1>3

LEMMA StrandsStep == TypeOK /\ StrandsInv /\ [Next]_vars => StrandsInv'
<1> SUFFICES ASSUME TypeOK, StrandsInv, [Next]_vars PROVE StrandsInv'
  OBVIOUS
<1>1. ASSUME NEW w \in Workers, Process(w)
      PROVE  StrandsInv'
  <2>1. CASE \/ Generate(w) \/ GenerateFails(w) \/ Apply(w) \/ ApplyFails(w)
             \/ Complete(w) \/ CompleteFails(w) \/ Fail(w)
    <3>1. step[w] \in Owning
      BY <2>1 DEF Owning, Generate, GenerateFails, Apply, ApplyFails, Complete,
                  CompleteFails, Fail
    <3>2. QED
      BY <2>1, <3>1, OwnerStrands
  <2>2. QED
    BY <1>1, <2>1, LookingStrands, ClaimStrands, EscapeStrands DEF Process
<1>2. CASE \E w \in Workers : Open(w)
  BY <1>2, OpenStrands
<1>3. CASE \E w \in Workers : Restart(w)
  BY <1>3, EscapeStrands
<1>4. CASE \E w \in Workers : Poll(w)
  BY <1>4, NothingStrands DEF Poll, Receive, workerVars, backendVars, faultVars
<1>5. CASE \E m \in Msgs : VisibilityTimeout(m)
  BY <1>5, NothingStrands
  DEF VisibilityTimeout, workerVars, backendVars, Healthy, Glitch, faultVars
<1>6. CASE UNCHANGED vars
  BY <1>6, NothingStrands DEF vars
<1>7. QED
  BY <1>1, <1>2, <1>3, <1>4, <1>5, <1>6 DEF Next

-----------------------------------------------------------------------------
(* The theorems                                                             *)

LEMMA InitInv == Init => IInv
<1> SUFFICES ASSUME Init PROVE IInv
  OBVIOUS
<1>1. JobsInv
  BY DEF Init, JobsInv, OwnersInv, UnclaimedInv, GeneratedOnce,
         CompletedHasAudio, Owning
<1>2. QED
  BY <1>1, InitType DEF IInv, JobsInv

LEMMA NextInv == IInv /\ [Next]_vars => IInv'
<1> SUFFICES ASSUME TypeOK, JobsInv, [Next]_vars PROVE TypeOK' /\ JobsInv'
  BY DEF IInv, JobsInv
<1>1. TypeOK'
  BY NextType
<1>2. CASE \E w \in Workers : Process(w)
  BY <1>1, <1>2, ProcessJobs
<1>3. CASE \E w \in Workers : Poll(w)
  BY <1>1, <1>3, OwnersOnlyLeave DEF Poll, Receive, workerVars, backendVars
<1>4. CASE \E w \in Workers : Open(w)
  <2>1. PICK w \in Workers, m \in Msgs :
            Discard(w, m) \/ RejectJobId(w, m) \/ Begin(w, m)
    BY <1>4 DEF Open
  <2>2. UNCHANGED <<job, audio, starts>>
    BY <2>1 DEF Discard, RejectJobId, Begin, backendVars
  <2>3. \A v \in Workers : step'[v] \in Owning =>
            step'[v] = step[v] /\ holds'[v] = holds[v]
    BY <2>1, ReturnEffect
    DEF Discard, RejectJobId, Begin, Escape, workerVars, TypeOK, Owning
  <2>4. QED
    BY <1>1, <2>2, <2>3, OwnersOnlyLeave
<1>5. CASE \E w \in Workers : Restart(w)
  BY <1>1, <1>5, OwnersOnlyLeave, ReturnEffect DEF Restart, Escape, backendVars, Owning
<1>6. CASE \E m \in Msgs : VisibilityTimeout(m)
  BY <1>1, <1>6, OwnersOnlyLeave DEF VisibilityTimeout, workerVars, backendVars
<1>7. CASE UNCHANGED vars
  BY <1>1, <1>7, OwnersOnlyLeave DEF vars
<1>8. QED
  BY <1>1, <1>2, <1>3, <1>4, <1>5, <1>6, <1>7 DEF Next

\* The invariant that the safety results rest on.
THEOREM Invariance == Spec => []IInv
BY InitInv, NextInv, PTL DEF Spec

\* No interleaving of deliveries, crashes and lost answers starts the
\* generation of a job a second time.
THEOREM NoSecondGeneration == Spec => []GeneratedOnce
<1>1. IInv => GeneratedOnce
  BY DEF IInv
<1>2. QED
  BY <1>1, Invariance, PTL

\* A job is complete at the backend only with its audio applied, exactly once.
THEOREM CompleteMeansAudio == Spec => []CompletedHasAudio
<1>1. IInv => CompletedHasAudio
  BY DEF IInv
<1>2. QED
  BY <1>1, Invariance, PTL

\* Jobs that are in process with no worker on them are at most as many as deaths of
\* an owner, lost answers to a claim and failed reports of a failure.
THEOREM StrandedJobsAreCounted == Spec => []StrandsAccountedFor
<1>1. Init => StrandsInv
  <2> SUFFICES ASSUME Init PROVE StrandsInv
    OBVIOUS
  <2>1. Stranded = {}
    BY DEF Init, Stranded
  <2>2. QED
    BY <2>1, FS_EmptySet DEF Init, StrandsInv, StrandsAccountedFor
<1>2. TypeOK /\ StrandsInv /\ [Next]_vars => StrandsInv'
  BY StrandsStep
<1>3. StrandsInv => StrandsAccountedFor
  BY DEF StrandsInv
<1>4. QED
  BY <1>1, <1>2, <1>3, TypeCorrect, PTL DEF Spec
-----------------------------------------------------------------------------
(* The timeline of a day: induction over the loops of AudioTimeline         *)

\* What holds of 0, and of each number after it as far as N, holds up to N.
LEMMA Climb ==
    ASSUME NEW N \in Nat, NEW Good, 0 \in Good,
           \A k \in 1..N : k - 1 \in Good => k \in Good
    PROVE  \A n \in 0..N : n \in Good
<1> DEFINE Bad  == {n \in 0..N : n \notin Good}
           Less == OpToRel(<, Nat)
<1> SUFFICES ASSUME Bad # {}
             PROVE  FALSE
    OBVIOUS
<1>1. Bad \subseteq Nat
    OBVIOUS
<1>2. IsWellFoundedOn(Less, Nat)
    BY NatLessThanWellFounded
<1> HIDE DEF Less, Bad
<1>3. PICK x \in Bad : \A y \in Bad : ~(<<y, x>> \in Less)
    BY <1>1, <1>2, WFMin, Zenon
<1>4. \A y \in Bad : ~(y < x)
    BY <1>1, <1>3 DEF Less, OpToRel
<1>5. x \in 0..N /\ x \notin Good
    BY DEF Bad
<1>6. x \in 1..N
    BY <1>5
<1>7. x - 1 \notin Bad
    BY <1>4, <1>6
<1>8. x - 1 \in Good
    BY <1>6, <1>7 DEF Bad
<1> QED
    BY <1>5, <1>6, <1>8

\* A function from the numbers up to N into V that starts with base and goes on
\* by rule.
StepsIn(rule, N, V) == \A n \in 1..N : \A v \in V : rule[<<n, v>>] \in V
Recurs(f, N, V, base, rule) ==
    /\ f \in [0..N -> V]
    /\ f[0] = base
    /\ \A n \in 1..N : f[n] = rule[<<n, f[n - 1]>>]

\* There is such a function.
LEMMA RecursionExists ==
    ASSUME NEW N \in Nat, NEW V, NEW base \in V, NEW rule, StepsIn(rule, N, V)
    PROVE  \E f : Recurs(f, N, V, base, rule)
<1> DEFINE Good == {m \in 0..N : \E f : Recurs(f, m, V, base, rule)}
<1>1. 0 \in Good
    <2>1. Recurs([n \in 0..0 |-> base], 0, V, base, rule)
        BY DEF Recurs
    <2> QED
        BY <2>1
<1>2. ASSUME NEW k \in 1..N, k - 1 \in Good
      PROVE  k \in Good
    <2>1. PICK f : Recurs(f, k - 1, V, base, rule)
        BY <1>2
    <2> DEFINE g == [n \in 0..k |-> IF n = k THEN rule[<<k, f[k - 1]>>] ELSE f[n]]
    <2>2. f[k - 1] \in V
        BY <2>1 DEF Recurs
    <2>3. g \in [0..k -> V]
        <3>1. \A n \in 0..k : n # k => n \in 0..(k - 1)
            OBVIOUS
        <3>2. rule[<<k, f[k - 1]>>] \in V
            BY <2>2 DEF StepsIn
        <3> QED
            BY <2>1, <3>1, <3>2 DEF Recurs
    <2>4. g[0] = base
        BY <2>1 DEF Recurs
    <2>5. ASSUME NEW n \in 1..k
          PROVE  g[n] = rule[<<n, g[n - 1]>>]
        <3>1. g[n - 1] = f[n - 1]
            OBVIOUS
        <3>2. n # k => g[n] = f[n] /\ n \in 1..(k - 1)
            OBVIOUS
        <3>3. n = k => g[n] = rule[<<n, f[n - 1]>>]
            OBVIOUS
        <3> HIDE DEF g
        <3> QED
            BY <2>1, <3>1, <3>2, <3>3 DEF Recurs
    <2> HIDE DEF g
    <2>6. Recurs(g, k, V, base, rule)
        BY <2>3, <2>4, <2>5 DEF Recurs
    <2> QED
        BY <2>6
<1>3. N \in Good
    <2> HIDE DEF Good
    <2> QED
        BY <1>1, <1>2, Climb
<1> QED
    BY <1>3

\* The running totals are what their recursion says.
LEMMA TotalsDef ==
    ASSUME NEW lengths \in Seq(Nat)
    PROVE  /\ Totals(lengths) \in [0..Len(lengths) -> Nat]
           /\ Totals(lengths)[0] = 0
           /\ \A n \in 1..Len(lengths) :
                 Totals(lengths)[n] = Totals(lengths)[n - 1] + lengths[n]
<1> DEFINE N == Len(lengths)
           Is(t) == t = [n \in 0..N |-> IF n = 0 THEN 0 ELSE t[n - 1] + lengths[n]]
           rule == [p \in (1..N) \X Nat |-> p[2] + lengths[p[1]]]
           T == Totals(lengths)
<1>1. N \in Nat /\ \A n \in 1..N : lengths[n] \in Nat
    OBVIOUS
<1>2. T = CHOOSE t : Is(t)
    BY DEF Totals
<1> HIDE DEF N, T
<1>3. \A n \in 1..N : \A v \in Nat : rule[<<n, v>>] = v + lengths[n]
    OBVIOUS
<1> HIDE DEF rule
<1>4. StepsIn(rule, N, Nat)
    <2> SUFFICES ASSUME NEW n \in 1..N, NEW v \in Nat
                 PROVE  rule[<<n, v>>] \in Nat
        BY DEF StepsIn
    <2>1. rule[<<n, v>>] = v + lengths[n] /\ lengths[n] \in Nat
        BY <1>1, <1>3
    <2> QED
        BY <2>1
<1>5. PICK f : Recurs(f, N, Nat, 0, rule)
    BY <1>1, <1>4, RecursionExists
<1>6. f \in [0..N -> Nat] /\ f[0] = 0
      /\ \A n \in 1..N : f[n] = f[n - 1] + lengths[n]
    <2>1. \A n \in 1..N : n - 1 \in 0..N
        BY <1>1
    <2> QED
        BY <1>3, <1>5, <2>1 DEF Recurs
<1>7. Is(f)
    BY <1>1, <1>6
<1>8. Is(T)
    <2> HIDE DEF Is
    <2> QED
        BY <1>2, <1>7, Zenon
<1>9. T[0] = 0 /\ \A n \in 1..N : T[n] = T[n - 1] + lengths[n]
    BY <1>1, <1>8
<1>10. \A n \in 0..N : T[n] \in Nat
    <2> DEFINE Good == {n \in 0..N : T[n] \in Nat}
    <2> HIDE DEF Is
    <2>1. 0 \in Good
        BY <1>1, <1>9
    <2>2. \A k \in 1..N : k - 1 \in Good => k \in Good
        BY <1>1, <1>9
    <2> HIDE DEF Good
    <2>3. \A n \in 0..N : n \in Good
        BY <1>1, <2>1, <2>2, Climb
    <2> QED
        BY <2>3 DEF Good
<1>11. T \in [0..N -> Nat]
    BY <1>8, <1>10
<1> QED
    BY <1>9, <1>11 DEF T, N
\* Products grow with their factors.
LEMMA TimesMonotone ==
    ASSUME NEW x \in Nat, NEW y \in Nat, NEW c \in Nat, x <= y
    PROVE  x * c <= y * c
OBVIOUS

\* A quotient rounds down, by less than the divisor.
LEMMA Quotient ==
    ASSUME NEW a \in Nat, NEW c \in Nat \ {0}
    PROVE  /\ a \div c \in Nat
           /\ (a \div c) * c <= a
           /\ a <= (a \div c) * c + c - 1
<1>1. a \div c \in Nat
    OBVIOUS
<1>2. a = (a \div c) * c + (a % c) /\ a % c \in 0..(c - 1)
    OBVIOUS
<1> QED
    BY <1>1, <1>2

\* Products regroup.
LEMMA Regroup ==
    ASSUME NEW x \in Nat, NEW y \in Nat, NEW z \in Nat
    PROVE  /\ (x * y) * z = x * (y * z)
           /\ (x + y) * z = x * z + y * z
           /\ x >= 1 => (x - 1) * z = x * z - z
           /\ x * y \in Nat
OBVIOUS

\* What a duration says of the bytes: never too much, and too little by less than
\* a millisecond and a sample, where the float quotient falls short too.
LEMMA DurationBounds ==
    ASSUME NEW b \in Nat
    PROVE  /\ Duration(b) \in Nat
           /\ Duration(b) * (SamplesPerMs * BytesPerSample) <= b
           /\ b <= Duration(b) * (SamplesPerMs * BytesPerSample)
                     + (SamplesPerMs * BytesPerSample + BytesPerSample - 1)
<1> DEFINE S == SamplesPerMs
           P == BytesPerSample
           samples == b \div P
           ms == samples \div S
           D == Duration(b)
<1>1. S \in Nat \ {0} /\ P \in Nat \ {0}
    BY TimelineAssumption
<1>2. /\ D = ms \/ (D = ms - 1 /\ samples = ms * S /\ ms \in Nat \ {0})
    BY TimelineAssumption DEF Duration
<1> HIDE DEF S, P, D
<1>3. samples \in Nat /\ samples * P <= b /\ b <= samples * P + P - 1
    BY <1>1, Quotient
<1> HIDE DEF samples
<1>4. ms \in Nat /\ ms * S <= samples /\ samples <= ms * S + S - 1
    BY <1>1, <1>3, Quotient
<1> HIDE DEF ms
<1> DEFINE B == S * P
<1>5. B \in Nat /\ ms * B \in Nat /\ (ms * S) * P = ms * B
    BY <1>1, <1>4, Regroup
<1>6. ms * B <= samples * P
    <2>1. ms * S \in Nat
        BY <1>1, <1>4, Regroup
    <2> QED
        BY <1>1, <1>3, <1>4, <1>5, <2>1, TimesMonotone
<1>7. samples * P <= ms * B + B
    <2>1. ms * S \in Nat /\ ms * S + S \in Nat /\ samples <= ms * S + S
        BY <1>1, <1>3, <1>4, Regroup
    <2>2. samples * P <= (ms * S + S) * P
        BY <1>1, <1>3, <2>1, TimesMonotone
    <2>3. (ms * S + S) * P = (ms * S) * P + S * P
        BY <1>1, <2>1, Regroup
    <2> QED
        BY <1>5, <2>2, <2>3
<1>8. samples * P \in Nat
    BY <1>1, <1>3, Regroup
<1>9. CASE D = ms
    <2> HIDE DEF B
    <2> QED
        BY <1>1, <1>3, <1>4, <1>5, <1>6, <1>7, <1>8, <1>9 DEF S, P, D, B
<1>10. CASE D = ms - 1 /\ samples = ms * S /\ ms \in Nat \ {0}
    <2>1. D * B = ms * B - B
        BY <1>5, <1>10, Regroup
    <2>2. samples * P = ms * B
        BY <1>5, <1>10
    <2>3. D \in Nat
        BY <1>10
    <2>4. D * B <= b /\ b <= D * B + (B + P - 1)
        <3> HIDE DEF B
        <3> QED
            BY <1>1, <1>3, <1>5, <2>1, <2>2
    <2> QED
        BY <2>3, <2>4 DEF S, P, D
<1> QED
    BY <1>2, <1>9, <1>10 DEF S, P, D

\* Lengths add up to a length.
LEMMA SumType ==
    ASSUME NEW lengths \in Seq(Nat)
    PROVE  Sum(lengths) \in Nat
<1>1. Len(lengths) \in 0..Len(lengths)
    OBVIOUS
<1> QED
    BY <1>1, TotalsDef DEF Sum

\* So a recording has one.
LEMMA RecordingType ==
    ASSUME NEW s \in Subtasks
    PROVE  Recording(s) \in Nat
<1>1. s.stored \in Seq(Nat) /\ s.speech \in Seq(Nat)
    BY DEF Subtasks
<1> QED
    BY <1>1, SumType DEF Recording

\* What is spoken of a day is a sequence of subtasks.
LEMMA SpokenType ==
    ASSUME NEW day \in Seq(Subtasks)
    PROVE  Spoken(day) \in Seq(Subtasks)
<1> DEFINE N == Len(day)
           none == <<>>
           Kept(v, n) == IF day[n].text THEN Append(v, day[n]) ELSE v
           Is(k) == k = [n \in 0..N |-> IF n = 0 THEN none ELSE Kept(k[n - 1], n)]
           rule == [p \in (1..N) \X Seq(Subtasks) |-> Kept(p[2], p[1])]
           K == CHOOSE k : Is(k)
<1>1. N \in Nat /\ none \in Seq(Subtasks)
    OBVIOUS
<1>2. ASSUME NEW n \in 1..N, NEW v \in Seq(Subtasks)
      PROVE  Kept(v, n) \in Seq(Subtasks)
    <2>1. Append(v, day[n]) \in Seq(Subtasks)
        OBVIOUS
    <2> QED
        BY <2>1
<1>3. Spoken(day) = K[N]
    BY DEF Spoken
<1> HIDE DEF N, none, Kept
<1>4. \A n \in 1..N : \A v \in Seq(Subtasks) : rule[<<n, v>>] = Kept(v, n)
    OBVIOUS
<1> HIDE DEF rule
<1>5. StepsIn(rule, N, Seq(Subtasks))
    BY <1>2, <1>4 DEF StepsIn
<1>6. PICK f : Recurs(f, N, Seq(Subtasks), none, rule)
    BY <1>1, <1>5, RecursionExists
<1>7. f \in [0..N -> Seq(Subtasks)] /\ f[0] = none
      /\ \A n \in 1..N : f[n] = Kept(f[n - 1], n)
    <2>1. \A n \in 1..N : n - 1 \in 0..N
        BY <1>1
    <2> QED
        BY <1>4, <1>6, <2>1 DEF Recurs
<1>8. Is(f)
    BY <1>1, <1>7
<1>9. Is(K)
    <2> HIDE DEF Is
    <2> QED
        BY <1>8, Zenon
<1> HIDE DEF K
<1>10. K[0] = none /\ \A n \in 1..N : K[n] = Kept(K[n - 1], n)
    BY <1>1, <1>9
<1>11. \A n \in 0..N : K[n] \in Seq(Subtasks)
    <2> DEFINE Good == {n \in 0..N : K[n] \in Seq(Subtasks)}
    <2> HIDE DEF Is
    <2>1. 0 \in Good
        BY <1>1, <1>10
    <2>2. \A k \in 1..N : k - 1 \in Good => k \in Good
        BY <1>1, <1>2, <1>10
    <2> HIDE DEF Good
    <2>3. \A n \in 0..N : n \in Good
        BY <1>1, <2>1, <2>2, Climb
    <2> QED
        BY <2>3 DEF Good
<1> QED
    BY <1>1, <1>3, <1>11

Mark      == [id : Nat, from : Nat, to : Nat]
TimedType == [offset : Nat, marks : Seq(Mark)]

\* One more segment keeps a timeline a timeline.
LEMMA ExtendType ==
    ASSUME NEW t \in TimedType, NEW s \in Subtasks
    PROVE  Extend(t, s) \in TimedType
<1>1. Duration(Recording(s)) \in Nat /\ s.id \in Nat
    BY RecordingType, DurationBounds DEF Subtasks
<1>2. t.offset \in Nat /\ t.marks \in Seq(Mark)
    BY DEF TimedType
<1> DEFINE to == t.offset + Duration(Recording(s))
           mark == [id |-> s.id, from |-> t.offset, to |-> to]
<1>3. to \in Nat
    BY <1>1, <1>2
<1>4. mark \in Mark
    BY <1>1, <1>2, <1>3 DEF Mark
<1>5. Extend(t, s) = [offset |-> to, marks |-> Append(t.marks, mark)]
    BY DEF Extend
<1> HIDE DEF to, mark
<1>6. Append(t.marks, mark) \in Seq(Mark)
    BY <1>2, <1>4
<1> QED
    BY <1>3, <1>5, <1>6 DEF TimedType

\* The timeline is the last of those that its loop goes through.
LEMMA TimedDef ==
    ASSUME NEW day \in Seq(Subtasks)
    PROVE  \E t \in [0..Len(Spoken(day)) -> TimedType] :
              /\ Timed(day) = t[Len(Spoken(day))]
              /\ t[0] = [offset |-> 0, marks |-> <<>>]
              /\ \A n \in 1..Len(Spoken(day)) :
                    t[n] = Extend(t[n - 1], Spoken(day)[n])
<1> DEFINE spoken == Spoken(day)
           N == Len(spoken)
           start == [offset |-> 0, marks |-> <<>>]
           Is(t) == t = [n \in 0..N |-> IF n = 0 THEN start
                                        ELSE Extend(t[n - 1], spoken[n])]
           rule == [p \in (1..N) \X TimedType |-> Extend(p[2], spoken[p[1]])]
           T == CHOOSE t : Is(t)
<1>1. N \in Nat /\ \A n \in 1..N : spoken[n] \in Subtasks
    BY SpokenType
<1>2. Timed(day) = T[N]
    BY DEF Timed
<1>3. start \in TimedType
    BY DEF TimedType
<1> HIDE DEF N, start, spoken
<1>4. \A n \in 1..N : \A v \in TimedType : rule[<<n, v>>] = Extend(v, spoken[n])
    OBVIOUS
<1> HIDE DEF rule
<1>5. StepsIn(rule, N, TimedType)
    BY <1>1, <1>4, ExtendType DEF StepsIn
<1>6. PICK f : Recurs(f, N, TimedType, start, rule)
    BY <1>1, <1>3, <1>5, RecursionExists
<1>7. f \in [0..N -> TimedType] /\ f[0] = start
      /\ \A n \in 1..N : f[n] = Extend(f[n - 1], spoken[n])
    <2>1. \A n \in 1..N : n - 1 \in 0..N
        BY <1>1
    <2> QED
        BY <1>4, <1>6, <2>1 DEF Recurs
<1>8. Is(f)
    BY <1>1, <1>7
<1>9. Is(T)
    <2> HIDE DEF Is
    <2> QED
        BY <1>8, Zenon
<1> HIDE DEF T
<1>10. T[0] = start /\ \A n \in 1..N : T[n] = Extend(T[n - 1], spoken[n])
    BY <1>1, <1>9
<1>11. \A n \in 0..N : T[n] \in TimedType
    <2> DEFINE Good == {n \in 0..N : T[n] \in TimedType}
    <2> HIDE DEF Is
    <2>1. 0 \in Good
        BY <1>1, <1>3, <1>10
    <2>2. \A k \in 1..N : k - 1 \in Good => k \in Good
        BY <1>1, <1>10, ExtendType
    <2> HIDE DEF Good
    <2>3. \A n \in 0..N : n \in Good
        BY <1>1, <2>1, <2>2, Climb
    <2> QED
        BY <2>3 DEF Good
<1>12. T \in [0..N -> TimedType]
    BY <1>9, <1>11
<1> QED
    BY <1>2, <1>10, <1>12 DEF N, start, spoken
\* A mark of the timeline is where the recording has it.
Placed(marks, spoken, totals, n) ==
    /\ marks[n].id = spoken[n].id
    /\ marks[n].from = IF n = 1 THEN 0 ELSE marks[n - 1].to
    /\ marks[n].to * (SamplesPerMs * BytesPerSample) <= totals[n]
    /\ totals[n] <= marks[n].to * (SamplesPerMs * BytesPerSample)
                      + n * (SamplesPerMs * BytesPerSample + BytesPerSample - 1)

\* A timeline of n segments that keeps to the recording.
Keeps(t, spoken, totals, n) ==
    /\ Len(t.marks) = n
    /\ t.offset = IF n = 0 THEN 0 ELSE t.marks[n].to
    /\ t.offset * (SamplesPerMs * BytesPerSample) <= totals[n]
    /\ totals[n] <= t.offset * (SamplesPerMs * BytesPerSample)
                      + n * (SamplesPerMs * BytesPerSample + BytesPerSample - 1)
    /\ \A i \in 1..n : Placed(t.marks, spoken, totals, i)

\* What two parts are short of adds up.
LEMMA DriftAdds ==
    ASSUME NEW a \in Nat, NEW o \in Nat, NEW k \in Nat, o <= a, a <= o + k,
           NEW r \in Nat, NEW d \in Nat, NEW s \in Nat, d <= r, r <= d + s
    PROVE  o + d <= a + r /\ a + r <= (o + d) + (k + s)
OBVIOUS

\* One more segment keeps to the recording if those before it do.
LEMMA ExtendKeeps ==
    ASSUME NEW n \in Nat, NEW t \in TimedType, NEW spoken, NEW totals,
           spoken[n + 1] \in Subtasks,
           totals[n] \in Nat,
           totals[n + 1] = totals[n] + Recording(spoken[n + 1]),
           Keeps(t, spoken, totals, n)
    PROVE  Keeps(Extend(t, spoken[n + 1]), spoken, totals, n + 1)
<1> DEFINE s == spoken[n + 1]
           R == Recording(s)
           D == Duration(R)
           B == SamplesPerMs * BytesPerSample
           slack == B + BytesPerSample - 1
           to == t.offset + D
           mark == [id |-> s.id, from |-> t.offset, to |-> to]
           marks == Append(t.marks, mark)
           u == Extend(t, s)
<1>1. R \in Nat
    BY RecordingType
<1>2. D \in Nat /\ D * B <= R /\ R <= D * B + slack
    BY <1>1, DurationBounds
<1>3. B \in Nat /\ slack \in Nat
    BY TimelineAssumption, Regroup
<1>4. t.offset \in Nat /\ t.marks \in Seq(Mark)
    BY DEF TimedType
<1>5. u = [offset |-> to, marks |-> marks]
    BY DEF Extend
<1>6. /\ Len(t.marks) = n
      /\ t.offset = IF n = 0 THEN 0 ELSE t.marks[n].to
      /\ t.offset * B <= totals[n]
      /\ totals[n] <= t.offset * B + n * slack
      /\ \A i \in 1..n : Placed(t.marks, spoken, totals, i)
    BY DEF Keeps
<1>7. s.id \in Nat
    BY DEF Subtasks
<1> HIDE DEF B, slack, R, D, s, u
<1>8. to \in Nat /\ mark \in Mark
    BY <1>2, <1>4, <1>7 DEF Mark
<1> HIDE DEF mark
<1>9. /\ Len(marks) = n + 1
      /\ marks[n + 1] = mark
      /\ \A i \in 1..n : marks[i] = t.marks[i]
    BY <1>4, <1>6, <1>8
<1> HIDE DEF marks
<1>10. to * B <= totals[n + 1] /\ totals[n + 1] <= to * B + (n + 1) * slack
    <2>1. to * B = t.offset * B + D * B
        BY <1>2, <1>3, <1>4, Regroup
    <2>2. (n + 1) * slack = n * slack + slack
        BY <1>3, Regroup
    <2>3. /\ t.offset * B \in Nat /\ D * B \in Nat /\ n * slack \in Nat
        BY <1>2, <1>3, <1>4, Regroup
    <2>4. totals[n + 1] = totals[n] + R
        BY DEF R, s
    <2>5. /\ t.offset * B + D * B <= totals[n] + R
          /\ totals[n] + R <= (t.offset * B + D * B) + (n * slack + slack)
        BY <1>1, <1>2, <1>3, <1>6, <2>3, DriftAdds
    <2> HIDE DEF to
    <2> QED
        BY <2>1, <2>2, <2>4, <2>5
<1>11. mark.id = s.id /\ mark.from = t.offset /\ mark.to = to
    BY DEF mark
<1> HIDE DEF to
<1>12. Placed(marks, spoken, totals, n + 1)
    <2>1. t.offset = IF n + 1 = 1 THEN 0 ELSE marks[n].to
        BY <1>6, <1>9
    <2> QED
        BY <1>9, <1>10, <1>11, <2>1 DEF Placed, B, slack, s
<1>13. ASSUME NEW i \in 1..n
       PROVE  Placed(marks, spoken, totals, i)
    <2>1. marks[i] = t.marks[i]
        BY <1>9
    <2>2. i # 1 => marks[i - 1] = t.marks[i - 1]
        BY <1>9
    <2>3. Placed(t.marks, spoken, totals, i)
        BY <1>6
    <2> QED
        BY <2>1, <2>2, <2>3 DEF Placed
<1>14. \A i \in 1..(n + 1) : Placed(marks, spoken, totals, i)
    BY <1>12, <1>13
<1>15. Keeps([offset |-> to, marks |-> marks], spoken, totals, n + 1)
    BY <1>9, <1>10, <1>11, <1>14 DEF Keeps, B, slack
<1> QED
    BY <1>5, <1>15 DEF u, s

\* Of any day: the timeline has the spoken subtasks, in their order and without
\* gaps, and its drift from the recording is bounded.
THEOREM TimelinesKeepToAudio ==
    ASSUME plan_day \in Seq(Subtasks)
    PROVE  TimelineKeepsToAudio
<1> DEFINE spoken == Spoken(plan_day)
           N == Len(spoken)
           lengths == Segments(plan_day)
           totals == Totals(lengths)
<1>1. spoken \in Seq(Subtasks) /\ N \in Nat
    BY SpokenType
<1>2. lengths \in Seq(Nat) /\ Len(lengths) = N
      /\ \A n \in 1..N : lengths[n] = Recording(spoken[n])
    <2>1. \A n \in 1..N : Recording(spoken[n]) \in Nat
        BY <1>1, RecordingType
    <2>2. DOMAIN spoken = 1..N
        BY <1>1
    <2>3. lengths = [n \in 1..N |-> Recording(spoken[n])]
        BY <2>2 DEF Segments
    <2> HIDE DEF spoken, N, lengths
    <2> QED
        BY <1>1, <2>1, <2>3
<1>3. PICK t \in [0..N -> TimedType] :
          /\ Timed(plan_day) = t[N]
          /\ t[0] = [offset |-> 0, marks |-> <<>>]
          /\ \A n \in 1..N : t[n] = Extend(t[n - 1], spoken[n])
    BY TimedDef
<1>4. /\ totals[0] = 0
      /\ \A n \in 0..N : totals[n] \in Nat
      /\ \A n \in 1..N : totals[n] = totals[n - 1] + lengths[n]
    <2> HIDE DEF lengths, N
    <2> QED
        BY <1>2, TotalsDef
<1> HIDE DEF spoken, N, lengths, totals
<1>5. \A n \in 0..N : Keeps(t[n], spoken, totals, n)
    <2> DEFINE Good == {n \in 0..N : Keeps(t[n], spoken, totals, n)}
    <2>1. 0 \in Good
        <3>1. t[0].offset = 0 /\ Len(t[0].marks) = 0
            BY <1>3
        <3>2. /\ 0 * (SamplesPerMs * BytesPerSample) = 0
              /\ 0 * (SamplesPerMs * BytesPerSample + BytesPerSample - 1) = 0
            BY TimelineAssumption
        <3>3. Keeps(t[0], spoken, totals, 0)
            BY <1>4, <3>1, <3>2 DEF Keeps
        <3> QED
            BY <1>1, <3>3
    <2>2. ASSUME NEW k \in 1..N, k - 1 \in Good
          PROVE  k \in Good
        <3>1. k - 1 \in Nat /\ (k - 1) + 1 = k /\ k - 1 \in 0..N /\ k \in 0..N
            BY <1>1
        <3>2. spoken[k] \in Subtasks
            BY <1>1, <3>1 DEF N
        <3>3. t[k - 1] \in TimedType /\ totals[k - 1] \in Nat
            BY <1>3, <1>4, <3>1
        <3>4. totals[k] = totals[k - 1] + Recording(spoken[k])
            BY <1>2, <1>4
        <3>5. Keeps(t[k - 1], spoken, totals, k - 1)
            BY <2>2
        <3>6. Keeps(Extend(t[k - 1], spoken[k]), spoken, totals, k)
            BY <3>1, <3>2, <3>3, <3>4, <3>5, ExtendKeeps
        <3> QED
            BY <1>3, <3>1, <3>6
    <2> HIDE DEF Good
    <2>3. \A n \in 0..N : n \in Good
        BY <1>1, <2>1, <2>2, Climb
    <2> QED
        BY <2>3 DEF Good
<1>6. Keeps(Timed(plan_day), spoken, totals, N)
    BY <1>1, <1>3, <1>5
<1>7. Timed(plan_day).marks \in Seq(Mark)
    BY <1>1, <1>3 DEF TimedType
<1>8. DOMAIN Timeline(plan_day) = 1..N /\ Len(Timeline(plan_day)) = N
    BY <1>6, <1>7 DEF Timeline, Keeps
<1>9. \A n \in 1..N : Placed(Timeline(plan_day), spoken, totals, n)
    BY <1>6 DEF Keeps, Timeline
<1>10. DayDuration(plan_day) * (SamplesPerMs * BytesPerSample)
           <= DayBytes(plan_day)
    BY <1>2, <1>6 DEF Keeps, DayDuration, DayBytes, Sum, lengths, totals
<1> QED
    BY <1>8, <1>9, <1>10
    DEF TimelineKeepsToAudio, Placed, spoken, totals, lengths, N
=============================================================================
