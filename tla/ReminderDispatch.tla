--------------------------- MODULE ReminderDispatch ---------------------------
(***************************************************************************)
(* Plan reminders: a row for each, enrolled, updated and cancelled by HTTP  *)
(* requests, and rung by dispatches, which replace each row that rang by    *)
(* its successor.  A dispatch is one transaction that holds its rows        *)
(* locked while it awaits the pushes.  A request runs without an await: it  *)
(* blocks the event loop of its process, and with it the process's own      *)
(* dispatch, until the database has answered.                               *)
(*                                                                          *)
(* An action runs from one await, or one statement that others can see, to  *)
(* the next.                                                                *)
(***************************************************************************)
EXTENDS Naturals, FiniteSets

CONSTANTS
    Workers,     \* worker processes
    Serving,     \* those that get the requests
    Enrolments,  \* pairs of user and plan
    Rows,        \* ids of reminder rows
    Owner,       \* [Rows -> Enrolments]
    BatchSize,   \* NOTIFICATION_DISPATCH_BATCH_SIZE
    Idempotent,  \* NOTIFICATION_IDEMPOTENCY_ENABLED
    MaxRequests, \* bound: requests of one behaviour
    MaxFaults    \* bound: misfortunes of one behaviour

ASSUME ConstantsAssumption ==
    /\ IsFiniteSet(Rows)
    /\ Serving \subseteq Workers
    /\ Owner \in [Rows -> Enrolments]
    /\ BatchSize \in Nat \ {0}
    /\ Idempotent \in BOOLEAN
    /\ MaxRequests \in Nat
    /\ MaxFaults \in Nat

VARIABLES
    row,      \* [Rows -> Statuses]: what is committed
    due,      \* pairs of rows whose trigger_at has come, in that order; a row
              \* that is due pairs with itself
    dispatch, \* [Workers -> [Rows -> Legs]]: the transaction of a dispatch
    request,  \* [Workers -> a request that awaits the database or NoRequest]
    markers,  \* rows with an idempotency marker in Redis
    pushes,   \* history: [Rows -> pushes FCM accepted]
    enrolled, \* history: enrolments whose last request was no cancellation
    races,    \* history: [Enrolments -> requests that wrote what was outdated]
    requests, \* requests so far
    faults,   \* misfortunes so far
    slips     \* those of them that can ring a reminder again

rowVars   == <<row, due>>
histVars  == <<enrolled, races, requests>>
faultVars == <<faults, slips>>
vars == <<row, due, dispatch, request, markers, pushes, enrolled, races,
          requests, faults, slips>>

\* "none" is an id not used yet.
Statuses == {"none", "pending", "sent", "cancelled"}

\* How far a dispatch has come with a row: not locked by it, to do, at FCM,
\* accepted, skipped or failed, sent and succeeded by another.
Legs == {"out", "todo", "sending", "accepted", "kept", "swapped"}

NoRequest == [kind |-> "none"]
Requests  == [kind : {"enroll", "update", "cancel"}, of : Enrolments,
              read : SUBSET Rows]

NoLegs == [r \in Rows |-> "out"]

-----------------------------------------------------------------------------
(* Rows, locks, faults                                                      *)

PendingOf(e) == {r \in Rows : Owner[r] = e /\ row[r] = "pending"}

IsDue(r) == <<r, r>> \in due

Before(r, s) == <<r, s>> \in due

Locked(r) == \E w \in Workers : dispatch[w][r] # "out"

\* The rows a dispatch of w has in one of the stages L.
At(w, L) == {r \in Rows : dispatch[w][r] \in L}

\* Ids for new rows, in a transaction that lets the rows of gone leave: a row of
\* the past that no request has read stands for a new one.
Fresh(gone) ==
    {r \in Rows : /\ row[r] = "pending" => r \in gone
                  /\ \A w \in Workers :
                        request[w] # NoRequest => r \notin request[w].read}

\* Commit: the rows of gone leave with a status, those of come are inserted.
Replace(gone, status, come) ==
    /\ row' = [r \in Rows |-> IF r \in come THEN "pending"
                              ELSE IF r \in gone THEN status ELSE row[r]]
    /\ due' = due \cap ((Rows \ gone) \X (Rows \ gone))
    /\ pushes' = [r \in Rows |-> IF r \in come THEN 0 ELSE pushes[r]]
    /\ markers' = markers \ come

Glitch ==
    /\ faults < MaxFaults
    /\ faults' = faults + 1
    /\ UNCHANGED slips

Slip ==
    /\ faults < MaxFaults
    /\ faults' = faults + 1
    /\ slips' = slips + 1

\* The clock passes trigger_at.
BecomeDue(r) ==
    /\ row[r] = "pending" /\ ~IsDue(r)
    /\ due' = due \cup {<<s, r>> : s \in {t \in Rows : IsDue(t) \/ t = r}}
    /\ UNCHANGED <<row, dispatch, request, markers, pushes, histVars, faultVars>>

-----------------------------------------------------------------------------
(* dispatch_due_notifications_service                                       *)

\* No request has the event loop of w.
LoopFree(w) == request[w] = NoRequest

\* What get_due_reminders may lock: SKIP LOCKED.
Available == {r \in Rows : row[r] = "pending" /\ IsDue(r) /\ ~Locked(r)}

\* Mutant: get_due_reminders without FOR UPDATE SKIP LOCKED.
BeginDispatchUnlocked(w, B) ==
    /\ LoopFree(w)
    /\ dispatch[w] = NoLegs
    /\ B # {} /\ B \subseteq {r \in Rows : IsDue(r)}
    /\ Cardinality(B) <= BatchSize
    /\ dispatch' = [dispatch EXCEPT ![w] =
                        [r \in Rows |-> IF r \in B THEN "todo" ELSE "out"]]
    /\ UNCHANGED <<rowVars, request, markers, pushes, histVars, faultVars>>

\* It locks the oldest of them, as many as fit.
BeginDispatch(w, B) ==
    /\ LoopFree(w)
    /\ dispatch[w] = NoLegs
    /\ B # {} /\ B \subseteq Available
    /\ \/ Cardinality(B) = BatchSize
       \/ B = Available /\ Cardinality(B) < BatchSize
    /\ \A r \in B, s \in Available \ B : Before(r, s)
    /\ dispatch' = [dispatch EXCEPT ![w] =
                        [r \in Rows |-> IF r \in B THEN "todo" ELSE "out"]]
    /\ UNCHANGED <<rowVars, request, markers, pushes, histVars, faultVars>>

AlreadyDispatched(r) == Idempotent /\ r \in markers

\* The loop turns to the oldest row left.
StartSend(w, r) ==
    /\ LoopFree(w)
    /\ r \in At(w, {"todo"})
    /\ At(w, {"sending", "accepted"}) = {}
    /\ \A s \in At(w, {"todo"}) \ {r} : Before(r, s)
    /\ dispatch' = [dispatch EXCEPT ![w][r] =
                        IF AlreadyDispatched(r) THEN "kept" ELSE "sending"]
    /\ UNCHANGED <<rowVars, request, markers, pushes, histVars, faultVars>>

\* FCM takes the push, in a thread of its own: the event loop need not be free.
FcmAccepts(w, r) ==
    /\ dispatch[w][r] = "sending"
    /\ dispatch' = [dispatch EXCEPT ![w][r] = "accepted"]
    /\ pushes' = [pushes EXCEPT ![r] = @ + 1]
    /\ UNCHANGED <<rowVars, request, markers, histVars, faultVars>>

\* The send raises: the token is refused, FCM cannot be reached, or its answer
\* is lost.  The row stays pending, whatever the reason.
SendFails(w, r) ==
    /\ LoopFree(w)
    /\ dispatch[w][r] = "sending"
    /\ dispatch' = [dispatch EXCEPT ![w][r] = "kept"]
    /\ \/ UNCHANGED <<pushes, faultVars>>
       \/ Slip /\ pushes' = [pushes EXCEPT ![r] = @ + 1]
    /\ UNCHANGED <<rowVars, request, markers, histVars>>

\* Mutant: the marker is keyed on the plan, not on the reminder.
RecordByPlan(w, r) ==
    /\ LoopFree(w)
    /\ dispatch[w][r] = "accepted"
    /\ dispatch' = [dispatch EXCEPT ![w][r] = "swapped"]
    /\ markers' = IF Idempotent THEN markers \cup {Owner[r]} ELSE markers
    /\ UNCHANGED <<rowVars, request, pushes, histVars, faultVars>>

\* mark_sent, create_reminder and _mark_dispatched.  The row is sent even if
\* the last of them fails and the dispatch counts it as failed.
Record(w, r) ==
    /\ LoopFree(w)
    /\ dispatch[w][r] = "accepted"
    /\ dispatch' = [dispatch EXCEPT ![w][r] = "swapped"]
    /\ \/ /\ markers' = IF Idempotent THEN markers \cup {r} ELSE markers
          /\ UNCHANGED faultVars
       \/ Idempotent /\ Glitch /\ UNCHANGED markers
    /\ UNCHANGED <<rowVars, request, pushes, histVars>>

\* Mutant: the dispatch commits what was sent and creates no successor.
CommitDispatchAlone(w) ==
    /\ LoopFree(w)
    /\ dispatch[w] # NoLegs
    /\ At(w, {"todo", "sending", "accepted"}) = {}
    /\ Replace(At(w, {"swapped"}), "sent", {})
    /\ dispatch' = [dispatch EXCEPT ![w] = NoLegs]
    /\ UNCHANGED <<request, histVars, faultVars>>

\* db.commit(): each row that rang has its successor.
CommitDispatch(w) ==
    /\ LoopFree(w)
    /\ dispatch[w] # NoLegs
    /\ At(w, {"todo", "sending", "accepted"}) = {}
    /\ \E heir \in [At(w, {"swapped"}) -> Fresh(At(w, {"swapped"}))] :
          /\ \A r, s \in DOMAIN heir :
                /\ Owner[heir[r]] = Owner[r]
                /\ r # s => heir[r] # heir[s]
          /\ Replace(DOMAIN heir, "sent", {heir[r] : r \in DOMAIN heir})
    /\ dispatch' = [dispatch EXCEPT ![w] = NoLegs]
    /\ UNCHANGED <<request, histVars, faultVars>>

\* What a lost transaction of w makes ring again.
Repeats(w) ==
    \/ At(w, {"accepted"}) # {}
    \/ \E r \in At(w, {"swapped"}) : ~AlreadyDispatched(r)

\* Redis fails in _already_dispatched, the database in a flush or the commit:
\* the exception escapes the loop, and nothing of the batch is stored.
AbortDispatch(w) ==
    /\ LoopFree(w)
    /\ dispatch[w] # NoLegs
    /\ At(w, {"sending"}) = {}
    /\ At(w, {"todo"}) # {} => Idempotent \/ At(w, {"accepted"}) # {}
    /\ IF Repeats(w) THEN Slip ELSE Glitch
    /\ dispatch' = [dispatch EXCEPT ![w] = NoLegs]
    /\ UNCHANGED <<rowVars, request, markers, pushes, histVars>>

-----------------------------------------------------------------------------
(* reminder_enroll_service                                                  *)

\* The SELECT of the pending rows takes no lock.  An update needs one.
BeginRequest(w, kind, e) ==
    /\ w \in Serving /\ LoopFree(w)
    /\ requests < MaxRequests
    /\ kind = "update" => PendingOf(e) # {}
    /\ request' = [request EXCEPT ![w] =
                        [kind |-> kind, of |-> e, read |-> PendingOf(e)]]
    /\ requests' = requests + 1
    /\ UNCHANGED <<rowVars, dispatch, markers, pushes, enrolled, races, faultVars>>

\* The UPDATE waits for the dispatches that hold one of its rows.
Granted(w) == \A r \in request[w].read : ~Locked(r)

\* Mutant: an update creates the new reminder beside the old one.
CommitRequestAdds(w) ==
    /\ ~LoopFree(w)
    /\ Granted(w)
    /\ LET q == request[w]
       IN  /\ \E r \in Rows :
                 /\ q.kind # "cancel" => r \in Fresh({}) /\ Owner[r] = q.of
                 /\ Replace(IF q.kind = "update" THEN {} ELSE q.read, "cancelled",
                            IF q.kind = "cancel" THEN {} ELSE {r})
           /\ enrolled' = IF q.kind = "cancel" THEN enrolled \ {q.of}
                          ELSE enrolled \cup {q.of}
           /\ races' = IF PendingOf(q.of) = q.read THEN races
                       ELSE [races EXCEPT ![q.of] = @ + 1]
    /\ request' = [request EXCEPT ![w] = NoRequest]
    /\ UNCHANGED <<dispatch, requests, faultVars>>

\* It then sets the rows that were pending when read to cancelled, whatever
\* they are now, and inserts the new one.
CommitRequest(w) ==
    /\ ~LoopFree(w)
    /\ Granted(w)
    /\ LET q == request[w]
       IN  /\ \E new \in SUBSET {r \in Fresh({}) : Owner[r] = q.of} :
                 /\ Cardinality(new) = IF q.kind = "cancel" THEN 0 ELSE 1
                 /\ Replace(q.read, "cancelled", new)
           /\ enrolled' = IF q.kind = "cancel" THEN enrolled \ {q.of}
                          ELSE enrolled \cup {q.of}
           /\ races' = IF PendingOf(q.of) = q.read THEN races
                       ELSE [races EXCEPT ![q.of] = @ + 1]
    /\ request' = [request EXCEPT ![w] = NoRequest]
    /\ UNCHANGED <<dispatch, requests, faultVars>>

\* The database fails: the request answers 500.
FailRequest(w) ==
    /\ ~LoopFree(w)
    /\ Glitch
    /\ request' = [request EXCEPT ![w] = NoRequest]
    /\ UNCHANGED <<rowVars, dispatch, markers, pushes, histVars>>

-----------------------------------------------------------------------------
(* Restarts and time                                                        *)

\* The process dies and the database rolls its transactions back.
Restart(w) ==
    /\ dispatch[w] # NoLegs \/ ~LoopFree(w)
    /\ IF Repeats(w) THEN Slip ELSE Glitch
    /\ dispatch' = [dispatch EXCEPT ![w] = NoLegs]
    /\ request' = [request EXCEPT ![w] = NoRequest]
    /\ UNCHANGED <<rowVars, markers, pushes, histVars>>

\* Mutant: the marker is set without a TTL.
MarkerStays(r) == FALSE /\ UNCHANGED vars

\* NOTIFICATION_IDEMPOTENCY_TTL_SECONDS run out.
MarkerExpires(r) ==
    /\ r \in markers
    /\ markers' = markers \ {r}
    /\ slips' = IF row[r] = "pending" /\ \A w \in Workers : dispatch[w][r] # "swapped"
                THEN slips + 1 ELSE slips
    /\ UNCHANGED <<rowVars, dispatch, request, pushes, histVars, faults>>

-----------------------------------------------------------------------------

Init ==
    /\ row = [r \in Rows |-> "none"]
    /\ due = {}
    /\ dispatch = [w \in Workers |-> NoLegs]
    /\ request = [w \in Workers |-> NoRequest]
    /\ markers = {}
    /\ pushes = [r \in Rows |-> 0]
    /\ enrolled = {}
    /\ races = [e \in Enrolments |-> 0]
    /\ requests = 0
    /\ faults = 0
    /\ slips = 0

Dispatch(w) ==
    \/ \E B \in SUBSET Rows : BeginDispatch(w, B)
    \/ \E r \in Rows : StartSend(w, r) \/ FcmAccepts(w, r) \/ SendFails(w, r)
                       \/ Record(w, r)
    \/ CommitDispatch(w)
    \/ AbortDispatch(w)

Next ==
    \/ \E r \in Rows : BecomeDue(r) \/ MarkerExpires(r)
    \/ \E w \in Workers : \/ Dispatch(w)
                          \/ \E kind \in {"enroll", "update", "cancel"},
                                e \in Enrolments : BeginRequest(w, kind, e)
                          \/ CommitRequest(w)
                          \/ FailRequest(w)
                          \/ Restart(w)

Spec == Init /\ [][Next]_vars

\* The scheduler calls for a dispatch again and again; FCM answers or times
\* out, and accepts in the end (the tokens are live); the database grants a lock
\* to who waits for it; markers expire.  No timeout ends a wait for a lock, and
\* nothing restarts a process that hangs.
Fairness ==
    /\ \A w \in Workers : WF_vars(Dispatch(w)) /\ SF_vars(CommitRequest(w))
    /\ \A r \in Rows : /\ WF_vars(MarkerExpires(r))
                       /\ SF_vars(\E w \in Workers : FcmAccepts(w, r))

FairSpec == Spec /\ Fairness

-----------------------------------------------------------------------------
(* Properties                                                               *)

TypeOK ==
    /\ row \in [Rows -> Statuses]
    /\ due \subseteq Rows \X Rows
    /\ dispatch \in [Workers -> [Rows -> Legs]]
    /\ request \in [Workers -> {NoRequest} \cup Requests]
    /\ markers \subseteq Rows
    /\ pushes \in [Rows -> Nat]
    /\ enrolled \subseteq Enrolments
    /\ races \in [Enrolments -> Nat]
    /\ requests \in Nat
    /\ faults \in Nat
    /\ slips \in Nat

\* An enrolment always has a reminder to come, through every dispatch that
\* replaces it, every failure and every race with requests: a reminder that
\* rang without a successor would end the habit unnoticed.
EnrolledHasReminder == \A e \in enrolled : PendingOf(e) # {}

\* A reminder rings once, and once more for each slip: a lost answer of FCM, a
\* transaction lost after the push and without a marker, an expired marker.
\* Two dispatches at one time do not ring it twice.
RingsOnce == \A r \in Rows : pushes[r] <= 1 + slips

\* An enrolment has one reminder, and a cancelled one none, but for each request
\* that wrote over rows that had changed since it read them: it overlapped a
\* dispatch, or a request at another worker.
ExtrasNeedRaces ==
    \A e \in Enrolments :
        Cardinality(PendingOf(e)) <= races[e] + (IF e \in enrolled THEN 1 ELSE 0)

\* A request waits for a row that a dispatch of v holds.
WaitsFor(w, v) == ~LoopFree(w) /\ \E r \in request[w].read : dispatch[v][r] # "out"

\* Workers that wait for each other, or one for itself, and so forever.
Hung == \E W \in SUBSET Workers \ {{}} : \A w \in W : \E v \in W : WaitsFor(w, v)

\* A due reminder rings or is cancelled in the end, however often its push
\* fails and its dispatch is lost, unless a request hangs on a row that its own
\* process is dispatching.
DueRingsUnlessHung ==
    \A r \in Rows : IsDue(r) ~> ~IsDue(r) \/ Hung

\* docs/api-endpoints.md: "The dispatch job sends push notifications when
\* reminders become due."
DueRings == \A r \in Rows : IsDue(r) ~> ~IsDue(r)
=============================================================================
