------------------------------ MODULE RecSignals ------------------------------
(***************************************************************************)
(* The worker's copy of the recommendation signals: consumers fold backend  *)
(* events into it, one transaction per poll (consumer.py and                *)
(* signal_service.py), while refreshers replace its memberships with a      *)
(* snapshot they read page by page (sync_service.py).                       *)
(*                                                                          *)
(* Item types are synced apart and share nothing, so there is one of them   *)
(* here; a message carries one event and a poll several messages.  Every    *)
(* change at the backend has a time of its own.                             *)
(***************************************************************************)
EXTENDS Integers, FiniteSets

CONSTANTS
    Workers,    \* consumers of the events queue
    Refreshers, \* full refreshes that may run at one time
    Keys,       \* memberships: a user and an item
    Events,     \* identities for the events the backend sends
    Skew,       \* _CLOCK_SKEW
    Drift,      \* [Refreshers -> Int]: how far its clock is ahead of the backend's
    MaxClock,   \* bound: the moments of one behaviour
    MaxSilent,  \* bound: membership changes that send no event
    MaxFaults   \* bound: the misfortunes of one behaviour

ASSUME ConstantsAssumption ==
    /\ Skew \in Nat
    /\ Drift \in [Refreshers -> Int]
    /\ MaxClock \in Nat
    /\ MaxSilent \in Nat
    /\ MaxFaults \in Nat

VARIABLES
    truth,     \* [Keys -> BOOLEAN]: the backend's memberships
    clock,     \* the backend's clock
    silent,    \* changes so far that sent no event
    log,       \* [Events -> the event, or NoEvent before it is sent]
    queue,     \* [Events -> "unsent" | "visible" | "inflight" | "deleted"]
    local,     \* rec_memberships: [Keys -> BOOLEAN]
    change,    \* rec_membership_changes: [Keys -> changed_at, or NoChange]
    exposure,  \* rec_exposures: [Keys -> count], 0 for no row
    dismissed, \* rec_dismissals
    processed, \* rec_processed_events
    work,      \* [Workers -> Idle, or the batch with its transaction]
    sync,      \* [Refreshers -> NoSync, or the snapshot so far]
    faults     \* misfortunes so far

backendVars == <<truth, clock, silent, log>>
memberVars  == <<local, change>>
countVars   == <<exposure, dismissed>>
vars == <<truth, clock, silent, log, queue, local, change, exposure, dismissed,
          processed, work, sync, faults>>

NoEvent  == [action |-> "none"]
Idle     == [stage |-> "idle"]
NoSync   == [at |-> "none"]
NoChange == -1

Actions == {"join", "leave", "impression", "dismiss", "unreadable"}

Membership(e) == log[e].action \in {"join", "leave"}

\* A message that parse_recommendation_events_message_body makes nothing of.
Unreadable(e) == log[e].action = "unreadable"

-----------------------------------------------------------------------------
(* The backend and the queue                                                *)

Healthy == UNCHANGED faults
Glitch  == faults < MaxFaults /\ faults' = faults + 1

Tick == clock < MaxClock /\ clock' = clock + 1

\* The backend sends an event.
Send(e, action, k) ==
    /\ queue[e] = "unsent"
    /\ Tick
    /\ log' = [log EXCEPT ![e] = [action |-> action, key |-> k, at |-> clock + 1]]
    /\ queue' = [queue EXCEPT ![e] = "visible"]
    /\ UNCHANGED <<silent, memberVars, countVars, processed, work, sync,
                   faults>>

\* A user joins or leaves, and an event says so.
Change(k, e) ==
    /\ truth' = [truth EXCEPT ![k] = ~@]
    /\ Send(e, IF truth[k] THEN "leave" ELSE "join", k)

\* A user sees or dismisses a suggestion; or what is sent cannot be read.
React(k, e, action) ==
    /\ UNCHANGED truth
    /\ Send(e, action, k)

\* A join through a path that sends no event, or a message that got lost.
ChangeSilently(k) ==
    /\ silent < MaxSilent
    /\ silent' = silent + 1
    /\ Tick
    /\ truth' = [truth EXCEPT ![k] = ~@]
    /\ UNCHANGED <<log, queue, memberVars, countVars, processed, work, sync, faults>>

InHand(e) == \E w \in Workers : work[w] # Idle /\ e \in work[w].batch

VisibilityTimeout(e) ==
    /\ queue[e] = "inflight"
    /\ queue' = [queue EXCEPT ![e] = "visible"]
    /\ IF InHand(e) THEN Glitch ELSE Healthy
    /\ UNCHANGED <<backendVars, memberVars, countVars, processed, work, sync>>

\* A reconcile at the backend sends an event again under its old id.
Resend(e) ==
    /\ queue[e] = "deleted"
    /\ queue' = [queue EXCEPT ![e] = "visible"]
    /\ Glitch
    /\ UNCHANGED <<backendVars, memberVars, countVars, processed, work, sync>>

-----------------------------------------------------------------------------
(* The consumer: process_recommendation_events_messages                     *)

Receive(w, S) ==
    /\ work[w] = Idle
    /\ S # {}
    /\ \A e \in S : queue[e] = "visible"
    /\ queue' = [e \in Events |-> IF e \in S THEN "inflight" ELSE queue[e]]
    /\ work' = [work EXCEPT ![w] = [stage |-> "received", batch |-> S]]
    /\ UNCHANGED <<backendVars, memberVars, countVars, processed, sync,
                   faults>>

\* What cannot be read is deleted before the rest is applied; a failing delete
\* is only logged.
Discard(w) ==
    /\ work[w].stage = "received"
    /\ LET bad == {e \in work[w].batch : Unreadable(e)}
           rest == work[w].batch \ bad
       IN /\ bad # {}
          /\ \E kept \in SUBSET bad :
                /\ queue' = [e \in Events |-> IF e \in bad \ kept THEN "deleted"
                                             ELSE queue[e]]
                /\ IF kept = {} THEN Healthy ELSE Glitch
          /\ work' = [work EXCEPT ![w] =
                          IF rest = {} THEN Idle
                          ELSE [stage |-> "received", batch |-> rest]]
    /\ UNCHANGED <<backendVars, memberVars, countVars, processed, sync>>

\* The transaction of v holds the advisory lock.
Locking(v) ==
    work[v].stage = "open" /\ \E e \in work[v].batch : Membership(e)

\* apply_events starts: the lock, if there is a membership event, and then the
\* rows this transaction sees.
Begin(w) ==
    /\ work[w].stage = "received"
    /\ \A e \in work[w].batch : ~Unreadable(e)
    /\ (\E e \in work[w].batch : Membership(e)) => \A v \in Workers : ~Locking(v)
    /\ work' = [work EXCEPT ![w] =
                    [stage |-> "open", batch |-> work[w].batch,
                     seen |-> processed,
                     counted |-> {k \in Keys : exposure[k] > 0},
                     waved |-> dismissed]]
    /\ UNCHANGED <<backendVars, queue, memberVars, countVars, processed, sync, faults>>

\* Mutant: an event is applied again whenever it is delivered again.
FreshAll(w) == work[w].batch

\* The events of the batch that were not yet processed when it began.
Fresh(w) == work[w].batch \ work[w].seen

FreshOn(w, k, action) ==
    {e \in Fresh(w) : log[e].key = k /\ log[e].action = action}

Dismissed(w) == {k \in Keys : FreshOn(w, k, "dismiss") # {}}

\* Mutant: a duplicate insert goes unnoticed.
ConflictNever(w) == FALSE

\* A primary key this transaction inserts has been inserted since.
Conflict(w) ==
    \/ Fresh(w) \cap processed # {}
    \/ \E k \in Keys :
          \/ /\ FreshOn(w, k, "impression") # {}
             /\ k \notin work[w].counted /\ exposure[k] > 0
          \/ /\ k \in Dismissed(w)
             /\ k \notin work[w].waved /\ k \in dismissed

\* Mutant: a membership event is taken whatever is recorded.
NewsAny(w, k) == FreshOn(w, k, "join") \cup FreshOn(w, k, "leave")

\* The membership events of the batch that are news for k: in order of time,
\* each passes record_membership_change if it is after the recorded change.
News(w, k) ==
    {e \in FreshOn(w, k, "join") \cup FreshOn(w, k, "leave") :
        log[e].at > change[k]}

\* The last of them stands.
Newest(w, k) == CHOOSE e \in News(w, k) :
                    \A f \in News(w, k) : log[f].at <= log[e].at

Commit(w) ==
    /\ work[w].stage = "open"
    /\ ~Conflict(w)
    /\ local' = [k \in Keys |-> IF News(w, k) = {} THEN local[k]
                                ELSE log[Newest(w, k)].action = "join"]
    /\ change' = [k \in Keys |-> IF News(w, k) = {} THEN change[k]
                                 ELSE log[Newest(w, k)].at]
    /\ exposure' = [k \in Keys |->
                        exposure[k] + Cardinality(FreshOn(w, k, "impression"))]
    /\ dismissed' = dismissed \cup Dismissed(w)
    /\ processed' = processed \cup work[w].batch
    /\ work' = [work EXCEPT ![w] = [stage |-> "stored", batch |-> work[w].batch]]
    /\ UNCHANGED <<backendVars, queue, sync, faults>>

\* Mutant: the messages of a failed transaction are deleted all the same.
RollbackDeletes(w) ==
    /\ work[w].stage = "open"
    /\ IF Conflict(w) THEN Healthy ELSE Glitch
    /\ work' = [work EXCEPT ![w] = [stage |-> "stored", batch |-> work[w].batch]]
    /\ UNCHANGED <<backendVars, queue, memberVars, countVars, processed, sync>>

\* The transaction fails and the messages are left for retry.
Rollback(w) ==
    /\ work[w].stage = "open"
    /\ IF Conflict(w) THEN Healthy ELSE Glitch
    /\ work' = [work EXCEPT ![w] = Idle]
    /\ UNCHANGED <<backendVars, queue, memberVars, countVars, processed, sync>>

\* Stored events are deleted from the queue; a failing delete is only logged.
DeleteMessages(w) ==
    /\ work[w].stage = "stored"
    /\ \E kept \in SUBSET work[w].batch :
          /\ queue' = [e \in Events |-> IF e \in work[w].batch \ kept
                                        THEN "deleted" ELSE queue[e]]
          /\ IF kept = {} THEN Healthy ELSE Glitch
    /\ work' = [work EXCEPT ![w] = Idle]
    /\ UNCHANGED <<backendVars, memberVars, countVars, processed, sync>>

\* The process stops between any two steps; an open transaction is rolled back.
Restart(w) ==
    /\ work[w] # Idle
    /\ work' = [work EXCEPT ![w] = Idle]
    /\ Glitch
    /\ UNCHANGED <<backendVars, queue, memberVars, countVars, processed, sync>>

-----------------------------------------------------------------------------
(* The full resync                                                          *)

\* snapshot_at is taken from the worker's clock before the fetch.
StartSync(r) ==
    /\ sync[r] = NoSync
    /\ Tick
    /\ sync' = [sync EXCEPT ![r] = [at |-> clock + 1 + Drift[r],
                                    page |-> [k \in Keys |-> "unread"]]]
    /\ UNCHANGED <<truth, silent, log, queue, memberVars, countVars, processed,
                   work, faults>>

\* The page with k arrives; other pages may show other moments.
FetchPage(r, k) ==
    /\ sync[r] # NoSync
    /\ sync[r].page[k] = "unread"
    /\ sync' = [sync EXCEPT ![r].page[k] = IF truth[k] THEN "in" ELSE "out"]
    /\ UNCHANGED <<backendVars, queue, memberVars, countVars, processed, work, faults>>

\* Mutant: events that arrived during the fetch are overruled.
NewerNever(r, k) == FALSE

\* An event changed k at or after the snapshot, give or take the clocks.
Newer(r, k) == change[k] # NoChange /\ change[k] >= sync[r].at - Skew

\* replace_memberships, one transaction under the advisory lock.
ApplySync(r) ==
    /\ sync[r] # NoSync
    /\ \A k \in Keys : sync[r].page[k] # "unread"
    /\ \A v \in Workers : ~Locking(v)
    /\ LET differs(k) == ~Newer(r, k) /\ local[k] # (sync[r].page[k] = "in") IN
       /\ local' = [k \in Keys |-> IF differs(k) THEN ~local[k] ELSE local[k]]
       /\ change' = [k \in Keys |-> IF differs(k) THEN sync[r].at ELSE change[k]]
    /\ sync' = [sync EXCEPT ![r] = NoSync]
    /\ UNCHANGED <<backendVars, queue, countVars, processed, work, faults>>

\* A backend or database error, or a restart: nothing was applied.
DropSync(r) ==
    /\ sync[r] # NoSync
    /\ sync' = [sync EXCEPT ![r] = NoSync]
    /\ UNCHANGED <<backendVars, queue, memberVars, countVars, processed, work, faults>>

-----------------------------------------------------------------------------

Init ==
    /\ truth = [k \in Keys |-> FALSE]
    /\ clock = 0
    /\ silent = 0
    /\ log = [e \in Events |-> NoEvent]
    /\ queue = [e \in Events |-> "unsent"]
    /\ local = [k \in Keys |-> FALSE]
    /\ change = [k \in Keys |-> NoChange]
    /\ exposure = [k \in Keys |-> 0]
    /\ dismissed = {}
    /\ processed = {}
    /\ work = [w \in Workers |-> Idle]
    /\ sync = [r \in Refreshers |-> NoSync]
    /\ faults = 0

Backend ==
    \/ \E k \in Keys, e \in Events :
          \/ Change(k, e)
          \/ \E action \in {"impression", "dismiss", "unreadable"} : React(k, e, action)
    \/ \E k \in Keys : ChangeSilently(k)
    \/ \E e \in Events : VisibilityTimeout(e) \/ Resend(e)

Consume(w) ==
    Discard(w) \/ Begin(w) \/ Commit(w) \/ Rollback(w) \/ DeleteMessages(w)

Refresh(r) ==
    \/ StartSync(r)
    \/ \E k \in Keys : FetchPage(r, k)
    \/ ApplySync(r)
    \/ DropSync(r)

Next ==
    \/ Backend
    \/ \E w \in Workers, S \in SUBSET Events : Receive(w, S)
    \/ \E w \in Workers : Consume(w) \/ Restart(w)
    \/ \E r \in Refreshers : Refresh(r)

Spec == Init /\ [][Next]_vars

\* The loop runs, statements end, a lock is got sooner or later, and SQS hands
\* out a visible message.
Fairness ==
    /\ \A w \in Workers :
          /\ SF_vars(Begin(w))
          /\ WF_vars(Discard(w) \/ Commit(w) \/ Rollback(w) \/ DeleteMessages(w))
    /\ \A e \in Events :
          /\ WF_vars(VisibilityTimeout(e))
          /\ SF_vars(\E w \in Workers, S \in SUBSET Events : e \in S /\ Receive(w, S))

FairSpec == Spec /\ Fairness

-----------------------------------------------------------------------------
(* Properties                                                               *)

EventType == [action : Actions, key : Keys, at : Nat]

WorkType ==
    {Idle}
    \cup [stage : {"received", "stored"}, batch : SUBSET Events]
    \cup [stage : {"open"}, batch : SUBSET Events, seen : SUBSET Events,
          counted : SUBSET Keys, waved : SUBSET Keys]

SyncType == [at : Int, page : [Keys -> {"unread", "in", "out"}]]

TypeOK ==
    /\ truth \in [Keys -> BOOLEAN]
    /\ clock \in Nat
    /\ silent \in Nat
    /\ log \in [Events -> EventType \cup {NoEvent}]
    /\ queue \in [Events -> {"unsent", "visible", "inflight", "deleted"}]
    /\ local \in [Keys -> BOOLEAN]
    /\ change \in [Keys -> Int]
    /\ exposure \in [Keys -> Nat]
    /\ dismissed \subseteq Keys
    /\ processed \subseteq Events
    /\ work \in [Workers -> WorkType]
    /\ sync \in [Refreshers -> SyncType \cup {NoSync}]
    /\ faults \in Nat

\* Impressions are counted exactly once each, although messages are delivered
\* twice, resent, retried, and two workers may count one suggestion at a time.
CountsExact ==
    \A k \in Keys : exposure[k] =
        Cardinality({e \in processed : log[e].action = "impression"
                                       /\ log[e].key = k})

\* A message leaves the queue only once its event is stored, or if it cannot be
\* read, however batches mix the two and whatever fails.
StoredBeforeDelete ==
    \A e \in Events : queue[e] = "deleted" => e \in processed \/ Unreadable(e)

\* When every event sent has been processed, in whatever order and however the
\* resync fell between them, the worker's memberships are the backend's.
Converged ==
    silent = 0 /\ (\A e \in Events : queue[e] # "unsent" /\ ~Unreadable(e)
                                        => e \in processed)
        => local = truth

\* A membership changes only with a later change on record: neither a stale
\* event nor a snapshot takes one back.
ChangesGoForward ==
    [][\A k \in Keys : /\ change'[k] >= change[k]
                       /\ local'[k] # local[k] => change'[k] > change[k]]_vars

\* Every event the backend sends is stored in the end, also from a batch with
\* messages that cannot be read, and those leave the queue.
EveryEventStored ==
    \A e \in Events :
        queue[e] = "visible" ~> IF Unreadable(e) THEN queue[e] = "deleted"
                                ELSE e \in processed
=============================================================================
