------------------------------ MODULE RecRefresh ------------------------------
(***************************************************************************)
(* How suggestions reach the backend (consumer.py, recompute_service.py).   *)
(* In every worker the events consumer rescores the user of an event it     *)
(* stored, while the refresh loop, under a Redis lock, resyncs the tables   *)
(* and rescores everyone.  A rescore reads the tables, then replaces the    *)
(* suggestions at the backend: the last one to arrive stands, whichever     *)
(* tables it saw.                                                           *)
(*                                                                          *)
(* RecSignals models how the tables change; here a user's rows are a        *)
(* version, and whether one of them is a membership.                        *)
(***************************************************************************)
EXTENDS Naturals, FiniteSets, Functions

CONSTANTS
    Workers,        \* processes, each with a consumer and a refresh loop
    Users,          \* those the tables may speak of
    BatchSize,      \* _FULL_RESCORE_BATCH
    Interval,       \* the refresh interval, in units of _REFRESH_RETRY_SECONDS
    RefreshEnabled, \* RECOMMENDATION_FULL_REFRESH_ENABLED
    MaxSignals,     \* bound: changes of the users' rows
    MaxFaults       \* bound: the misfortunes of one behaviour

\* The lock's value is a token of one attempt.  An orphan's token is nobody's
\* any more: its owner died, could not release it, or never learned it had it.
Free   == "free"
Orphan == "orphan"

ASSUME ConstantsAssumption ==
    /\ Workers # {} /\ Workers \cap {Free, Orphan} = {}
    /\ BatchSize \in Nat \ {0}
    /\ Interval \in Nat \ {0}
    /\ RefreshEnabled \in BOOLEAN
    /\ MaxSignals \in Nat
    /\ MaxFaults \in Nat

VARIABLES
    catalog,     \* "empty" | "filled": rec_items
    signals,     \* [Users -> Nat]: version of a user's rows, 0 for none
    member,      \* users that have a membership row
    suggestions, \* [Users -> Nat]: the version the backend's were scored from
    lock,        \* the refresh lock: Free, its owner, or Orphan
    refresh,     \* [Workers -> Refreshes]: the refresh loop
    rescore,     \* [Workers -> Rescores]: the rescore of the consumer's batch
    late,        \* <<user, version>>: PUTs given up on that may still arrive
    faults,      \* misfortunes so far
    orphans      \* those of them that left a lock to its TTL

tableVars == <<catalog, signals, member>>
faultVars == <<faults, orphans>>
vars == <<catalog, signals, member, suggestions, lock, refresh, rescore, late,
          faults, orphans>>

NoScores == [u \in {} |-> 0]

\* A rescore: the users to do, and the versions scored and not yet pushed.
Rescores == [stage : {"idle", "scoring", "pushing"}, todo : SUBSET Users,
             scored : UNION {[S -> 0..MaxSignals] : S \in SUBSET Users}]
Idle     == [stage |-> "idle", todo |-> {}, scored |-> NoScores]

Awake     == {"syncing", "listing", "scoring", "pushing", "purging"}
Refreshes == [stage : {"asleep"} \cup Awake, todo : SUBSET Users,
              scored : UNION {[S -> 0..MaxSignals] : S \in SUBSET Users},
              locked : BOOLEAN, lapsed : BOOLEAN,
              wait : 0..Interval, retry : 1..Interval]

-----------------------------------------------------------------------------
(* Faults                                                                   *)

Healthy == UNCHANGED faultVars
Glitch  == faults < MaxFaults /\ faults' = faults + 1 /\ UNCHANGED orphans
Orphans == faults < MaxFaults /\ faults' = faults + 1 /\ orphans' = orphans + 1

-----------------------------------------------------------------------------
(* Tables and pushes, for consumer and refresh alike                        *)

\* The rows of the users in U change, and J are those with a membership.
Signal(U, J) ==
    /\ FoldFunction(+, 0, signals) + Cardinality(U) <= MaxSignals
    /\ signals' = [u \in Users |-> IF u \in U THEN signals[u] + 1 ELSE signals[u]]
    /\ member' = (member \ U) \cup J

\* One pass over the tables for the users in S; s is the rescore it is part of.
Scored(s, S) == [s EXCEPT !.stage = "pushing", !.todo = @ \ S,
                          !.scored = [u \in S |-> signals[u]]]

\* The PUT of u has ended, whatever came of it.
Pushed(s, u) == [s EXCEPT !.scored =
                    [v \in DOMAIN s.scored \ {u} |-> s.scored[v]]]

\* The PUT succeeds; or fails, which is only logged; or fails for the client,
\* and the backend gets to it later.
Put(s, u) ==
    \/ /\ suggestions' = [suggestions EXCEPT ![u] = s.scored[u]]
       /\ UNCHANGED late
       /\ Healthy
    \/ /\ UNCHANGED <<suggestions, late>>
       /\ Glitch
    \/ /\ late' = late \cup {<<u, s.scored[u]>>}
       /\ UNCHANGED suggestions
       /\ Glitch

LatePutArrives(p) ==
    /\ p \in late
    /\ suggestions' = [suggestions EXCEPT ![p[1]] = p[2]]
    /\ late' = late \ {p}
    /\ UNCHANGED <<tableVars, lock, refresh, rescore, faultVars>>

-----------------------------------------------------------------------------
(* The events consumer                                                      *)

\* A batch is stored and its messages are deleted: u joins, leaves (the row of
\* the change stays) or dismisses something, and is to be rescored.
Store(w, u) ==
    /\ rescore[w] = Idle
    /\ Signal({u}, {u}) \/ Signal({u}, {}) \/ Signal({u}, member \cap {u})
    /\ rescore' = [rescore EXCEPT ![w].stage = "scoring", ![w].todo = {u}]
    /\ UNCHANGED <<catalog, suggestions, lock, refresh, late, faultVars>>

ConsumerScores(w) ==
    /\ rescore[w].stage = "scoring"
    /\ rescore' = [rescore EXCEPT ![w] = Scored(@, rescore[w].todo)]
    /\ UNCHANGED <<tableVars, suggestions, lock, refresh, late, faultVars>>

ConsumerPushes(w, u) ==
    /\ rescore[w].stage = "pushing"
    /\ u \in DOMAIN rescore[w].scored
    /\ Put(rescore[w], u)
    /\ rescore' = [rescore EXCEPT ![w] =
                    IF DOMAIN @.scored = {u} THEN Idle ELSE Pushed(@, u)]
    /\ UNCHANGED <<tableVars, lock, refresh>>

\* Scoring raises.  The events are stored and gone: nothing scores them again.
ConsumerFails(w) ==
    /\ rescore[w].stage = "scoring"
    /\ rescore' = [rescore EXCEPT ![w] = Idle]
    /\ Glitch
    /\ UNCHANGED <<tableVars, suggestions, lock, refresh, late>>

-----------------------------------------------------------------------------
(* The refresh loop: run_full_refresh                                       *)

Running(w) == refresh[w].stage \in Awake

Sleep(w, wait, retry) ==
    refresh' = [refresh EXCEPT ![w] =
        [stage |-> "asleep", todo |-> {}, scored |-> NoScores, locked |-> FALSE,
         lapsed |-> FALSE, wait |-> wait, retry |-> retry]]

Start(w, locked) ==
    refresh' = [refresh EXCEPT ![w].stage = "syncing", ![w].locked = locked,
                               ![w].wait = Interval]

\* The wait is over, and the loop asks for the lock: it gets it; or another
\* worker has it, which counts as a refresh done; or Redis cannot be reached,
\* maybe after it set the lock, and the refresh runs without one; or the client
\* library repeats a SET that was done, and the lock seems another's.
Wake(w) ==
    /\ RefreshEnabled
    /\ ~Running(w)
    /\ \/ /\ lock = Free
          /\ lock' = w
          /\ Start(w, TRUE)
          /\ Healthy
       \/ /\ lock # Free
          /\ Sleep(w, Interval, 1)
          /\ UNCHANGED lock
          /\ Healthy
       \/ /\ Start(w, FALSE)
          /\ UNCHANGED lock
          /\ Glitch
       \/ /\ lock = Free
          /\ lock' = Orphan
          /\ Start(w, FALSE) \/ Sleep(w, Interval, 1)
          /\ Orphans
    /\ UNCHANGED <<tableVars, suggestions, rescore, late>>

\* full_resync: everything fetched, then applied.  Rows that differ change.
Sync(w) ==
    /\ refresh[w].stage = "syncing"
    /\ catalog' = "filled"
    /\ \/ UNCHANGED <<signals, member>>
       \/ \E u \in Users : Signal({u}, {u}) \/ Signal({u}, {})
    /\ refresh' = [refresh EXCEPT ![w].stage = "listing"]
    /\ UNCHANGED <<suggestions, lock, rescore, late, faultVars>>

\* Mutant: only users with a membership are listed.
AllUsersMembers == member

\* _all_user_ids: everyone with a row in any of the four tables.
AllUsers == {u \in Users : signals[u] > 0}

List(w) ==
    /\ refresh[w].stage = "listing"
    /\ refresh' = [refresh EXCEPT ![w].todo = AllUsers,
                    ![w].stage = IF AllUsers = {} THEN "purging" ELSE "scoring"]
    /\ UNCHANGED <<tableVars, suggestions, lock, rescore, late, faultVars>>

RefreshScores(w) ==
    /\ refresh[w].stage = "scoring"
    /\ \E S \in SUBSET refresh[w].todo :
          /\ S # {} /\ Cardinality(S) <= BatchSize
          /\ S = refresh[w].todo \/ Cardinality(S) = BatchSize
          /\ refresh' = [refresh EXCEPT ![w] = Scored(@, S)]
    /\ UNCHANGED <<tableVars, suggestions, lock, rescore, late, faultVars>>

RefreshPushes(w, u) ==
    /\ refresh[w].stage = "pushing"
    /\ u \in DOMAIN refresh[w].scored
    /\ Put(refresh[w], u)
    /\ LET s == Pushed(refresh[w], u) IN
       refresh' = [refresh EXCEPT ![w] =
                     [s EXCEPT !.stage = IF DOMAIN s.scored # {} THEN "pushing"
                                         ELSE IF s.todo # {} THEN "scoring"
                                         ELSE "purging"]]
    /\ UNCHANGED <<tableVars, lock, rescore>>

\* Mutant: the lock is deleted whoever has it.
ReleaseAny(w) ==
    /\ lock' = IF refresh[w].locked THEN Free ELSE lock
    /\ Healthy

\* The lock is given back if this refresh got it and its token is still there.
\* A Redis error leaves it to its TTL.
Release(w) ==
    \/ /\ lock' = IF refresh[w].locked /\ lock = w THEN Free ELSE lock
       /\ Healthy
    \/ /\ refresh[w].locked /\ lock = w
       /\ lock' = Orphan
       /\ Orphans

\* _purge_processed, and the refresh is done.
Finish(w) ==
    /\ refresh[w].stage = "purging"
    /\ Release(w)
    /\ Sleep(w, Interval, 1)
    /\ UNCHANGED <<tableVars, suggestions, rescore, late>>

\* Mutant: a failed refresh waits like a finished one.
BackoffNever(w) == Sleep(w, Interval, 1)

\* The wait after a failure doubles each time, up to the interval.
Backoff(w) ==
    LET next == 2 * refresh[w].retry
    IN  Sleep(w, refresh[w].retry, IF next > Interval THEN Interval ELSE next)

\* The backend, the database or the purge raises: failed pushes do not.  When
\* Redis fails too, the lock is an orphan.
Fail(w) ==
    /\ refresh[w].stage \in {"syncing", "listing", "scoring", "purging"}
    /\ \/ /\ lock' = IF refresh[w].locked /\ lock = w THEN Free ELSE lock
          /\ Glitch
       \/ /\ refresh[w].locked /\ lock = w
          /\ lock' = Orphan
          /\ Orphans
    /\ Backoff(w)
    /\ UNCHANGED <<tableVars, suggestions, rescore, late>>

-----------------------------------------------------------------------------
(* Time and restarts                                                        *)

\* RECOMMENDATION_FULL_REFRESH_LOCK_TTL_SECONDS run out, on an orphan or on a
\* refresh that takes longer.
LockExpires ==
    /\ lock # Free
    /\ lock' = Free
    /\ IF lock \in Workers
       THEN /\ refresh' = [refresh EXCEPT ![lock].lapsed = TRUE]
            /\ Glitch
       ELSE UNCHANGED refresh /\ Healthy
    /\ UNCHANGED <<tableVars, suggestions, rescore, late>>

\* The process stops anywhere and starts again: an empty catalog is refreshed
\* at once.  A PUT under way may still arrive.
Restart(w) ==
    /\ Running(w) \/ rescore[w] # Idle
    /\ IF lock = w THEN lock' = Orphan /\ Orphans ELSE UNCHANGED lock /\ Glitch
    /\ Sleep(w, IF catalog = "empty" THEN 0 ELSE Interval, 1)
    /\ rescore' = [rescore EXCEPT ![w] = Idle]
    /\ late' = late \/ late' = late \cup
                 {<<u, refresh[w].scored[u]>> : u \in DOMAIN refresh[w].scored}
                 \cup {<<u, rescore[w].scored[u]>> : u \in DOMAIN rescore[w].scored}
    /\ UNCHANGED <<tableVars, suggestions>>

-----------------------------------------------------------------------------

\* A fresh install.
Init ==
    /\ catalog = "empty"
    /\ signals = [u \in Users |-> 0]
    /\ member = {}
    /\ suggestions = [u \in Users |-> 0]
    /\ lock = Free
    /\ refresh = [w \in Workers |->
         [stage |-> "asleep", todo |-> {}, scored |-> NoScores, locked |-> FALSE,
          lapsed |-> FALSE, wait |-> 0, retry |-> 1]]
    /\ rescore = [w \in Workers |-> Idle]
    /\ late = {}
    /\ faults = 0
    /\ orphans = 0

Rescore(w) ==
    \/ ConsumerScores(w)
    \/ \E u \in Users : ConsumerPushes(w, u)
    \/ ConsumerFails(w)

Refresh(w) ==
    \/ Sync(w)
    \/ List(w)
    \/ RefreshScores(w)
    \/ \E u \in Users : RefreshPushes(w, u)
    \/ Finish(w)
    \/ Fail(w)

Next ==
    \/ \E w \in Workers, u \in Users : Store(w, u)
    \/ \E w \in Workers : Rescore(w) \/ Wake(w) \/ Refresh(w) \/ Restart(w)
    \/ LockExpires
    \/ \E u \in Users, v \in 0..MaxSignals : LatePutArrives(<<u, v>>)

Spec == Init /\ [][Next]_vars

\* Waits end, and so does what a worker awaits; an orphan expires; a PUT given
\* up on arrives by and by or never, but within the timeouts of the network.
Fairness ==
    /\ \A w \in Workers :
          WF_vars(Rescore(w)) /\ WF_vars(Wake(w)) /\ WF_vars(Refresh(w))
    /\ WF_vars(lock = Orphan /\ LockExpires)

FairSpec == Spec /\ Fairness

-----------------------------------------------------------------------------
(* Properties                                                               *)

TypeOK ==
    /\ catalog \in {"empty", "filled"}
    /\ signals \in [Users -> 0..MaxSignals]
    /\ member \subseteq Users
    /\ suggestions \in [Users -> 0..MaxSignals]
    /\ lock \in {Free, Orphan} \cup Workers
    /\ \A w \in Workers :
          /\ refresh[w] \in Refreshes
          /\ rescore[w] \in Rescores
    /\ late \subseteq Users \X (0..MaxSignals)
    /\ faults \in Nat
    /\ orphans \in Nat

\* A refresh that got the lock holds it until it ends, unless it outlasted the
\* TTL: no other refresh, however it ends, takes it away, not even one whose
\* own lock had expired (the token, _release_refresh_lock).
HoldersHold ==
    \A w \in Workers : Running(w) /\ refresh[w].locked /\ ~refresh[w].lapsed
                        => lock = w

\* A fresh install never has all its workers wait a whole interval for their
\* catalog, as run_recommendation_full_refresh_loop promises: until the backoff
\* has grown to the interval, and unless a lock was orphaned, so that the
\* others skipped their refresh for one that no longer ran.
FreshInstallRetriesSoon ==
    RefreshEnabled /\ catalog = "empty" /\ orphans = 0
        => \E w \in Workers : \/ Running(w)
                               \/ refresh[w].wait < Interval
                               \/ refresh[w].retry = Interval

\* Once the changes and the misfortunes end, everyone's suggestions at the
\* backend come from the rows as they are, for good: whatever a failed rescore
\* or push missed, or an older one overwrote, a refresh puts right, also for a
\* user who has left their last space.
SuggestionsCatchUp ==
    RefreshEnabled => <>[](suggestions = signals)
=============================================================================
