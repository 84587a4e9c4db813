--------------------------- MODULE RecRefreshProofs ---------------------------
(***************************************************************************)
(* Proofs about RecRefresh for any fleet, users and number of faults: who    *)
(* holds the lock, and how soon a fresh install tries again; and about       *)
(* Scoring for any rows, catalog and weights: what the reason shown is, and   *)
(* what dismissing an item does to the others.                              *)
(***************************************************************************)
EXTENDS RecRefresh, Scoring, FiniteSetTheorems, WellFoundedInduction, TLAPS

-----------------------------------------------------------------------------
(* The inductive invariant                                                  *)

Versions == UNION {[S -> Nat] : S \in SUBSET Users}
Loops    == [stage : {"asleep"} \cup Awake, todo : SUBSET Users, scored : Versions,
             locked : BOOLEAN, lapsed : BOOLEAN, wait : 0..Interval,
             retry : 1..Interval]

\* The part of the type invariant the rest needs; the versions' bound is not.
ShapeInv ==
    /\ refresh \in [Workers -> Loops]
    /\ signals \in [Users -> Nat]
    /\ lock \in {Free, Orphan} \cup Workers
    /\ catalog \in {"empty", "filled"}
    /\ orphans \in Nat

\* Who sleeps holds nothing.
SleepInv == \A w \in Workers : ~Running(w) => ~refresh[w].lapsed

\* A worker's token is in Redis only while its refresh runs and knows it has it.
TokenInv ==
    \A w \in Workers :
        lock = w => Running(w) /\ refresh[w].locked /\ ~refresh[w].lapsed

\* An orphaned lock was counted.
OrphanInv == lock = Orphan => orphans > 0

\* Past the sync there is a catalog.
CatalogInv ==
    \A w \in Workers :
        refresh[w].stage \in Awake \ {"syncing"} => catalog = "filled"

\* A worker that runs, or will before a whole interval has passed.
Soon(w) == Running(w) \/ refresh[w].wait < Interval \/ refresh[w].retry = Interval

RetryInv == catalog = "empty" /\ orphans = 0 => \E w \in Workers : Soon(w)

IInv == /\ ShapeInv /\ SleepInv /\ TokenInv /\ HoldersHold
        /\ OrphanInv /\ CatalogInv /\ RetryInv

-----------------------------------------------------------------------------
(* The pieces of a step                                                     *)

LEMMA LockFacts == Free # Orphan /\ \A w \in Workers : w # Free /\ w # Orphan
BY ConstantsAssumption DEF Free, Orphan

LEMMA OrphansGrow ==
    ASSUME ShapeInv, Healthy \/ Glitch \/ Orphans
    PROVE  /\ orphans' \in Nat
           /\ orphans' = 0 => orphans = 0
           /\ orphans > 0 => orphans' > 0
           /\ Orphans => orphans' > 0
BY DEF ShapeInv, Healthy, Glitch, Orphans, faultVars

LEMMA NoScoresType == NoScores \in Versions
<1>1. NoScores \in [{} -> Nat] /\ {} \in SUBSET Users
      BY DEF NoScores
<1>2. QED BY <1>1, Zenon DEF Versions

LEMMA SleepEffect ==
    ASSUME ShapeInv, NEW w \in Workers, NEW wait \in 0..Interval,
           NEW retry \in 1..Interval, Sleep(w, wait, retry)
    PROVE  /\ refresh' \in [Workers -> Loops]
           /\ refresh'[w].stage = "asleep" /\ ~refresh'[w].locked
           /\ ~refresh'[w].lapsed
           /\ refresh'[w].wait = wait /\ refresh'[w].retry = retry
           /\ \A v \in Workers \ {w} : refresh'[v] = refresh[v]
<1>1. NoScores \in Versions
      BY NoScoresType
<1> DEFINE r == [stage |-> "asleep", todo |-> {}, scored |-> NoScores,
                 locked |-> FALSE, lapsed |-> FALSE, wait |-> wait,
                 retry |-> retry]
<1>2. r \in Loops
      BY <1>1 DEF Loops
<1>3. QED BY <1>2 DEF Sleep, ShapeInv

LEMMA StartEffect ==
    ASSUME ShapeInv, NEW w \in Workers, NEW locked \in BOOLEAN, Start(w, locked)
    PROVE  /\ refresh' \in [Workers -> Loops]
           /\ refresh'[w].stage = "syncing" /\ refresh'[w].locked = locked
           /\ refresh'[w].lapsed = refresh[w].lapsed
           /\ \A v \in Workers \ {w} : refresh'[v] = refresh[v]
<1> DEFINE r == [refresh[w] EXCEPT !.stage = "syncing", !.locked = locked,
                                   !.wait = Interval]
<1>1. refresh[w] \in Loops
      BY DEF ShapeInv
<1>2. Interval \in 0..Interval
      BY ConstantsAssumption
<1>3. /\ r \in Loops /\ r.stage = "syncing" /\ r.locked = locked
      /\ r.lapsed = refresh[w].lapsed
      BY <1>1, <1>2 DEF Loops, Awake
<1>4. refresh' = [refresh EXCEPT ![w] = r]
      BY <1>1 DEF Start, ShapeInv
<1>5. QED BY <1>3, <1>4 DEF ShapeInv

\* A step of w's refresh that does not end it: the lock stays as it is.
LEMMA RunsOn ==
    ASSUME IInv, NEW w \in Workers, Running(w), UNCHANGED lock,
           refresh' \in [Workers -> Loops],
           refresh'[w].stage \in Awake \ {"syncing"},
           refresh'[w].locked = refresh[w].locked,
           refresh'[w].lapsed = refresh[w].lapsed,
           \A v \in Workers \ {w} : refresh'[v] = refresh[v],
           signals' \in [Users -> Nat], catalog' = "filled",
           Healthy \/ Glitch
    PROVE  IInv'
<1>1. ShapeInv /\ SleepInv /\ TokenInv /\ HoldersHold /\ OrphanInv
      BY DEF IInv
<1>2. orphans' \in Nat /\ (orphans > 0 => orphans' > 0)
      BY <1>1, OrphansGrow
<1>3. ShapeInv'
      BY <1>1, <1>2 DEF ShapeInv
<1>4. \A v \in Workers : Running(v)' <=> Running(v)
      BY DEF Running
<1>5. SleepInv' /\ TokenInv' /\ HoldersHold'
      BY <1>1, <1>4 DEF SleepInv, TokenInv, HoldersHold
<1>6. OrphanInv' /\ CatalogInv' /\ RetryInv'
      BY <1>1, <1>2 DEF OrphanInv, CatalogInv, RetryInv
<1>7. QED BY <1>3, <1>5, <1>6 DEF IInv

\* A step of w that ends its refresh, or does not start one.  The lock is w's no
\* more, and nobody else's was taken.
LEMMA Retires ==
    ASSUME IInv, NEW w \in Workers,
           NEW wait \in 0..Interval, NEW retry \in 1..Interval,
           Sleep(w, wait, retry),
           UNCHANGED <<signals, catalog>>,
           \/ lock' = lock /\ lock # w /\ (Healthy \/ Glitch)
           \/ lock = w /\ lock' = Free /\ (Healthy \/ Glitch)
           \/ lock \in {Free, w} /\ lock' = Orphan /\ Orphans,
           catalog = "empty" /\ orphans' = 0 =>
               \/ wait < Interval \/ retry = Interval
               \/ lock \in Workers \ {w}
    PROVE  IInv'
<1>1. ShapeInv /\ SleepInv /\ TokenInv /\ HoldersHold /\ OrphanInv /\ CatalogInv
      BY DEF IInv
<1>2. /\ refresh' \in [Workers -> Loops]
      /\ refresh'[w].stage = "asleep" /\ ~refresh'[w].locked
      /\ ~refresh'[w].lapsed
      /\ refresh'[w].wait = wait /\ refresh'[w].retry = retry
      /\ \A v \in Workers \ {w} : refresh'[v] = refresh[v]
      BY <1>1, SleepEffect
<1>3. /\ orphans' \in Nat /\ (orphans > 0 => orphans' > 0)
      /\ Orphans => orphans' > 0
      BY <1>1, OrphansGrow
<1>4. ~Running(w)' /\ \A v \in Workers \ {w} : Running(v)' <=> Running(v)
      BY <1>2 DEF Running, Awake
<1>5. ShapeInv'
      BY <1>1, <1>2, <1>3 DEF ShapeInv
<1>6. SleepInv'
      BY <1>1, <1>2, <1>4 DEF SleepInv
<1>7. lock' # w /\ \A v \in Workers \ {w} : lock' = v <=> lock = v
      BY LockFacts
<1>8. TokenInv' /\ HoldersHold'
      BY <1>1, <1>2, <1>4, <1>7 DEF TokenInv, HoldersHold
<1>9. OrphanInv'
      BY <1>1, <1>3, LockFacts DEF OrphanInv
<1>10. CatalogInv'
      BY <1>1, <1>2 DEF CatalogInv, Awake
<1>11. RetryInv'
  <2>1. ASSUME catalog = "empty", orphans' = 0
        PROVE  \E v \in Workers : Soon(v)'
    <3>1. CASE wait < Interval \/ retry = Interval
          BY <1>2, <3>1 DEF Soon
    <3>2. CASE lock \in Workers \ {w}
      <4>1. PICK v \in Workers \ {w} : v = lock
            BY <3>2
      <4>2. Running(v)'
            BY <1>1, <1>4, <4>1 DEF TokenInv
      <4>3. QED BY <4>2 DEF Soon
    <3>3. QED BY <2>1, <3>1, <3>2
  <2>2. QED BY <2>1 DEF RetryInv
<1>12. QED BY <1>5, <1>6, <1>8, <1>9, <1>10, <1>11 DEF IInv

\* A step beside the refresh loops.
LEMMA Beside ==
    ASSUME IInv, UNCHANGED <<refresh, lock, catalog>>,
           signals' \in [Users -> Nat], Healthy \/ Glitch
    PROVE  IInv'
<1>1. orphans' \in Nat /\ (orphans > 0 => orphans' > 0) /\ (orphans' = 0 => orphans = 0)
      BY OrphansGrow DEF IInv
<1>2. ShapeInv'
      BY <1>1 DEF IInv, ShapeInv
<1>3. \A w \in Workers : (Running(w)' <=> Running(w)) /\ (Soon(w)' <=> Soon(w))
      BY DEF Running, Soon
<1>4. SleepInv' /\ TokenInv' /\ HoldersHold'
      BY <1>3 DEF IInv, SleepInv, TokenInv, HoldersHold
<1>5. OrphanInv' /\ CatalogInv' /\ RetryInv'
      BY <1>1, <1>3 DEF IInv, OrphanInv, CatalogInv, RetryInv
<1>6. QED BY <1>2, <1>4, <1>5 DEF IInv

LEMMA SignalType ==
    ASSUME ShapeInv, NEW U \in SUBSET Users, NEW J, Signal(U, J)
    PROVE  signals' \in [Users -> Nat]
<1>1. signals' = [u \in Users |-> IF u \in U THEN signals[u] + 1 ELSE signals[u]]
      BY Zenon DEF Signal
<1>2. QED BY <1>1 DEF ShapeInv

-----------------------------------------------------------------------------
(* The actions                                                              *)

LEMMA StoreKeeps ==
    ASSUME IInv, NEW w \in Workers, NEW u \in Users, Store(w, u)
    PROVE  IInv'
<1>1. ShapeInv
      BY DEF IInv
<1>2. signals' \in [Users -> Nat]
      BY <1>1, SignalType DEF Store
<1>3. QED BY <1>2, Beside DEF Store, Healthy

LEMMA RescoreKeeps ==
    ASSUME IInv, NEW w \in Workers, Rescore(w)
    PROVE  IInv'
<1>1. UNCHANGED <<refresh, lock, catalog, signals>> /\ (Healthy \/ Glitch)
  <2>1. CASE ConsumerScores(w)
        BY <2>1 DEF ConsumerScores, tableVars, Healthy
  <2>2. ASSUME NEW u \in Users, ConsumerPushes(w, u)
        PROVE  UNCHANGED <<refresh, lock, catalog, signals>> /\ (Healthy \/ Glitch)
        BY <2>2 DEF ConsumerPushes, Put, tableVars
  <2>3. CASE ConsumerFails(w)
        BY <2>3 DEF ConsumerFails, tableVars
  <2>4. QED BY <2>1, <2>2, <2>3 DEF Rescore
<1>2. signals' \in [Users -> Nat]
      BY <1>1 DEF IInv, ShapeInv
<1>3. QED BY <1>1, <1>2, Beside

LEMMA LatePutKeeps ==
    ASSUME IInv, NEW p, LatePutArrives(p)
    PROVE  IInv'
<1>1. UNCHANGED <<refresh, lock, catalog, signals>> /\ Healthy
      BY DEF LatePutArrives, tableVars, Healthy
<1>2. signals' \in [Users -> Nat]
      BY <1>1 DEF IInv, ShapeInv
<1>3. QED BY <1>1, <1>2, Beside

\* A refresh starts, with the lock or without.
LEMMA StartKeeps ==
    ASSUME IInv, NEW w \in Workers, ~Running(w), NEW locked \in BOOLEAN,
           Start(w, locked), UNCHANGED tableVars,
           \/ locked /\ lock = Free /\ lock' = w /\ Healthy
           \/ ~locked /\ lock' = lock /\ Glitch
           \/ ~locked /\ lock = Free /\ lock' = Orphan /\ Orphans
    PROVE  IInv'
<1>1. ShapeInv /\ SleepInv /\ TokenInv /\ HoldersHold /\ OrphanInv /\ CatalogInv
      BY DEF IInv
<1>2. /\ refresh' \in [Workers -> Loops]
      /\ refresh'[w].stage = "syncing" /\ refresh'[w].locked = locked
      /\ refresh'[w].lapsed = refresh[w].lapsed
      /\ \A v \in Workers \ {w} : refresh'[v] = refresh[v]
      BY <1>1, StartEffect
<1>3. /\ orphans' \in Nat /\ (orphans > 0 => orphans' > 0)
      /\ Orphans => orphans' > 0
      BY <1>1, OrphansGrow
<1>4. Running(w)' /\ \A v \in Workers \ {w} : Running(v)' <=> Running(v)
      BY <1>2 DEF Running, Awake
<1>5. ~refresh'[w].lapsed /\ lock # w
      BY <1>1, <1>2 DEF SleepInv, TokenInv
<1>6. lock \in {Free, Orphan} \cup Workers /\ lock' \in {Free, Orphan} \cup Workers
      BY <1>1 DEF ShapeInv
<1>7. ShapeInv'
      BY <1>1, <1>2, <1>3, <1>6 DEF ShapeInv, tableVars
<1>8. SleepInv'
      BY <1>1, <1>2, <1>4 DEF SleepInv
<1>9. /\ lock' = w <=> locked
      /\ \A v \in Workers \ {w} : lock' = v <=> lock = v
      BY <1>5, LockFacts
<1>10. TokenInv' /\ HoldersHold'
      BY <1>1, <1>2, <1>4, <1>5, <1>9 DEF TokenInv, HoldersHold
<1>11. OrphanInv'
      BY <1>1, <1>3, LockFacts DEF OrphanInv
<1>12. CatalogInv'
      BY <1>1, <1>2 DEF CatalogInv, tableVars
<1>13. RetryInv'
      BY <1>4 DEF RetryInv, Soon
<1>14. QED BY <1>7, <1>8, <1>10, <1>11, <1>12, <1>13 DEF IInv

LEMMA WakeKeeps ==
    ASSUME IInv, NEW w \in Workers, Wake(w)
    PROVE  IInv'
<1>1. ShapeInv /\ TokenInv /\ OrphanInv /\ ~Running(w) /\ UNCHANGED tableVars
      BY DEF IInv, Wake
<1>2. CASE lock # Free /\ Sleep(w, Interval, 1) /\ UNCHANGED lock /\ Healthy
  <2>1. lock # w
        BY <1>1 DEF TokenInv
  <2>2. Interval \in 0..Interval /\ 1 \in 1..Interval
        BY ConstantsAssumption
  <2>3. orphans' = 0 => lock \in Workers \ {w}
        BY <1>1, <1>2, <2>1 DEF OrphanInv, ShapeInv, Healthy, faultVars
  <2>4. QED BY <1>1, <1>2, <2>1, <2>2, <2>3, Retires DEF tableVars
<1>3. CASE \/ lock = Free /\ lock' = w /\ Start(w, TRUE) /\ Healthy
           \/ Start(w, FALSE) /\ UNCHANGED lock /\ Glitch
           \/ lock = Free /\ lock' = Orphan /\ Start(w, FALSE) /\ Orphans
      BY <1>1, <1>3, StartKeeps
<1>4. CASE lock = Free /\ lock' = Orphan /\ Sleep(w, Interval, 1) /\ Orphans
  <2>1. Interval \in 0..Interval /\ 1 \in 1..Interval
        BY ConstantsAssumption
  <2>2. orphans' # 0
        BY <1>1, <1>4, OrphansGrow
  <2>3. QED BY <1>1, <1>4, <2>1, <2>2, Retires DEF tableVars
<1>5. QED BY <1>2, <1>3, <1>4 DEF Wake

LEMMA SyncKeeps ==
    ASSUME IInv, NEW w \in Workers, Sync(w)
    PROVE  IInv'
<1>1. ShapeInv
      BY DEF IInv
<1>2. Running(w)
      BY DEF Sync, Running, Awake
<1>3. signals' \in [Users -> Nat]
  <2>1. CASE UNCHANGED signals
        BY <1>1, <2>1 DEF ShapeInv
  <2>2. CASE \E u \in Users : Signal({u}, {u}) \/ Signal({u}, {})
        BY <1>1, <2>2, SignalType
  <2>3. QED BY <2>1, <2>2 DEF Sync
<1>4. /\ refresh' \in [Workers -> Loops] /\ refresh'[w].stage = "listing"
      /\ refresh'[w].locked = refresh[w].locked
      /\ refresh'[w].lapsed = refresh[w].lapsed
      /\ \A v \in Workers \ {w} : refresh'[v] = refresh[v]
      BY <1>1 DEF Sync, ShapeInv, Loops, Awake
<1>5. UNCHANGED lock /\ catalog' = "filled" /\ Healthy
      BY DEF Sync, Healthy
<1>6. "listing" \in Awake \ {"syncing"}
      BY DEF Awake
<1>7. QED BY <1>2, <1>3, <1>4, <1>5, <1>6, RunsOn

LEMMA ListKeeps ==
    ASSUME IInv, NEW w \in Workers, List(w)
    PROVE  IInv'
<1>1. ShapeInv /\ CatalogInv
      BY DEF IInv
<1>2. Running(w) /\ catalog = "filled"
      BY <1>1 DEF List, Running, Awake, CatalogInv
<1> DEFINE r == [refresh[w] EXCEPT !.todo = AllUsers,
                    !.stage = IF AllUsers = {} THEN "purging" ELSE "scoring"]
<1>3. /\ refresh' \in [Workers -> Loops] /\ refresh'[w].stage \in {"purging", "scoring"}
      /\ refresh'[w].locked = refresh[w].locked
      /\ refresh'[w].lapsed = refresh[w].lapsed
      /\ \A v \in Workers \ {w} : refresh'[v] = refresh[v]
  <2>1. refresh[w] \in Loops /\ AllUsers \in SUBSET Users
        BY <1>1 DEF ShapeInv, AllUsers
  <2>2. /\ r \in Loops /\ r.stage \in {"purging", "scoring"}
        /\ r.locked = refresh[w].locked /\ r.lapsed = refresh[w].lapsed
        BY <2>1 DEF Loops, Awake
  <2>3. refresh' = [refresh EXCEPT ![w] = r]
        BY <1>1 DEF List, ShapeInv
  <2> HIDE DEF r
  <2>4. QED BY <1>1, <2>2, <2>3 DEF ShapeInv
<1>4. UNCHANGED <<lock, signals, catalog>> /\ Healthy
      BY DEF List, Healthy, tableVars
<1>5. {"purging", "scoring"} \subseteq Awake \ {"syncing"}
      BY DEF Awake
<1>6. QED BY <1>1, <1>2, <1>3, <1>4, <1>5, RunsOn DEF ShapeInv

LEMMA ScoresKeeps ==
    ASSUME IInv, NEW w \in Workers, RefreshScores(w)
    PROVE  IInv'
<1>1. ShapeInv /\ CatalogInv
      BY DEF IInv
<1>2. Running(w) /\ catalog = "filled"
      BY <1>1 DEF RefreshScores, Running, Awake, CatalogInv
<1>3. PICK S \in SUBSET refresh[w].todo :
         refresh' = [refresh EXCEPT ![w] = Scored(@, S)]
      BY DEF RefreshScores
<1>4. S \in SUBSET Users
      BY <1>1 DEF ShapeInv, Loops
<1>5. [u \in S |-> signals[u]] \in Versions
      BY <1>1, <1>4 DEF ShapeInv, Versions
<1>6. /\ Scored(refresh[w], S) \in Loops
      /\ Scored(refresh[w], S).stage = "pushing"
      /\ Scored(refresh[w], S).locked = refresh[w].locked
      /\ Scored(refresh[w], S).lapsed = refresh[w].lapsed
      BY <1>1, <1>5 DEF ShapeInv, Loops, Scored, Awake
<1>7. /\ refresh' \in [Workers -> Loops] /\ refresh'[w].stage = "pushing"
      /\ refresh'[w].locked = refresh[w].locked
      /\ refresh'[w].lapsed = refresh[w].lapsed
      /\ \A v \in Workers \ {w} : refresh'[v] = refresh[v]
      BY <1>1, <1>3, <1>6 DEF ShapeInv
<1>8. UNCHANGED <<lock, signals, catalog>> /\ Healthy
      BY DEF RefreshScores, Healthy, tableVars
<1>9. "pushing" \in Awake \ {"syncing"}
      BY DEF Awake
<1>10. QED BY <1>1, <1>2, <1>7, <1>8, <1>9, RunsOn DEF ShapeInv

LEMMA PushesKeeps ==
    ASSUME IInv, NEW w \in Workers, NEW u \in Users, RefreshPushes(w, u)
    PROVE  IInv'
<1>1. ShapeInv /\ CatalogInv
      BY DEF IInv
<1>2. Running(w) /\ catalog = "filled"
      BY <1>1 DEF RefreshPushes, Running, Awake, CatalogInv
<1> DEFINE s == Pushed(refresh[w], u)
           r == [s EXCEPT !.stage = IF DOMAIN s.scored # {} THEN "pushing"
                                    ELSE IF s.todo # {} THEN "scoring"
                                    ELSE "purging"]
<1>3. refresh[w] \in Loops
      BY <1>1 DEF ShapeInv
<1>4. PICK S \in SUBSET Users : refresh[w].scored \in [S -> Nat]
      BY <1>3 DEF Loops, Versions
<1>5. [v \in DOMAIN refresh[w].scored \ {u} |-> refresh[w].scored[v]] \in Versions
  <2>1. [v \in DOMAIN refresh[w].scored \ {u} |-> refresh[w].scored[v]] \in [S \ {u} -> Nat]
        BY <1>4
  <2>2. S \ {u} \in SUBSET Users
        BY <1>4
  <2>3. QED BY <2>1, <2>2 DEF Versions
<1>6. s = [refresh[w] EXCEPT !.scored =
              [v \in DOMAIN refresh[w].scored \ {u} |-> refresh[w].scored[v]]]
      BY DEF Pushed
<1>7. s \in Loops /\ s.locked = refresh[w].locked /\ s.lapsed = refresh[w].lapsed
      BY <1>3, <1>5, <1>6 DEF Loops
<1>8. /\ r \in Loops /\ r.stage \in {"pushing", "scoring", "purging"}
      /\ r.locked = refresh[w].locked /\ r.lapsed = refresh[w].lapsed
  <2> HIDE DEF s
  <2>1. QED BY <1>7 DEF Loops, Awake
<1>9. refresh' = [refresh EXCEPT ![w] = r]
      BY DEF RefreshPushes
<1>10. /\ refresh' \in [Workers -> Loops]
       /\ refresh'[w].stage \in {"pushing", "scoring", "purging"}
       /\ refresh'[w].locked = refresh[w].locked
       /\ refresh'[w].lapsed = refresh[w].lapsed
       /\ \A v \in Workers \ {w} : refresh'[v] = refresh[v]
  <2> HIDE DEF r
  <2>1. QED BY <1>1, <1>8, <1>9 DEF ShapeInv
<1>11. UNCHANGED <<lock, signals, catalog>> /\ (Healthy \/ Glitch)
      BY DEF RefreshPushes, Put, tableVars
<1>12. {"pushing", "scoring", "purging"} \subseteq Awake \ {"syncing"}
      BY DEF Awake
<1>13. QED BY <1>1, <1>2, <1>10, <1>11, <1>12, RunsOn DEF ShapeInv

\* The two ways to end a refresh that was begun.
LEMMA FinishKeeps ==
    ASSUME IInv, NEW w \in Workers, Finish(w)
    PROVE  IInv'
<1>1. ShapeInv /\ TokenInv /\ CatalogInv
      BY DEF IInv
<1>2. catalog = "filled"
      BY <1>1 DEF Finish, CatalogInv, Awake
<1>3. Interval \in 0..Interval /\ 1 \in 1..Interval
      BY ConstantsAssumption
<1>4. lock = w => refresh[w].locked
      BY <1>1 DEF TokenInv
<1>5. \/ lock' = lock /\ lock # w /\ Healthy
      \/ lock = w /\ lock' = Free /\ Healthy
      \/ lock = w /\ lock' = Orphan /\ Orphans
      BY <1>4 DEF Finish, Release
<1>6. Sleep(w, Interval, 1) /\ UNCHANGED <<signals, catalog>>
      BY DEF Finish, tableVars
<1>7. QED BY <1>2, <1>3, <1>5, <1>6, Retires

LEMMA FailKeeps ==
    ASSUME IInv, NEW w \in Workers, Fail(w)
    PROVE  IInv'
<1> DEFINE wait  == refresh[w].retry
           retry == IF 2 * wait > Interval THEN Interval ELSE 2 * wait
<1>1. ShapeInv /\ TokenInv
      BY DEF IInv
<1>2. refresh[w].retry \in 1..Interval
      BY <1>1 DEF ShapeInv, Loops
<1>3. /\ wait \in 0..Interval /\ retry \in 1..Interval
      /\ wait < Interval \/ retry = Interval
      BY <1>2, ConstantsAssumption
<1>4. lock = w => refresh[w].locked
      BY <1>1 DEF TokenInv
<1>5. \/ lock' = lock /\ lock # w /\ Glitch
      \/ lock = w /\ lock' = Free /\ Glitch
      \/ lock = w /\ lock' = Orphan /\ Orphans
      BY <1>4 DEF Fail
<1>6. Sleep(w, wait, retry) /\ UNCHANGED <<signals, catalog>>
      BY DEF Fail, Backoff, tableVars
<1> HIDE DEF wait, retry
<1>7. QED BY <1>3, <1>5, <1>6, Retires

LEMMA RestartKeeps ==
    ASSUME IInv, NEW w \in Workers, Restart(w)
    PROVE  IInv'
<1> DEFINE wait == IF catalog = "empty" THEN 0 ELSE Interval
<1>1. /\ wait \in 0..Interval /\ 1 \in 1..Interval
      /\ catalog = "empty" => wait < Interval
      BY ConstantsAssumption
<1>2. \/ lock' = lock /\ lock # w /\ Glitch
      \/ lock = w /\ lock' = Orphan /\ Orphans
      BY DEF Restart
<1>3. Sleep(w, wait, 1) /\ UNCHANGED <<signals, catalog>>
      BY DEF Restart, tableVars
<1> HIDE DEF wait
<1>4. QED BY <1>1, <1>2, <1>3, Retires

\* A holder that outlasts its TTL knows no better, but its lapse is recorded.
LEMMA LockExpiresKeeps ==
    ASSUME IInv, LockExpires
    PROVE  IInv'
<1>1. ShapeInv /\ SleepInv /\ TokenInv /\ HoldersHold /\ CatalogInv /\ RetryInv
      BY DEF IInv
<1>2. lock' = Free /\ UNCHANGED tableVars /\ (Healthy \/ Glitch)
      BY DEF LockExpires
<1>3. orphans' \in Nat /\ (orphans' = 0 => orphans = 0)
      BY <1>1, <1>2, OrphansGrow
<1>4. /\ refresh' \in [Workers -> Loops]
      /\ \A v \in Workers :
            /\ refresh'[v].stage = refresh[v].stage
            /\ refresh'[v].wait = refresh[v].wait
            /\ refresh'[v].retry = refresh[v].retry
            /\ refresh'[v].locked = refresh[v].locked
            /\ refresh'[v].lapsed = (refresh[v].lapsed \/ v = lock)
  <2>1. CASE lock \in Workers /\ refresh' = [refresh EXCEPT ![lock].lapsed = TRUE]
    <3>1. refresh[lock] \in Loops /\ \A v \in Workers : refresh[v] \in Loops
          BY <1>1, <2>1 DEF ShapeInv
    <3>2. /\ [refresh[lock] EXCEPT !.lapsed = TRUE] \in Loops
          /\ [refresh[lock] EXCEPT !.lapsed = TRUE].stage = refresh[lock].stage
          /\ [refresh[lock] EXCEPT !.lapsed = TRUE].wait = refresh[lock].wait
          /\ [refresh[lock] EXCEPT !.lapsed = TRUE].retry = refresh[lock].retry
          /\ [refresh[lock] EXCEPT !.lapsed = TRUE].locked = refresh[lock].locked
          /\ [refresh[lock] EXCEPT !.lapsed = TRUE].lapsed = TRUE
          BY <3>1 DEF Loops
    <3>3. QED BY <1>1, <2>1, <3>1, <3>2 DEF ShapeInv, Loops
  <2>2. CASE lock \notin Workers /\ UNCHANGED refresh
    <3>1. \A v \in Workers : refresh[v].lapsed \in BOOLEAN /\ v # lock
          BY <1>1, <2>2 DEF ShapeInv, Loops
    <3>2. QED BY <1>1, <2>2, <3>1 DEF ShapeInv
  <2>3. QED BY <2>1, <2>2 DEF LockExpires
<1>5. \A v \in Workers : (Running(v)' <=> Running(v)) /\ (Soon(v)' <=> Soon(v))
      BY <1>4 DEF Running, Soon
<1>6. ShapeInv'
      BY <1>1, <1>2, <1>3, <1>4 DEF ShapeInv, tableVars
<1>7. SleepInv'
      BY <1>1, <1>4, <1>5 DEF SleepInv, TokenInv
<1>8. TokenInv' /\ OrphanInv'
      BY <1>2, LockFacts DEF TokenInv, OrphanInv
<1>9. HoldersHold'
      BY <1>1, <1>4, <1>5 DEF HoldersHold
<1>10. CatalogInv' /\ RetryInv'
      BY <1>1, <1>2, <1>3, <1>4, <1>5 DEF CatalogInv, RetryInv, tableVars
<1>11. QED BY <1>6, <1>7, <1>8, <1>9, <1>10 DEF IInv

-----------------------------------------------------------------------------
(* The specification                                                        *)

LEMMA InitHolds == ASSUME Init PROVE IInv
<1> DEFINE r == [stage |-> "asleep", todo |-> {}, scored |-> NoScores,
                 locked |-> FALSE, lapsed |-> FALSE, wait |-> 0, retry |-> 1]
<1>1. /\ refresh = [w \in Workers |-> r] /\ lock = Free /\ orphans = 0
      /\ signals = [u \in Users |-> 0] /\ catalog = "empty"
      BY DEF Init
<1>2. NoScores \in Versions /\ 0 \in 0..Interval /\ 1 \in 1..Interval /\ 0 < Interval
      BY ConstantsAssumption, NoScoresType
<1>3. r \in Loops
      BY <1>2 DEF Loops
<1>4. \A w \in Workers : /\ refresh[w].stage = "asleep" /\ ~refresh[w].lapsed
                         /\ refresh[w].wait = 0
      BY <1>1
<1>5. ShapeInv
      BY <1>1, <1>3 DEF ShapeInv
<1>6. SleepInv /\ HoldersHold /\ CatalogInv
      BY <1>4 DEF SleepInv, HoldersHold, CatalogInv, Running, Awake
<1>7. TokenInv /\ OrphanInv
      BY <1>1, LockFacts DEF TokenInv, OrphanInv
<1>8. RetryInv
      BY <1>2, <1>4, ConstantsAssumption DEF RetryInv, Soon
<1>9. QED BY <1>5, <1>6, <1>7, <1>8 DEF IInv

LEMMA StepKeeps == ASSUME IInv, [Next]_vars PROVE IInv'
<1>1. ASSUME NEW w \in Workers, Refresh(w)
      PROVE  IInv'
      BY <1>1, SyncKeeps, ListKeeps, ScoresKeeps, PushesKeeps, FinishKeeps, FailKeeps
         DEF Refresh
<1>2. CASE UNCHANGED vars
  <2>1. UNCHANGED <<refresh, lock, catalog, signals>> /\ Healthy
        BY <1>2 DEF vars, tableVars, faultVars, Healthy
  <2>2. signals' \in [Users -> Nat]
        BY <2>1 DEF IInv, ShapeInv
  <2>3. QED BY <2>1, <2>2, Beside
<1>3. QED BY <1>1, <1>2, StoreKeeps, RescoreKeeps, WakeKeeps, RestartKeeps,
             LockExpiresKeeps, LatePutKeeps DEF Next

\* The invariant that does induct: IInv, of which the others are parts.
THEOREM InvariantHolds == Spec => []IInv
BY InitHolds, StepKeeps, PTL DEF Spec

\* A refresh that got the lock and has not outlasted its TTL holds it
\* (_release_refresh_lock), for any fleet, batch size and number of faults.
THEOREM LockStaysWithHolder == Spec => []HoldersHold
<1>1. IInv => HoldersHold
      BY DEF IInv
<1>2. QED BY <1>1, InvariantHolds, PTL

\* On a fresh install, one worker tries again before a whole interval has passed
\* (run_recommendation_full_refresh_loop), unless the backoff has grown to the
\* interval or a lock was orphaned.
THEOREM SomebodyRetriesSoon == Spec => []FreshInstallRetriesSoon
<1>1. IInv => FreshInstallRetriesSoon
      BY DEF IInv, RetryInv, Soon, FreshInstallRetriesSoon
<1>2. QED BY <1>1, InvariantHolds, PTL

-----------------------------------------------------------------------------
(* Scoring: the n first of an order                                         *)

\* Who comes before i in E, and the n first of E.
Above(E, R, i)  == {j \in E : <<j, i>> \in R}
Top(E, R, n)    == {i \in E : Cardinality(Above(E, R, i)) < n}
\* R, a set of pairs, is a strict total order of E.
Orders(R, E)    ==
    /\ \A i \in E : <<i, i>> \notin R
    /\ \A i, j \in E : i # j => <<i, j>> \in R \/ <<j, i>> \in R
    /\ \A i, j, k \in E : <<i, j>> \in R /\ <<j, k>> \in R => <<i, k>> \in R

LEMMA LeastExists ==
    ASSUME NEW N \in SUBSET Nat, N # {}
    PROVE  \E n \in N : \A m \in N : n <= m
<1> DEFINE Less == OpToRel(<, Nat)
<1>1. IsWellFoundedOn(Less, Nat)
  BY NatLessThanWellFounded
<1> HIDE DEF Less
<1>2. PICK n \in N : \A m \in N : <<m, n>> \notin Less
  BY <1>1, WFMin, Zenon
<1>3. \A m \in N : ~(m < n)
  BY <1>2 DEF Less, OpToRel
<1> QED BY <1>3

LEMMA AboveFinite ==
    ASSUME NEW E, NEW R, NEW i, IsFiniteSet(E)
    PROVE  /\ IsFiniteSet(Above(E, R, i))
           /\ Cardinality(Above(E, R, i)) \in Nat
<1>1. Above(E, R, i) \in SUBSET E
  BY DEF Above
<1> QED BY <1>1, FS_Subset, FS_CardinalityType

\* Who comes before i comes with fewer before them.
LEMMA FewerAbove ==
    ASSUME NEW E, NEW R, IsFiniteSet(E), Orders(R, E),
           NEW i \in E, NEW j \in E, <<j, i>> \in R
    PROVE  Cardinality(Above(E, R, j)) < Cardinality(Above(E, R, i))
<1> DEFINE A == Above(E, R, i)
           B == Above(E, R, j)
<1>1. B \in SUBSET A /\ j \in A /\ j \notin B
  BY DEF Above, Orders
<1>2. IsFiniteSet(A) /\ Cardinality(A) \in Nat /\ Cardinality(B) \in Nat
  BY AboveFinite
<1> HIDE DEF A, B
<1>3. Cardinality(B) <= Cardinality(A) /\ (Cardinality(A) = Cardinality(B) => A = B)
  BY <1>1, <1>2, FS_Subset
<1>4. A # B
  BY <1>1
<1>5. Cardinality(B) < Cardinality(A)
  BY <1>2, <1>3, <1>4
<1> QED BY <1>5 DEF A, B

LEMMA FirstExists ==
    ASSUME NEW E, NEW R, IsFiniteSet(E), Orders(R, E),
           NEW T \in SUBSET E, T # {}
    PROVE  \E i \in T : \A j \in T : <<j, i>> \notin R
<1> DEFINE N == {Cardinality(Above(E, R, i)) : i \in T}
<1>1. N \in SUBSET Nat /\ N # {}
  BY AboveFinite
<1>2. PICK n \in N : \A m \in N : n <= m
  BY <1>1, LeastExists
<1>3. PICK i \in T : n = Cardinality(Above(E, R, i))
  BY <1>2
<1>4. ASSUME NEW j \in T, <<j, i>> \in R  PROVE FALSE
  <2>1. Cardinality(Above(E, R, j)) < Cardinality(Above(E, R, i))
    BY <1>4, FewerAbove
  <2>2. n <= Cardinality(Above(E, R, j))
    BY <1>2
  <2>3. Cardinality(Above(E, R, j)) \in Nat /\ Cardinality(Above(E, R, i)) \in Nat
    BY AboveFinite
  <2> QED BY <1>3, <2>1, <2>2, <2>3
<1> QED BY <1>4

LEMMA TopFinite ==
    ASSUME NEW E, NEW R, NEW n, IsFiniteSet(E)
    PROVE  /\ IsFiniteSet(Top(E, R, n))
           /\ Cardinality(Top(E, R, n)) \in Nat
<1>1. Top(E, R, n) \in SUBSET E
  BY DEF Top
<1> QED BY <1>1, FS_Subset, FS_CardinalityType

\* The last of the n best has fewer than n before it.
LEMMA TopAtMost ==
    ASSUME NEW E, NEW R, NEW n \in Nat, IsFiniteSet(E), Orders(R, E)
    PROVE  Cardinality(Top(E, R, n)) <= n
<1> DEFINE T       == Top(E, R, n)
           Left(i) == n - Cardinality(Above(E, R, i))
<1>1. CASE T = {}
  BY <1>1, FS_EmptySet
<1>2. CASE T # {}
  <2>1. \A i \in T : i \in E /\ Left(i) \in Nat /\ Cardinality(Above(E, R, i)) < n
                     /\ Cardinality(Above(E, R, i)) \in Nat
    BY AboveFinite DEF Top
  <2> DEFINE N == {Left(i) : i \in T}
  <2>2. N \in SUBSET Nat /\ N # {}
    BY <1>2, <2>1
  <2>3. PICK m \in N : \A k \in N : m <= k
    BY <2>2, LeastExists
  <2>4. PICK i \in T : m = Left(i)
    BY <2>3
  <2>5. \A j \in T : <<i, j>> \notin R
    <3> SUFFICES ASSUME NEW j \in T, <<i, j>> \in R  PROVE FALSE
      OBVIOUS
    <3>1. Cardinality(Above(E, R, i)) < Cardinality(Above(E, R, j))
      BY <2>1, FewerAbove
    <3>2. Left(i) <= Left(j)
      BY <2>3, <2>4
    <3> QED BY <2>1, <3>1, <3>2
  <2> DEFINE A == Above(E, R, i)
  <2>6. T \in SUBSET (A \cup {i})
    BY <2>1, <2>5 DEF Above, Orders
  <2>7. /\ IsFiniteSet(A \cup {i})
        /\ Cardinality(A \cup {i}) <= Cardinality(A) + 1
    BY AboveFinite, FS_AddElement
  <2>8. Cardinality(T) <= Cardinality(A \cup {i})
    BY <2>6, <2>7, FS_Subset
  <2>9. Cardinality(A) < n /\ Cardinality(A) \in Nat
    BY <2>1
  <2>10. Cardinality(T) \in Nat /\ Cardinality(A \cup {i}) \in Nat
    BY <2>7, TopFinite, FS_CardinalityType
  <2> HIDE DEF T, A
  <2> QED BY <2>7, <2>8, <2>9, <2>10 DEF T
<1> QED BY <1>1, <1>2

\* Unless all of them are among the n best, there are n of them.
LEMMA TopAtLeast ==
    ASSUME NEW E, NEW R, NEW n \in Nat, IsFiniteSet(E), Orders(R, E),
           ~ E \subseteq Top(E, R, n)
    PROVE  n <= Cardinality(Top(E, R, n))
<1> DEFINE T == Top(E, R, n)
<1>1. E \ T \in SUBSET E /\ E \ T # {}
  OBVIOUS
<1>2. PICK i \in E \ T : \A j \in E \ T : <<j, i>> \notin R
  BY <1>1, FirstExists
<1>3. Above(E, R, i) \in SUBSET T
  BY <1>2 DEF Above
<1>4. ~(Cardinality(Above(E, R, i)) < n) /\ Cardinality(Above(E, R, i)) \in Nat
  BY <1>2, AboveFinite DEF Top
<1>5. IsFiniteSet(T) /\ Cardinality(T) \in Nat
  BY TopFinite
<1>6. Cardinality(Above(E, R, i)) <= Cardinality(T)
  BY <1>3, <1>5, FS_Subset
<1> HIDE DEF T
<1>7. n <= Cardinality(T)
  BY <1>4, <1>5, <1>6
<1> QED BY <1>7 DEF T

\* Without one of the n best, the others remain, and another comes up, unless
\* there is none.
LEMMA TopWithout ==
    ASSUME NEW E, NEW R, NEW n \in Nat, IsFiniteSet(E), Orders(R, E),
           NEW i \in Top(E, R, n)
    PROVE  LET D == E \ {i} IN
           /\ i \notin Top(D, R, n)
           /\ Top(E, R, n) \ {i} \subseteq Top(D, R, n)
           /\ Cardinality(Top(D, R, n)) < Cardinality(Top(E, R, n))
                => D \subseteq Top(D, R, n)
           /\ Cardinality(Top(D, R, n)) \in Nat
           /\ Cardinality(Top(E, R, n)) \in Nat
<1> DEFINE D == E \ {i}
<1>1. IsFiniteSet(D) /\ Orders(R, D)
  <2>1. D \in SUBSET E
    OBVIOUS
  <2>2. IsFiniteSet(D)
    BY <2>1, FS_Subset
  <2>3. Orders(R, D)
    BY DEF Orders
  <2> QED BY <2>2, <2>3
<1>2. i \notin Top(D, R, n)
  BY DEF Top
<1>3. Top(E, R, n) \ {i} \subseteq Top(D, R, n)
  <2> SUFFICES ASSUME NEW j \in Top(E, R, n), j # i  PROVE j \in Top(D, R, n)
    OBVIOUS
  <2>1. j \in D /\ Cardinality(Above(E, R, j)) < n
    BY DEF Top
  <2>2. Above(D, R, j) \in SUBSET Above(E, R, j)
    BY DEF Above
  <2>3. /\ IsFiniteSet(Above(E, R, j)) /\ Cardinality(Above(E, R, j)) \in Nat
        /\ Cardinality(Above(D, R, j)) \in Nat
    BY <1>1, AboveFinite
  <2>4. Cardinality(Above(D, R, j)) <= Cardinality(Above(E, R, j))
    BY <2>2, <2>3, FS_Subset
  <2>5. Cardinality(Above(D, R, j)) < n
    BY <2>1, <2>3, <2>4
  <2> QED BY <2>1, <2>5 DEF Top
<1>4. Cardinality(Top(D, R, n)) \in Nat /\ Cardinality(Top(E, R, n)) \in Nat
  BY <1>1, TopFinite
<1>5. Cardinality(Top(E, R, n)) <= n
  BY TopAtMost
<1> HIDE DEF D
<1>6. ~ D \subseteq Top(D, R, n) => n <= Cardinality(Top(D, R, n))
  BY <1>1, TopAtLeast
<1> QED BY <1>2, <1>3, <1>4, <1>5, <1>6 DEF D

-----------------------------------------------------------------------------
(* Scoring: the signals                                                     *)

AnyEvidence == [reason : Reasons, count : Int, amount : Int]

LEMMA EvidenceType ==
    ASSUME NEW reason \in Reasons, NEW count \in Int
    PROVE  /\ Evidence(reason, count) \in AnyEvidence
           /\ Evidence(reason, count).reason = reason
           /\ Evidence(reason, count).count = count
<1>1. Weight[reason] \in Int
  BY ScoringAssumption
<1>2. Weight[reason] * count \in Int
  BY <1>1
<1> QED BY <1>2 DEF Evidence, AnyEvidence

LEMMA MembersFinite ==
    ASSUME NEW pairs, NEW i
    PROVE  /\ IsFiniteSet(Members(pairs, i))
           /\ Cardinality(Members(pairs, i)) \in Nat
<1>1. Members(pairs, i) \in SUBSET People
  BY DEF Members
<1>2. IsFiniteSet(People)
  BY ScoringAssumption
<1> QED BY <1>1, <1>2, FS_Subset, FS_CardinalityType

\* Counted are different people, and not u.
LEMMA CoCountsFit ==
    ASSUME NEW r, NEW u, NEW T, NEW i
    PROVE  /\ CoCounts(r, u, T, i) \in Nat
           /\ Cardinality(Members(r.member, i) \ {u}) \in Nat
           /\ CoCounts(r, u, T, i) <= Cardinality(Members(r.member, i) \ {u})
<1> DEFINE Others == Members(r.member, i) \ {u}
           Shared == {v \in Others : \E j \in Own(r, u) \cap T :
                                        <<v, j>> \in r.member}
<1>1. Others \in SUBSET Members(r.member, i) /\ Shared \in SUBSET Others
  OBVIOUS
<1>2. CoCounts(r, u, T, i) = Cardinality(Shared)
  BY DEF CoCounts
<1> HIDE DEF Shared
<1>3. IsFiniteSet(Others) /\ Cardinality(Others) \in Nat
  BY MembersFinite, FS_RemoveElement, FS_CardinalityType
<1>4. IsFiniteSet(Shared) /\ Cardinality(Shared) \in Nat
  BY <1>1, <1>3, FS_Subset, FS_CardinalityType
<1>5. Cardinality(Shared) <= Cardinality(Others)
  BY <1>1, <1>3, FS_Subset
<1> QED BY <1>2, <1>3, <1>4, <1>5

\* Eight pieces of evidence, the first of which alone counts people in common.
LEMMA SignalsType ==
    ASSUME NEW r \in Rows, NEW u \in People, NEW i \in Items, NEW n \in 1..8
    PROVE  /\ SignalsFor(r, u, i)[n] \in AnyEvidence
           /\ SignalsFor(r, u, i)[n].reason = "CO" =>
                SignalsFor(r, u, i)[n].count <= Cardinality(Members(r.member, i) \ {u})
<1> DEFINE x     == SignalsFor(r, u, i)
           T     == IF i \in Spaces THEN Spaces ELSE Plans
           Count(condition) == IF condition THEN 1 ELSE 0
           Listed(count)    == IF i \in Live THEN count ELSE 0
           extra == r.ignored[u][i] - FreeImpressions
           co    == IF i \in Own(r, u) THEN 0 ELSE CoCounts(r, u, T, i)
           space == Count(i \in Plans \cap Live /\ Group[i] \in Own(r, u))
           trad  == Count(i \in Live /\ TraditionOf[i] \in Own(r, u))
           tag   == IF i \in Plans
                    THEN Listed(Cardinality(TagsOf[i] \cap OwnTags(r, u))) ELSE 0
           trend == Listed(Cardinality(Members(r.recent, i)))
           pop   == Listed(Cardinality(Members(r.member, i)))
           new   == Listed(Freshness[i])
           ign   == Listed(IF extra > 0 THEN -extra ELSE 0)
<1>0. x = <<Evidence("CO", co), Evidence("FROM_JOINED_SPACE", space),
            Evidence("TRADITION_MATCH", trad), Evidence("TAG_AFFINITY", tag),
            Evidence("TRENDING", trend), Evidence("POPULAR", pop),
            Evidence("NEW", new), Evidence("IGNORED", ign)>>
  BY DEF SignalsFor
<1>1. /\ co \in Int
      /\ Cardinality(Members(r.member, i) \ {u}) \in Nat
      /\ co <= Cardinality(Members(r.member, i) \ {u})
  BY CoCountsFit
<1>2. space \in Int /\ trad \in Int
  OBVIOUS
<1>3. tag \in Int
  <2>1. CASE i \in Plans
    <3>1. IsFiniteSet(TagsOf[i])
      BY <2>1, ScoringAssumption
    <3>2. IsFiniteSet(TagsOf[i] \cap OwnTags(r, u))
      BY <3>1, FS_Intersection
    <3>3. Cardinality(TagsOf[i] \cap OwnTags(r, u)) \in Int
      BY <3>2, FS_CardinalityType
    <3> QED BY <3>3
  <2> QED BY <2>1
<1>4. trend \in Int /\ pop \in Int
  BY MembersFinite
<1>5. new \in Int
  BY ScoringAssumption
<1>6. ign \in Int
  <2>1. r.ignored[u][i] \in Int /\ FreeImpressions \in Int
    BY ScoringAssumption DEF Rows
  <2> QED BY <2>1
<1> HIDE DEF co, space, trad, tag, trend, pop, new, ign, x
<1>7. /\ x[1] = Evidence("CO", co) /\ x[2] = Evidence("FROM_JOINED_SPACE", space)
      /\ x[3] = Evidence("TRADITION_MATCH", trad) /\ x[4] = Evidence("TAG_AFFINITY", tag)
      /\ x[5] = Evidence("TRENDING", trend) /\ x[6] = Evidence("POPULAR", pop)
      /\ x[7] = Evidence("NEW", new) /\ x[8] = Evidence("IGNORED", ign)
  BY <1>0
<1>8. CASE n = 1
  BY <1>1, <1>7, <1>8, EvidenceType DEF Reasons, x
<1>9. CASE n # 1
  <2>1. PICK reason \in Reasons \ {"CO"}, c \in Int : x[n] = Evidence(reason, c)
    <3>1. n \in {2, 3, 4, 5, 6, 7, 8}
      BY <1>9
    <3> QED BY <1>2, <1>3, <1>4, <1>5, <1>6, <1>7, <3>1 DEF Reasons
  <2> QED BY <2>1, EvidenceType DEF x
<1> QED BY <1>8, <1>9

-----------------------------------------------------------------------------
(* The running score                                                        *)

\* What _Scores keeps of the signals in E it has added.
Kept(s, E) ==
    /\ s.total \in Int
    /\ s.best = None \/ (s.best \in E /\ s.best.amount > 0)
    /\ s.best.amount \in Int /\ s.best.amount >= 0
    /\ \A x \in E : x.amount <= s.best.amount

LEMMA AddKeeps ==
    ASSUME NEW s, NEW E \in SUBSET AnyEvidence, NEW x \in AnyEvidence,
           Kept(s, E)
    PROVE  Kept(Add(s, x), E \cup {x})
BY DEF Kept, Add, AnyEvidence, None

AllSignals(r, u, i) == {SignalsFor(r, u, i)[n] : n \in 1..8}

LEMMA ScoreKeeps ==
    ASSUME NEW r \in Rows, NEW u \in People, NEW i \in Items
    PROVE  Kept(Score(r, u, i), AllSignals(r, u, i))
<1> DEFINE x  == SignalsFor(r, u, i)
           E2 == {x[1]} \cup {x[2]}
           E3 == E2 \cup {x[3]}
           E4 == E3 \cup {x[4]}
           E5 == E4 \cup {x[5]}
           E6 == E5 \cup {x[6]}
           E7 == E6 \cup {x[7]}
           E8 == E7 \cup {x[8]}
           s1 == Add(Start0, x[1])
           s2 == Add(s1, x[2])
           s3 == Add(s2, x[3])
           s4 == Add(s3, x[4])
           s5 == Add(s4, x[5])
           s6 == Add(s5, x[6])
           s7 == Add(s6, x[7])
           s8 == Add(s7, x[8])
<1>0. \A n \in 1..8 : x[n] \in AnyEvidence
  BY SignalsType
<1>1. Score(r, u, i) = s8
  BY DEF Score
<1>2. AllSignals(r, u, i) = E8
  <2>1. 1..8 = {1, 2, 3, 4, 5, 6, 7, 8}
    OBVIOUS
  <2> HIDE DEF x
  <2>2. {x[n] : n \in 1..8} = E8
    BY <2>1, Zenon
  <2> QED BY <2>2 DEF AllSignals, x
<1> HIDE DEF x
<1>3. Kept(Start0, {})
  BY DEF Kept, Start0, None
<1>4. Kept(s1, {x[1]})
  <2>1. Kept(s1, {} \cup {x[1]})
    BY <1>0, <1>3, AddKeeps
  <2>2. {} \cup {x[1]} = {x[1]}
    OBVIOUS
  <2> QED BY <2>1, <2>2, Zenon
<1>5. E2 \in SUBSET AnyEvidence /\ E3 \in SUBSET AnyEvidence /\ E4 \in SUBSET AnyEvidence
      /\ E5 \in SUBSET AnyEvidence /\ E6 \in SUBSET AnyEvidence /\ E7 \in SUBSET AnyEvidence
      /\ {x[1]} \in SUBSET AnyEvidence
  BY <1>0
<1> HIDE DEF E2, E3, E4, E5, E6, E7, s1, s2, s3, s4, s5, s6, s7
<1>6. Kept(s2, E2)
  BY <1>0, <1>4, <1>5, AddKeeps DEF s2, E2
<1>7. Kept(s3, E3)
  BY <1>0, <1>5, <1>6, AddKeeps DEF s3, E3
<1>8. Kept(s4, E4)
  BY <1>0, <1>5, <1>7, AddKeeps DEF s4, E4
<1>9. Kept(s5, E5)
  BY <1>0, <1>5, <1>8, AddKeeps DEF s5, E5
<1>10. Kept(s6, E6)
  BY <1>0, <1>5, <1>9, AddKeeps DEF s6, E6
<1>11. Kept(s7, E7)
  BY <1>0, <1>5, <1>10, AddKeeps DEF s7, E7
<1>12. Kept(s8, E8)
  BY <1>0, <1>5, <1>11, AddKeeps
<1> QED BY <1>1, <1>2, <1>12

\* A query is about rows, and a user they may speak of.
Queried == query = NoQuery \/ (query.rows \in Rows /\ query.user \in People)

LEMMA SuggestedOfItems ==
    ASSUME NEW r, NEW u, NEW T
    PROVE  /\ Ranked(r, u, T) \subseteq T
           /\ \A i \in Ranked(r, u, T) : Eligible(r, u, i)
BY DEF Ranked

\* The reason shown with a suggestion is the signal that added the most, and a
\* number of people it gives is of others who are members (scoring.py: _Scores.add,
\* _co_counts), for any rows and weights, a negative one too.
THEOREM ReasonsAreStrongest == Queried => ReasonsHold
<1> SUFFICES ASSUME Queried, query # NoQuery,
                    NEW s \in Suggested(query.rows, query.user)
             PROVE  LET r   == query.rows
                        u   == query.user
                        all == {SignalsFor(r, u, s.item)[n] : n \in 1..8}
                    IN  /\ s.reason \in all /\ s.reason.amount > 0
                        /\ \A x \in all : x.amount <= s.reason.amount
                        /\ s.reason.reason = "CO" => s.reason.count
                              <= Cardinality(Members(r.member, s.item) \ {u})
  BY DEF ReasonsHold
<1> DEFINE r == query.rows
           u == query.user
<1>1. r \in Rows /\ u \in People
  BY DEF Queried
<1> HIDE DEF r, u
<1>2. s \in Suggested(r, u)
  BY DEF r, u
<1>3. PICK i \in SuggestedItems(r, u) : s.item = i /\ s.reason = Score(r, u, i).best
  BY <1>2 DEF Suggested
<1>4. i \in Items /\ Eligible(r, u, i)
  BY <1>3, SuggestedOfItems DEF SuggestedItems, Items
<1>5. Kept(Score(r, u, i), AllSignals(r, u, i)) /\ s.reason # None
  BY <1>1, <1>3, <1>4, ScoreKeeps DEF Eligible
<1>6. /\ s.reason \in AllSignals(r, u, i) /\ s.reason.amount > 0
      /\ \A x \in AllSignals(r, u, i) : x.amount <= s.reason.amount
  BY <1>3, <1>5 DEF Kept
<1>7. s.reason.reason = "CO"
        => s.reason.count <= Cardinality(Members(r.member, i) \ {u})
  <2>1. PICK n \in 1..8 : s.reason = SignalsFor(r, u, i)[n]
    BY <1>6 DEF AllSignals
  <2> QED BY <1>1, <1>4, <2>1, SignalsType
<1> QED BY <1>3, <1>6, <1>7 DEF AllSignals, r, u

-----------------------------------------------------------------------------
(* The ranking                                                              *)

\* The eligible ones of T, and who comes before whom.
Open(r, u, T)  == {i \in T : Eligible(r, u, i)}
Firsts(r, u)   == {p \in Items \X Items : Before(r, u, p[1], p[2])}

LEMMA FirstsOrder ==
    ASSUME NEW r \in Rows, NEW u \in People,
           NEW E \in SUBSET Items
    PROVE  Orders(Firsts(r, u), E)
<1> DEFINE P(i) == Score(r, u, i).total
<1>1. \A i \in E : i \in Items /\ P(i) \in Int /\ Position[i] \in Nat
  BY ScoreKeeps, ScoringAssumption DEF Kept
<1>2. \A i, j \in E : Position[i] = Position[j] => i = j
  BY ScoringAssumption
<1>3. \A i, j \in E : <<i, j>> \in Firsts(r, u)
        <=> \/ P(i) > P(j)
            \/ P(i) = P(j) /\ Position[i] < Position[j]
  BY DEF Firsts, Before
<1> HIDE DEF P
<1>4. \A i \in E : <<i, i>> \notin Firsts(r, u)
  BY <1>1, <1>3
<1>5. \A i, j \in E : i # j => <<i, j>> \in Firsts(r, u) \/ <<j, i>> \in Firsts(r, u)
  BY <1>1, <1>2, <1>3
<1>6. \A i, j, k \in E : <<i, j>> \in Firsts(r, u) /\ <<j, k>> \in Firsts(r, u)
                          => <<i, k>> \in Firsts(r, u)
  BY <1>1, <1>3
<1> QED BY <1>4, <1>5, <1>6 DEF Orders

LEMMA RankedIsTop ==
    ASSUME NEW r, NEW u, NEW T \in SUBSET Items
    PROVE  Ranked(r, u, T) = Top(Open(r, u, T), Firsts(r, u), MaxPerType)
<1>1. ASSUME NEW i \in T
      PROVE  Ahead(r, u, T, i) = Above(Open(r, u, T), Firsts(r, u), i)
  BY DEF Ahead, Above, Open, Firsts
<1> QED BY <1>1, Zenon DEF Ranked, Top, Open

\* What i was dismissed from.
Without(r, u, i) == [r EXCEPT !.dismissed = @ \cup {<<u, i>>}]

\* Dismissing touches no score.
LEMMA WithoutFacts ==
    ASSUME NEW r \in Rows, NEW u \in People, NEW i \in Items
    PROVE  /\ Without(r, u, i) \in Rows
           /\ \A j \in Items : Score(Without(r, u, i), u, j) = Score(r, u, j)
           /\ \A j \in Items : Eligible(Without(r, u, i), u, j)
                                <=> Eligible(r, u, j) /\ j # i
           /\ Firsts(Without(r, u, i), u) = Firsts(r, u)
<1> DEFINE w == Without(r, u, i)
<1>1. /\ w \in Rows /\ w.member = r.member /\ w.recent = r.recent
      /\ w.ignored = r.ignored /\ w.dismissed = r.dismissed \cup {<<u, i>>}
  <2> DEFINE D == r.dismissed \cup {<<u, i>>}
  <2>1. D \in SUBSET (People \X Items)
    BY DEF Rows
  <2>2. w = [r EXCEPT !.dismissed = D]
    BY DEF Without
  <2> HIDE DEF D, w
  <2>3. /\ w \in Rows /\ w.member = r.member /\ w.recent = r.recent
        /\ w.ignored = r.ignored /\ w.dismissed = D
    BY <2>1, <2>2 DEF Rows
  <2> QED BY <2>3 DEF D
<1> HIDE DEF w
<1>2. Own(w, u) = Own(r, u)
  BY <1>1 DEF Own
<1>3. OwnTags(w, u) = OwnTags(r, u)
  BY <1>2 DEF OwnTags
<1>4. ASSUME NEW j \in Items, NEW T
      PROVE  CoCounts(w, u, T, j) = CoCounts(r, u, T, j)
  BY <1>1, <1>2 DEF CoCounts
<1>5. \A j \in Items : SignalsFor(w, u, j) = SignalsFor(r, u, j)
  <2> SUFFICES ASSUME NEW j \in Items
               PROVE  SignalsFor(w, u, j) = SignalsFor(r, u, j)
    OBVIOUS
  <2>1. CoCounts(w, u, IF j \in Spaces THEN Spaces ELSE Plans, j)
          = CoCounts(r, u, IF j \in Spaces THEN Spaces ELSE Plans, j)
    BY <1>4
  <2> QED BY <1>1, <1>2, <1>3, <2>1 DEF SignalsFor
<1>6. \A j \in Items : Score(w, u, j) = Score(r, u, j)
  BY <1>5 DEF Score
<1>7. \A j \in Items : Eligible(w, u, j) <=> Eligible(r, u, j) /\ j # i
  BY <1>1, <1>2, <1>6 DEF Eligible, Excluded
<1>8. Firsts(w, u) = Firsts(r, u)
  BY <1>6 DEF Firsts, Before
<1> QED BY <1>1, <1>6, <1>7, <1>8 DEF w

LEMMA OpenWithout ==
    ASSUME NEW r \in Rows, NEW u \in People, NEW i \in Items, NEW T \in SUBSET Items
    PROVE  Open(Without(r, u, i), u, T) = Open(r, u, T) \ {i}
BY WithoutFacts DEF Open

\* What dismissing i does to the list of its own kind, T, and to the other.
LEMMA RankedWithout ==
    ASSUME NEW r \in Rows, NEW u \in People,
           NEW T \in SUBSET Items, IsFiniteSet(T), NEW i \in Ranked(r, u, T)
    PROVE  LET before == Ranked(r, u, T)
               after  == Ranked(Without(r, u, i), u, T)
           IN  /\ i \notin after /\ before \ {i} \subseteq after
               /\ Cardinality(before) \in Nat /\ Cardinality(after) \in Nat
               /\ Cardinality(after) < Cardinality(before)
                    => Open(r, u, T) \ {i} \subseteq after
<1> DEFINE E == Open(r, u, T)
           R == Firsts(r, u)
           n == MaxPerType
<1>1. i \in Items /\ Ranked(r, u, T) = Top(E, R, n)
  BY RankedIsTop, SuggestedOfItems
<1>2. Without(r, u, i) \in Rows /\ Firsts(Without(r, u, i), u) = R
  BY <1>1, WithoutFacts
<1>3. Ranked(Without(r, u, i), u, T) = Top(E \ {i}, R, n)
  <2>1. Open(Without(r, u, i), u, T) = E \ {i}
    BY <1>1, OpenWithout
  <2>2. Ranked(Without(r, u, i), u, T)
          = Top(Open(Without(r, u, i), u, T), Firsts(Without(r, u, i), u), n)
    BY RankedIsTop
  <2> QED BY <1>2, <2>1, <2>2
<1>4. E \in SUBSET T /\ E \in SUBSET Items
  BY DEF Open
<1>5. IsFiniteSet(E) /\ Orders(R, E) /\ n \in Nat
  BY <1>4, FS_Subset, FirstsOrder, ScoringAssumption
<1> HIDE DEF E, R, n
<1>6. i \in Top(E, R, n)
  BY <1>1
<1> DEFINE D == E \ {i}
<1>7. /\ i \notin Top(D, R, n) /\ Top(E, R, n) \ {i} \subseteq Top(D, R, n)
      /\ Cardinality(Top(E, R, n)) \in Nat /\ Cardinality(Top(D, R, n)) \in Nat
      /\ Cardinality(Top(D, R, n)) < Cardinality(Top(E, R, n)) => D \subseteq Top(D, R, n)
  BY <1>5, <1>6, TopWithout
<1> QED BY <1>1, <1>3, <1>7 DEF E

LEMMA RankedElsewhere ==
    ASSUME NEW r \in Rows, NEW u \in People, NEW i \in Items,
           NEW T \in SUBSET Items, i \notin T
    PROVE  Ranked(Without(r, u, i), u, T) = Ranked(r, u, T)
<1>1. /\ Without(r, u, i) \in Rows
      /\ Firsts(Without(r, u, i), u) = Firsts(r, u)
  BY WithoutFacts
<1>2. Open(Without(r, u, i), u, T) = Open(r, u, T)
  BY OpenWithout DEF Open
<1> QED BY <1>1, <1>2, RankedIsTop

\* The same for the whole list, of which T is one kind and T2 the other.
LEMMA KindsWithout ==
    ASSUME NEW r \in Rows, NEW u \in People,
           NEW T \in SUBSET Items, NEW T2 \in SUBSET Items,
           IsFiniteSet(T), IsFiniteSet(T2), T \cap T2 = {},
           NEW i \in Ranked(r, u, T)
    PROVE  LET w      == Without(r, u, i)
               before == Ranked(r, u, T) \cup Ranked(r, u, T2)
               after  == Ranked(w, u, T) \cup Ranked(w, u, T2)
           IN  /\ i \notin after /\ before \ {i} \subseteq after
               /\ Cardinality(after) < Cardinality(before)
                    => \A j \in T \ (after \cup {i}) : ~Eligible(r, u, j)
<1> DEFINE w  == Without(r, u, i)
           B  == Ranked(r, u, T)
           A  == Ranked(w, u, T)
           C  == Ranked(r, u, T2)
           O  == Open(r, u, T)
<1>1. i \in T /\ i \in Items /\ i \notin T2
  BY SuggestedOfItems
<1>2. Ranked(w, u, T2) = C
  BY <1>1, RankedElsewhere
<1>3. /\ i \notin A /\ B \ {i} \subseteq A
      /\ Cardinality(B) \in Nat /\ Cardinality(A) \in Nat
      /\ Cardinality(A) < Cardinality(B) => O \ {i} \subseteq A
  BY RankedWithout
<1>4. A \in SUBSET T /\ B \in SUBSET T /\ C \in SUBSET T2
  BY SuggestedOfItems
<1>5. \A j \in T : j \in O <=> Eligible(r, u, j)
  BY DEF Open
<1> HIDE DEF w, A, B, C, O
<1>6. IsFiniteSet(A) /\ IsFiniteSet(B) /\ IsFiniteSet(C) /\ Cardinality(C) \in Nat
  BY <1>4, FS_Subset, FS_CardinalityType
<1>7. A \cap C = {} /\ B \cap C = {}
  BY <1>4
<1>8. /\ Cardinality(A \cup C) = Cardinality(A) + Cardinality(C)
      /\ Cardinality(B \cup C) = Cardinality(B) + Cardinality(C)
  <2>1. /\ Cardinality(A \cup C) = Cardinality(A) + Cardinality(C) - Cardinality(A \cap C)
        /\ Cardinality(B \cup C) = Cardinality(B) + Cardinality(C) - Cardinality(B \cap C)
    BY <1>6, FS_Union
  <2>2. Cardinality(A \cap C) = 0 /\ Cardinality(B \cap C) = 0
    BY <1>7, FS_EmptySet
  <2> QED BY <1>3, <1>6, <2>1, <2>2
<1>9. i \notin A \cup C /\ (B \cup C) \ {i} \subseteq A \cup C
  BY <1>1, <1>3, <1>4
<1>10. ASSUME Cardinality(A \cup C) < Cardinality(B \cup C),
              NEW j \in T \ ((A \cup C) \cup {i})
       PROVE  ~Eligible(r, u, j)
  <2>1. Cardinality(A) < Cardinality(B)
    BY <1>3, <1>6, <1>8, <1>10
  <2> QED BY <1>3, <1>5, <1>10, <2>1
<1> QED BY <1>2, <1>9, <1>10 DEF w, A, B, C

\* Dismissing a suggestion moves no other out of the list, and the next eligible
\* item of its kind in, if there is one (score_user: the exclusions come before
\* the limit), for any rows, limit and order of equal scores.
THEOREM DismissedMakeRoom == Queried => DismissingMakesRoom
<1> SUFFICES ASSUME Queried, query # NoQuery,
                    NEW i \in SuggestedItems(query.rows, query.user)
             PROVE  LET r       == query.rows
                        u       == query.user
                        without == SuggestedItems(
                                     [r EXCEPT !.dismissed = @ \cup {<<u, i>>}], u)
                        others  == SuggestedItems(r, u) \ {i}
                        T       == IF i \in Spaces THEN Spaces ELSE Plans
                    IN  /\ i \notin without
                        /\ others \subseteq without
                        /\ Cardinality(without) < Cardinality(SuggestedItems(r, u)) =>
                              \A j \in T \ (without \cup {i}) : ~Eligible(r, u, j)
  BY DEF DismissingMakesRoom
<1> DEFINE r       == query.rows
           u       == query.user
           w       == Without(r, u, i)
           before  == SuggestedItems(r, u)
           after   == SuggestedItems(w, u)
           Kind    == IF i \in Spaces THEN Spaces ELSE Plans
           Made(T) == /\ i \notin after /\ before \ {i} \subseteq after
                      /\ Cardinality(after) < Cardinality(before)
                           => \A j \in T \ (after \cup {i}) : ~Eligible(r, u, j)
<1>1. r \in Rows /\ u \in People
  BY DEF Queried
<1>2. w = [r EXCEPT !.dismissed = @ \cup {<<u, i>>}]
  BY DEF Without
<1>3. /\ IsFiniteSet(Spaces) /\ IsFiniteSet(Plans) /\ Spaces \cap Plans = {}
      /\ Spaces \in SUBSET Items /\ Plans \in SUBSET Items
  BY ScoringAssumption DEF Items
<1>4. /\ before = Ranked(r, u, Spaces) \cup Ranked(r, u, Plans)
      /\ after = Ranked(w, u, Spaces) \cup Ranked(w, u, Plans)
  BY DEF SuggestedItems
<1>5. Ranked(r, u, Spaces) \subseteq Spaces /\ Ranked(r, u, Plans) \subseteq Plans
  BY SuggestedOfItems
<1>6. i \in before
  OBVIOUS
<1> HIDE DEF r, u, before, after
<1>7. CASE i \in Spaces
  <2>1. i \in Ranked(r, u, Spaces)
    BY <1>3, <1>4, <1>5, <1>6, <1>7
  <2>2. Made(Spaces)
    BY <1>1, <1>3, <1>4, <2>1, KindsWithout
  <2> QED BY <1>2, <1>7, <2>2 DEF r, u, before, after
<1>8. CASE i \notin Spaces
  <2>1. i \in Ranked(r, u, Plans)
    BY <1>4, <1>5, <1>6, <1>8
  <2>2. after = Ranked(w, u, Plans) \cup Ranked(w, u, Spaces)
        /\ before = Ranked(r, u, Plans) \cup Ranked(r, u, Spaces)
    BY <1>4
  <2>3. Plans \cap Spaces = {}
    BY <1>3
  <2>4. Made(Plans)
    BY <1>1, <1>3, <2>1, <2>2, <2>3, KindsWithout
  <2> QED BY <1>2, <1>8, <2>4 DEF r, u, before, after
<1> QED BY <1>7, <1>8
=============================================================================
