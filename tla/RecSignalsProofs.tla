-------------------------- MODULE RecSignalsProofs --------------------------
(***************************************************************************)
(* Proofs about RecSignals for any workers, refreshers, memberships, events *)
(* and clocks: type correctness, that no event is lost with its message,    *)
(* that impressions are counted once, that changes go forward, and that     *)
(* once all are processed the worker's memberships are the backend's.       *)
(***************************************************************************)
EXTENDS RecSignals, FiniteSetTheorems, WellFoundedInduction, TLAPS

-----------------------------------------------------------------------------
(* The inductive invariant                                                  *)

\* What was sent is on record, at a moment the backend's clock has passed.
SentInv ==
    \A e \in Events : queue[e] # "unsent" =>
        log[e] \in EventType /\ log[e].at <= clock

\* Nothing is received or processed that was not sent.
ReceivedInv ==
    /\ \A e \in processed : queue[e] # "unsent"
    /\ \A w \in Workers : work[w] # Idle =>
          \A e \in work[w].batch : queue[e] # "unsent"

\* What a transaction saw as processed is, and a stored batch is processed.
TransactionInv ==
    \A w \in Workers :
        /\ work[w].stage = "open" => work[w].seen \subseteq processed
        /\ work[w].stage = "stored" => work[w].batch \subseteq processed

IInv ==
    /\ TypeOK
    /\ SentInv
    /\ ReceivedInv
    /\ TransactionInv
    /\ StoredBeforeDelete

\* The impressions of a suggestion among some events.
Impressions(E, k) == {e \in E : log[e].action = "impression" /\ log[e].key = k}

-----------------------------------------------------------------------------
(* What the operators of the model do                                       *)

LEMMA FaultType ==
    ASSUME TypeOK, Healthy \/ Glitch
    PROVE  faults' \in Nat
BY DEF TypeOK, Healthy, Glitch

LEMMA TickType ==
    ASSUME TypeOK, Tick
    PROVE  clock' \in Nat /\ clock' = clock + 1
BY DEF TypeOK, Tick

LEMMA SendType ==
    ASSUME TypeOK, NEW e \in Events, NEW action \in Actions, NEW k \in Keys,
           Send(e, action, k)
    PROVE  /\ queue[e] = "unsent"
           /\ clock' \in Nat
           /\ clock' > clock
           /\ log' \in [Events -> EventType \cup {NoEvent}]
           /\ log'[e] \in EventType
           /\ log'[e].at = clock'
           /\ \A f \in Events \ {e} : log'[f] = log[f]
           /\ queue' \in [Events -> {"unsent", "visible", "inflight", "deleted"}]
           /\ queue'[e] = "visible"
           /\ \A f \in Events \ {e} : queue'[f] = queue[f]
           /\ UNCHANGED <<silent, memberVars, countVars, processed, work, sync, faults>>
<1>1. clock' \in Nat /\ clock' = clock + 1 /\ clock \in Nat
    BY TickType DEF Send, TypeOK
<1>2. [action |-> action, key |-> k, at |-> clock + 1] \in EventType
    BY <1>1 DEF EventType
<1>3. \A f \in Events : log'[f] = IF f = e
           THEN [action |-> action, key |-> k, at |-> clock + 1] ELSE log[f]
    BY DEF TypeOK, Send
<1> QED
    BY <1>1, <1>2, <1>3 DEF TypeOK, Send

\* Of some events at moments the clock has passed, one is the last.
LEMMA LatestExists ==
    ASSUME clock \in Nat, NEW E, E # {},
           \A e \in E : log[e].at \in Nat /\ log[e].at <= clock
    PROVE  \E e \in E : \A f \in E : log[f].at <= log[e].at
<1> DEFINE Ages == {clock - log[e].at : e \in E}
           Less == OpToRel(<, Nat)
<1>1. Ages \subseteq Nat /\ Ages # {}
    OBVIOUS
<1>2. IsWellFoundedOn(Less, Nat)
    BY NatLessThanWellFounded
<1> HIDE DEF Less
<1>3. PICK x \in Ages : \A y \in Ages : ~(<<y, x>> \in Less)
    BY <1>1, <1>2, WFMin, Zenon
<1>4. \A y \in Ages : ~(y < x)
    BY <1>1, <1>3 DEF Less, OpToRel
<1>5. PICK e \in E : x = clock - log[e].at
    OBVIOUS
<1>6. \A f \in E : log[f].at <= log[e].at
    <2> SUFFICES ASSUME NEW f \in E
                 PROVE  log[f].at <= log[e].at
        OBVIOUS
    <2>1. clock - log[f].at \in Ages
        OBVIOUS
    <2>2. ~(clock - log[f].at < clock - log[e].at)
        BY <1>4, <1>5, <2>1
    <2> HIDE DEF Ages
    <2> QED
        BY <2>2
<1> QED
    BY <1>6

\* The news of a batch, as far as there are any, have a last one.
LEMMA NewestIsNews ==
    ASSUME TypeOK, SentInv, ReceivedInv, NEW w \in Workers, work[w].stage = "open",
           NEW k \in Keys, News(w, k) # {}
    PROVE  /\ Newest(w, k) \in News(w, k)
           /\ \A f \in News(w, k) : log[f].at <= log[Newest(w, k)].at
           /\ log[Newest(w, k)] \in EventType
           /\ log[Newest(w, k)].at > change[k]
<1>1. work[w] # Idle /\ work[w].batch \subseteq Events
    BY DEF TypeOK, WorkType, Idle
<1>2. \A e \in News(w, k) : /\ e \in Events /\ log[e] \in EventType
                            /\ log[e].at \in Nat /\ log[e].at <= clock
    BY <1>1 DEF SentInv, ReceivedInv, News, FreshOn, Fresh, EventType
<1>3. \E e \in News(w, k) : \A f \in News(w, k) : log[f].at <= log[e].at
    BY <1>2, LatestExists DEF TypeOK
<1>4. /\ Newest(w, k) \in News(w, k)
      /\ \A f \in News(w, k) : log[f].at <= log[Newest(w, k)].at
    BY <1>3 DEF Newest
<1> QED
    BY <1>2, <1>4 DEF News

-----------------------------------------------------------------------------
(* The invariant holds                                                      *)

LEMMA InitInvariant == Init => IInv
<1> SUFFICES ASSUME Init PROVE IInv
    OBVIOUS
<1>1. TypeOK
    BY DEF Init, TypeOK, NoChange, WorkType
<1> QED
    BY <1>1 DEF Init, IInv, SentInv, ReceivedInv, TransactionInv, StoredBeforeDelete,
                Idle

LEMMA SendKeeps ==
    ASSUME IInv, NEW e \in Events, NEW action \in Actions, NEW k \in Keys,
           Send(e, action, k), truth' \in [Keys -> BOOLEAN]
    PROVE  IInv'
<1>1. TypeOK /\ SentInv /\ ReceivedInv /\ TransactionInv /\ StoredBeforeDelete
    BY DEF IInv
<1>2. /\ clock' \in Nat /\ clock' > clock
      /\ \A f \in Events : f # e => log'[f] = log[f] /\ queue'[f] = queue[f]
      /\ queue[e] = "unsent" /\ queue'[e] = "visible"
      /\ log'[e] \in EventType /\ log'[e].at = clock'
      /\ UNCHANGED <<silent, local, change, exposure, dismissed, processed, work, sync,
                     faults>>
    BY <1>1, SendType DEF memberVars, countVars
<1>3. TypeOK'
    BY <1>1, <1>2, SendType DEF TypeOK
<1>4. SentInv'
    BY <1>1, <1>2 DEF SentInv, TypeOK, EventType
<1>5. \A w \in Workers : work[w] # Idle => work[w].batch \subseteq Events
    BY <1>1 DEF TypeOK, WorkType
<1>6. ReceivedInv'
    BY <1>1, <1>2, <1>5 DEF ReceivedInv, TypeOK
<1>7. TransactionInv' /\ StoredBeforeDelete'
    BY <1>1, <1>2 DEF TransactionInv, StoredBeforeDelete, Unreadable
<1> QED
    BY <1>3, <1>4, <1>6, <1>7 DEF IInv

\* Steps that leave the records and the consumers alone.
LEMMA QuietKeeps ==
    ASSUME IInv, UNCHANGED <<log, queue, processed, work>>,
           clock' \in Nat, clock' >= clock,
           truth' \in [Keys -> BOOLEAN], silent' \in Nat, local' \in [Keys -> BOOLEAN],
           change' \in [Keys -> Int], UNCHANGED <<exposure, dismissed>>,
           sync' \in [Refreshers -> SyncType \cup {NoSync}], faults' \in Nat
    PROVE  IInv'
<1>1. TypeOK /\ SentInv /\ ReceivedInv /\ TransactionInv /\ StoredBeforeDelete
    BY DEF IInv
<1>2. TypeOK'
    BY <1>1 DEF TypeOK
<1>3. SentInv'
    BY <1>1 DEF SentInv, TypeOK, EventType
<1>4. ReceivedInv' /\ TransactionInv' /\ StoredBeforeDelete'
    BY <1>1 DEF ReceivedInv, TransactionInv, StoredBeforeDelete, Unreadable
<1> QED
    BY <1>2, <1>3, <1>4 DEF IInv

LEMMA BackendKeeps == IInv /\ Backend => IInv'
<1> SUFFICES ASSUME IInv, Backend PROVE IInv'
    OBVIOUS
<1>1. TypeOK
    BY DEF IInv
<1>2. CASE \E k \in Keys, e \in Events :
              \/ Change(k, e)
              \/ \E action \in {"impression", "dismiss", "unreadable"} :
                    React(k, e, action)
    <2>1. PICK k \in Keys, e \in Events :
              \/ Change(k, e)
              \/ \E action \in {"impression", "dismiss", "unreadable"} :
                    React(k, e, action)
        BY <1>2
    <2>2. truth' \in [Keys -> BOOLEAN]
        BY <1>1, <2>1 DEF TypeOK, Change, React
    <2>3. \E action \in Actions : Send(e, action, k)
        BY <2>1 DEF Change, React, Actions
    <2> QED
        BY <2>2, <2>3, SendKeeps
<1>3. CASE \E k \in Keys : ChangeSilently(k)
    BY <1>1, <1>3, TickType, QuietKeeps
       DEF TypeOK, ChangeSilently, Tick, memberVars, countVars
<1>4. CASE \E e \in Events : VisibilityTimeout(e) \/ Resend(e)
    <2>1. PICK e \in Events : VisibilityTimeout(e) \/ Resend(e)
        BY <1>4
    <2>2. /\ queue' = [queue EXCEPT ![e] = "visible"]
          /\ queue[e] # "unsent"
          /\ UNCHANGED <<truth, clock, silent, log, local, change, exposure, dismissed,
                         processed, work, sync>>
        BY <2>1 DEF VisibilityTimeout, Resend, backendVars, memberVars, countVars
    <2>3. faults' \in Nat
        BY <1>1, <2>1, FaultType DEF VisibilityTimeout, Resend
    <2>4. TypeOK'
        BY <1>1, <2>2, <2>3 DEF TypeOK
    <2>5. SentInv'
        BY <2>2, <1>1 DEF IInv, TypeOK, SentInv
    <2>6. ReceivedInv' /\ TransactionInv' /\ StoredBeforeDelete'
        BY <2>2, <1>1 DEF IInv, TypeOK, ReceivedInv, TransactionInv, StoredBeforeDelete,
                          Unreadable
    <2> QED
        BY <2>4, <2>5, <2>6 DEF IInv
<1> QED
    BY <1>2, <1>3, <1>4 DEF Backend

LEMMA ReceiveKeeps ==
    ASSUME IInv, NEW w \in Workers, NEW S \in SUBSET Events, Receive(w, S)
    PROVE  IInv'
<1>1. TypeOK /\ SentInv /\ ReceivedInv /\ TransactionInv /\ StoredBeforeDelete
    BY DEF IInv
<1>2. UNCHANGED <<truth, clock, silent, log, local, change, exposure, dismissed,
                  processed, sync, faults>>
    BY DEF Receive, backendVars, memberVars, countVars
<1>3. /\ [stage |-> "received", batch |-> S] \in WorkType
      /\ [stage |-> "received", batch |-> S] # Idle
    BY DEF WorkType, Idle
<1>4. TypeOK'
    BY <1>1, <1>2, <1>3 DEF TypeOK, Receive
<1>5. /\ \A e \in Events : queue[e] # "unsent" <=> queue'[e] # "unsent"
      /\ \A e \in Events : queue'[e] = "deleted" => queue[e] = "deleted"
      /\ \A e \in S : queue'[e] # "unsent"
      /\ work'[w] = [stage |-> "received", batch |-> S]
      /\ \A v \in Workers : v # w => work'[v] = work[v]
    BY <1>1 DEF Receive, TypeOK
<1>6. SentInv'
    BY <1>1, <1>2, <1>5 DEF SentInv
<1>7. \A v \in Workers : work[v] # Idle => work[v].batch \subseteq Events
    BY <1>1 DEF TypeOK, WorkType
<1>8. ReceivedInv'
    BY <1>1, <1>2, <1>5, <1>7 DEF ReceivedInv, TypeOK
<1>9. TransactionInv' /\ StoredBeforeDelete'
    BY <1>1, <1>2, <1>5 DEF TransactionInv, StoredBeforeDelete, Unreadable
<1> QED
    BY <1>4, <1>6, <1>8, <1>9 DEF IInv

\* A worker goes on with its batch, or drops it.
LEMMA WorkKeeps ==
    ASSUME IInv, NEW w \in Workers, work[w] # Idle,
           UNCHANGED <<truth, clock, silent, log, sync>>,
           local' \in [Keys -> BOOLEAN], change' \in [Keys -> Int],
           exposure' \in [Keys -> Nat], dismissed' \subseteq Keys, faults' \in Nat,
           processed \subseteq processed', processed' \subseteq processed \cup work[w].batch,
           queue' \in [Events -> {"unsent", "visible", "inflight", "deleted"}],
           \A e \in Events : queue[e] = "unsent" <=> queue'[e] = "unsent",
           \A e \in Events : queue'[e] = "deleted" =>
               queue[e] = "deleted" \/ e \in processed \/ Unreadable(e),
           NEW x \in WorkType, work' = [work EXCEPT ![w] = x],
           x = Idle \/ x.batch \subseteq work[w].batch,
           x.stage = "open" => x.seen \subseteq processed',
           x.stage = "stored" => x.batch \subseteq processed'
    PROVE  IInv'
<1>1. TypeOK /\ SentInv /\ ReceivedInv /\ TransactionInv /\ StoredBeforeDelete
    BY DEF IInv
<1>2. \A v \in Workers : work[v] # Idle => work[v].batch \subseteq Events
    BY <1>1 DEF TypeOK, WorkType
<1>3. \A v \in Workers : work'[v] = IF v = w THEN x ELSE work[v]
    BY <1>1 DEF TypeOK
<1>4. TypeOK'
    BY <1>1, <1>2 DEF TypeOK
<1>5. SentInv'
    BY <1>1 DEF SentInv
<1>6. ReceivedInv'
    BY <1>1, <1>2, <1>3 DEF ReceivedInv, TypeOK
<1>7. TransactionInv'
    BY <1>1, <1>3 DEF TransactionInv
<1>8. StoredBeforeDelete'
    BY <1>1 DEF StoredBeforeDelete, Unreadable
<1> QED
    BY <1>4, <1>5, <1>6, <1>7, <1>8 DEF IInv

LEMMA IdleType == Idle \in WorkType /\ Idle.stage = "idle"
BY DEF Idle, WorkType

LEMMA DiscardKeeps ==
    ASSUME IInv, NEW w \in Workers, Discard(w)
    PROVE  IInv'
<1> DEFINE bad == {e \in work[w].batch : Unreadable(e)}
           rest == work[w].batch \ bad
           x == IF rest = {} THEN Idle ELSE [stage |-> "received", batch |-> rest]
<1>1. TypeOK /\ ReceivedInv
    BY DEF IInv
<1>2. work[w] # Idle /\ work[w].batch \subseteq Events
    BY <1>1 DEF Discard, TypeOK, WorkType, Idle
<1>3. PICK kept \in SUBSET bad :
          /\ queue' = [e \in Events |-> IF e \in bad \ kept THEN "deleted" ELSE queue[e]]
          /\ IF kept = {} THEN Healthy ELSE Glitch
    BY DEF Discard
<1>4. faults' \in Nat
    BY <1>1, <1>3, FaultType
<1>5. queue' \in [Events -> {"unsent", "visible", "inflight", "deleted"}]
    BY <1>1, <1>3 DEF TypeOK
<1>6. \A e \in Events : queue[e] = "unsent" <=> queue'[e] = "unsent"
    BY <1>1, <1>2, <1>3 DEF ReceivedInv
<1>7. \A e \in Events : queue'[e] = "deleted" =>
          queue[e] = "deleted" \/ e \in processed \/ Unreadable(e)
    BY <1>3
<1>8. work' = [work EXCEPT ![w] = x]
    BY DEF Discard
<1>9. UNCHANGED <<truth, clock, silent, log, local, change, exposure, dismissed,
                  processed, sync>>
    BY DEF Discard, backendVars, memberVars, countVars
<1>10. /\ x \in WorkType
       /\ x = Idle \/ x.batch \subseteq work[w].batch
       /\ x.stage # "open" /\ x.stage # "stored"
    BY <1>2, IdleType DEF WorkType
<1> HIDE DEF x, rest, bad
<1> QED
    BY <1>1, <1>2, <1>4, <1>5, <1>6, <1>7, <1>8, <1>9, <1>10, WorkKeeps DEF TypeOK

LEMMA BeginKeeps ==
    ASSUME IInv, NEW w \in Workers, Begin(w)
    PROVE  IInv'
<1> DEFINE x == [stage |-> "open", batch |-> work[w].batch,
                 seen |-> processed,
                 counted |-> {k \in Keys : exposure[k] > 0},
                 waved |-> dismissed]
<1>1. TypeOK
    BY DEF IInv
<1>2. work[w] # Idle /\ work[w].batch \subseteq Events
    BY <1>1 DEF Begin, TypeOK, WorkType, Idle
<1>3. x \in WorkType /\ x.stage = "open"
    BY <1>1, <1>2 DEF TypeOK, WorkType
<1>4. work' = [work EXCEPT ![w] = x]
    BY DEF Begin
<1>5. UNCHANGED <<truth, clock, silent, log, queue, local, change, exposure, dismissed,
                  processed, sync, faults>>
    BY DEF Begin, backendVars, memberVars, countVars
<1>6. x.batch = work[w].batch /\ x.seen = processed
    OBVIOUS
<1> HIDE DEF x
<1> QED
    BY <1>1, <1>2, <1>3, <1>4, <1>5, <1>6, WorkKeeps DEF TypeOK

\* What a commit does to a worker's batch and the rows.
LEMMA CommitEffect ==
    ASSUME IInv, NEW w \in Workers, Commit(w)
    PROVE  /\ work[w].batch \subseteq Events
           /\ work[w].seen \subseteq processed
           /\ Fresh(w) \cap processed = {}
           /\ processed' = processed \cup Fresh(w)
           /\ \A k \in Keys :
                 /\ change'[k] \in Int
                 /\ change'[k] >= change[k]
                 /\ local'[k] \in BOOLEAN
                 /\ local'[k] # local[k] => change'[k] > change[k]
                 /\ exposure'[k] = exposure[k] + Cardinality(Impressions(Fresh(w), k))
<1>1. TypeOK /\ SentInv /\ ReceivedInv /\ TransactionInv
    BY DEF IInv
<1>2. work[w].stage = "open" /\ work[w].batch \subseteq Events
    BY <1>1 DEF Commit, TypeOK, WorkType, Idle
<1>3. work[w].seen \subseteq processed /\ Fresh(w) \cap processed = {}
    BY <1>1, <1>2 DEF TransactionInv, Commit, Conflict
<1>4. processed' = processed \cup Fresh(w)
    BY <1>3 DEF Commit, Fresh
<1>5. ASSUME NEW k \in Keys
      PROVE  /\ change'[k] \in Int
             /\ change'[k] >= change[k]
             /\ local'[k] \in BOOLEAN
             /\ local'[k] # local[k] => change'[k] > change[k]
    <2>1. CASE News(w, k) = {}
        BY <1>1, <2>1 DEF Commit, TypeOK
    <2>2. CASE News(w, k) # {}
        <3>1. log[Newest(w, k)] \in EventType /\ log[Newest(w, k)].at > change[k]
            BY <1>1, <1>2, <2>2, NewestIsNews
        <3>2. /\ change'[k] = log[Newest(w, k)].at
              /\ local'[k] = (log[Newest(w, k)].action = "join")
            BY <2>2 DEF Commit
        <3> QED
            BY <1>1, <3>1, <3>2 DEF TypeOK, EventType
    <2> QED
        BY <2>1, <2>2
<1>6. ASSUME NEW k \in Keys
      PROVE  exposure'[k] = exposure[k] + Cardinality(Impressions(Fresh(w), k))
    <2>1. FreshOn(w, k, "impression") = Impressions(Fresh(w), k)
        BY DEF FreshOn, Impressions
    <2> QED
        BY <2>1 DEF Commit
<1> QED
    BY <1>2, <1>3, <1>4, <1>5, <1>6

LEMMA ImpressionsFinite ==
    ASSUME IsFiniteSet(Events), NEW E, E \subseteq Events, NEW k
    PROVE  IsFiniteSet(Impressions(E, k)) /\ Cardinality(Impressions(E, k)) \in Nat
<1>1. Impressions(E, k) \subseteq Events
    BY DEF Impressions
<1>2. IsFiniteSet(Impressions(E, k))
    BY <1>1, FS_Subset
<1> QED
    BY <1>2, FS_CardinalityType

LEMMA CommitKeeps ==
    ASSUME IInv, IsFiniteSet(Events), NEW w \in Workers, Commit(w)
    PROVE  IInv'
<1> DEFINE x == [stage |-> "stored", batch |-> work[w].batch]
<1>1. TypeOK /\ work[w] # Idle /\ work[w].batch \subseteq Events
    <2>1. TypeOK
        BY DEF IInv
    <2>2. work[w] # Idle
        BY DEF Commit, Idle
    <2> QED
        BY <2>1, <2>2, CommitEffect
<1>2. x \in WorkType
    BY <1>1 DEF WorkType
<1>3. /\ work' = [work EXCEPT ![w] = x]
      /\ processed' = processed \cup work[w].batch
      /\ UNCHANGED <<truth, clock, silent, log, queue, sync, faults>>
    BY DEF Commit, backendVars
<1>4. /\ local' \in [Keys -> BOOLEAN]
      /\ change' \in [Keys -> Int]
    <2>1. /\ local' = [k \in Keys |-> local'[k]]
          /\ change' = [k \in Keys |-> change'[k]]
        BY DEF Commit
    <2> QED
        BY <2>1, CommitEffect
<1>5. exposure' \in [Keys -> Nat]
    <2>1. exposure' = [k \in Keys |-> exposure'[k]]
        BY DEF Commit
    <2>2. Fresh(w) \subseteq Events
        BY <1>1 DEF Fresh
    <2>3. \A k \in Keys : exposure'[k] \in Nat
        BY <1>1, <2>2, CommitEffect, ImpressionsFinite DEF TypeOK
    <2> QED
        BY <2>1, <2>3
<1>6. dismissed' \subseteq Keys
    BY <1>1 DEF Commit, Dismissed, TypeOK
<1>7. x.batch = work[w].batch /\ x.stage = "stored"
    OBVIOUS
<1> HIDE DEF x
<1> QED
    BY <1>1, <1>2, <1>3, <1>4, <1>5, <1>6, <1>7, WorkKeeps DEF TypeOK

LEMMA DropKeeps ==
    ASSUME IInv, NEW w \in Workers, Rollback(w) \/ Restart(w)
    PROVE  IInv'
<1>1. TypeOK /\ work[w] # Idle
    BY DEF IInv, Rollback, Restart, Idle
<1>2. /\ work' = [work EXCEPT ![w] = Idle]
      /\ UNCHANGED <<truth, clock, silent, log, queue, local, change, exposure, dismissed,
                     processed, sync>>
    BY DEF Rollback, Restart, backendVars, memberVars, countVars
<1>3. faults' \in Nat
    BY <1>1, FaultType DEF Rollback, Restart
<1> QED
    BY <1>1, <1>2, <1>3, IdleType, WorkKeeps DEF TypeOK

LEMMA DeleteKeeps ==
    ASSUME IInv, NEW w \in Workers, DeleteMessages(w)
    PROVE  IInv'
<1>1. TypeOK /\ ReceivedInv /\ TransactionInv
    BY DEF IInv
<1>2. work[w].stage = "stored" /\ work[w] # Idle
    BY DEF DeleteMessages, Idle
<1>3. work[w].batch \subseteq processed
    BY <1>1, <1>2 DEF TransactionInv
<1>4. PICK kept \in SUBSET work[w].batch :
          /\ queue' = [e \in Events |-> IF e \in work[w].batch \ kept
                                        THEN "deleted" ELSE queue[e]]
          /\ IF kept = {} THEN Healthy ELSE Glitch
    BY DEF DeleteMessages
<1>5. faults' \in Nat
    BY <1>1, <1>4, FaultType
<1>6. queue' \in [Events -> {"unsent", "visible", "inflight", "deleted"}]
    BY <1>1, <1>4 DEF TypeOK
<1>7. \A e \in Events : queue[e] = "unsent" <=> queue'[e] = "unsent"
    BY <1>1, <1>2, <1>4 DEF ReceivedInv
<1>8. \A e \in Events : queue'[e] = "deleted" => queue[e] = "deleted" \/ e \in processed
    BY <1>3, <1>4
<1>9. /\ work' = [work EXCEPT ![w] = Idle]
      /\ UNCHANGED <<truth, clock, silent, log, local, change, exposure, dismissed,
                     processed, sync>>
    BY DEF DeleteMessages, backendVars, memberVars, countVars
<1> QED
    BY <1>1, <1>2, <1>5, <1>6, <1>7, <1>8, <1>9, IdleType, WorkKeeps DEF TypeOK

\* A snapshot's moment is one, and no row's moment is lost below it.
MomentsInv == \A r \in Refreshers : sync[r] # NoSync => sync[r].at > NoChange

\* No refresher's clock is so far behind that a moment is taken for no row.
ClocksRun == \A r \in Refreshers : Drift[r] >= NoChange

LEMMA RefreshEffect ==
    ASSUME TypeOK, NEW r \in Refreshers, Refresh(r)
    PROVE  /\ UNCHANGED <<truth, silent, log, queue, exposure, dismissed, processed, work,
                          faults>>
           /\ clock' \in Nat /\ clock' >= clock
           /\ local' \in [Keys -> BOOLEAN] /\ change' \in [Keys -> Int]
           /\ sync' \in [Refreshers -> SyncType \cup {NoSync}]
           /\ ClocksRun /\ MomentsInv => MomentsInv'
<1>1. CASE StartSync(r)
    <2>1. clock' \in Nat /\ clock' = clock + 1 /\ clock \in Nat
        BY <1>1, TickType DEF StartSync, TypeOK
    <2>2. Drift[r] \in Int
        BY ConstantsAssumption
    <2> DEFINE s == [at |-> clock + 1 + Drift[r], page |-> [k \in Keys |-> "unread"]]
    <2>3. s \in SyncType /\ s.at = clock + 1 + Drift[r]
        BY <2>1, <2>2 DEF SyncType
    <2>4. sync' = [sync EXCEPT ![r] = s]
        BY <1>1 DEF StartSync
    <2>5. ClocksRun => s.at > NoChange
        BY <2>1, <2>2 DEF ClocksRun, NoChange
    <2> HIDE DEF s
    <2>6. /\ sync' \in [Refreshers -> SyncType \cup {NoSync}]
          /\ \A q \in Refreshers : sync'[q] = IF q = r THEN s ELSE sync[q]
        BY <2>3, <2>4 DEF TypeOK
    <2>7. ClocksRun /\ MomentsInv => MomentsInv'
        BY <2>5, <2>6 DEF MomentsInv
    <2> QED
        BY <1>1, <2>1, <2>6, <2>7 DEF StartSync, TypeOK, memberVars, countVars
<1>2. CASE \E k \in Keys : FetchPage(r, k)
    <2>1. PICK k \in Keys : FetchPage(r, k)
        BY <1>2
    <2> DEFINE seen == IF truth[k] THEN "in" ELSE "out"
               s == [sync[r] EXCEPT !.page[k] = seen]
    <2>2. sync[r] \in SyncType /\ sync' = [sync EXCEPT ![r] = s]
        BY <2>1 DEF FetchPage, TypeOK
    <2>3. s \in SyncType /\ s.at = sync[r].at
        BY <2>2 DEF SyncType
    <2> HIDE DEF s
    <2>4. /\ sync' \in [Refreshers -> SyncType \cup {NoSync}]
          /\ \A q \in Refreshers : sync'[q] = IF q = r THEN s ELSE sync[q]
        BY <2>2, <2>3 DEF TypeOK
    <2>5. MomentsInv => MomentsInv'
        BY <2>1, <2>3, <2>4 DEF MomentsInv, FetchPage
    <2> QED
        BY <2>1, <2>4, <2>5 DEF FetchPage, TypeOK, backendVars, memberVars, countVars
<1>3. CASE ApplySync(r)
    <2>1. sync[r] \in SyncType
        BY <1>3 DEF ApplySync, TypeOK
    <2>2. local' \in [Keys -> BOOLEAN] /\ change' \in [Keys -> Int]
        BY <1>3, <2>1 DEF ApplySync, TypeOK, SyncType
    <2>3. /\ sync' \in [Refreshers -> SyncType \cup {NoSync}]
          /\ \A q \in Refreshers : sync'[q] = IF q = r THEN NoSync ELSE sync[q]
        BY <1>3 DEF ApplySync, TypeOK
    <2>4. MomentsInv => MomentsInv'
        BY <2>3 DEF MomentsInv
    <2> QED
        BY <1>3, <2>2, <2>3, <2>4 DEF ApplySync, TypeOK, backendVars, countVars
<1>4. CASE DropSync(r)
    <2>1. /\ sync' \in [Refreshers -> SyncType \cup {NoSync}]
          /\ \A q \in Refreshers : sync'[q] = IF q = r THEN NoSync ELSE sync[q]
        BY <1>4 DEF DropSync, TypeOK
    <2>2. MomentsInv => MomentsInv'
        BY <2>1 DEF MomentsInv
    <2> QED
        BY <1>4, <2>1, <2>2 DEF DropSync, TypeOK, backendVars, memberVars, countVars
<1> QED
    BY <1>1, <1>2, <1>3, <1>4 DEF Refresh

LEMMA StepInvariant == IsFiniteSet(Events) /\ IInv /\ [Next]_vars => IInv'
<1> SUFFICES ASSUME IsFiniteSet(Events), IInv, [Next]_vars PROVE IInv'
    OBVIOUS
<1>1. CASE Backend
    BY <1>1, BackendKeeps
<1>2. CASE \E w \in Workers, S \in SUBSET Events : Receive(w, S)
    BY <1>2, ReceiveKeeps
<1>3. CASE \E w \in Workers : Consume(w) \/ Restart(w)
    BY <1>3, DiscardKeeps, BeginKeeps, CommitKeeps, DropKeeps, DeleteKeeps DEF Consume
<1>4. CASE \E r \in Refreshers : Refresh(r)
    BY <1>4, RefreshEffect, QuietKeeps DEF IInv, TypeOK
<1>5. CASE UNCHANGED vars
    BY <1>5, QuietKeeps DEF IInv, TypeOK, vars
<1> QED
    BY <1>1, <1>2, <1>3, <1>4, <1>5 DEF Next

-----------------------------------------------------------------------------
(* Counting                                                                 *)

LEMMA CountsStep ==
    IsFiniteSet(Events) /\ IInv /\ CountsExact /\ [Next]_vars => CountsExact'
<1> SUFFICES ASSUME IsFiniteSet(Events), IInv, CountsExact, [Next]_vars
             PROVE  CountsExact'
    OBVIOUS
<1>1. TypeOK /\ ReceivedInv
    BY DEF IInv
<1>2. /\ \A k \in Keys : exposure[k] = Cardinality(Impressions(processed, k))
      /\ CountsExact' <=>
            \A k \in Keys : exposure'[k] = Cardinality(Impressions(processed, k)')
    BY DEF CountsExact, Impressions
<1>3. ASSUME exposure' = exposure, processed' = processed,
             \A e \in processed : log'[e] = log[e]
      PROVE  CountsExact'
    <2>1. \A k \in Keys : Impressions(processed, k)' = Impressions(processed, k)
        BY <1>3 DEF Impressions
    <2> QED
        BY <1>2, <1>3, <2>1
<1>4. ASSUME NEW e \in Events, NEW action \in Actions, NEW k \in Keys,
             Send(e, action, k)
      PROVE  CountsExact'
    <2>1. /\ queue[e] = "unsent"
          /\ \A f \in Events : f # e => log'[f] = log[f]
          /\ UNCHANGED <<exposure, processed>>
        BY <1>1, <1>4, SendType DEF countVars
    <2>2. e \notin processed /\ processed \subseteq Events
        BY <1>1, <2>1 DEF ReceivedInv, TypeOK
    <2> QED
        BY <1>3, <2>1, <2>2
<1>5. CASE Backend
    <2>1. CASE \E k \in Keys, e \in Events :
              \/ Change(k, e)
              \/ \E action \in {"impression", "dismiss", "unreadable"} :
                    React(k, e, action)
        BY <1>4, <2>1 DEF Change, React, Actions
    <2>2. CASE \E k \in Keys : ChangeSilently(k)
        BY <1>3, <2>2 DEF ChangeSilently, countVars
    <2>3. CASE \E e \in Events : VisibilityTimeout(e) \/ Resend(e)
        BY <1>3, <2>3 DEF VisibilityTimeout, Resend, backendVars, countVars
    <2> QED
        BY <1>5, <2>1, <2>2, <2>3 DEF Backend
<1>6. CASE \E w \in Workers, S \in SUBSET Events : Receive(w, S)
    BY <1>3, <1>6 DEF Receive, backendVars, countVars
<1>7. ASSUME NEW w \in Workers, Commit(w)
      PROVE  CountsExact'
    <2>1. /\ Fresh(w) \subseteq Events
          /\ processed \subseteq Events
          /\ Fresh(w) \cap processed = {}
          /\ processed' = processed \cup Fresh(w)
          /\ UNCHANGED log
        BY <1>1, <1>7, CommitEffect DEF Fresh, TypeOK, Commit, backendVars
    <2>2. ASSUME NEW k \in Keys
          PROVE  exposure'[k] = Cardinality(Impressions(processed, k)')
        <3>1. /\ Impressions(processed, k)'
                    = Impressions(processed, k) \cup Impressions(Fresh(w), k)
              /\ Impressions(processed, k) \cap Impressions(Fresh(w), k) = {}
            BY <2>1 DEF Impressions
        <3>2. /\ IsFiniteSet(Impressions(processed, k))
              /\ IsFiniteSet(Impressions(Fresh(w), k))
              /\ Cardinality(Impressions(processed, k)) \in Nat
              /\ Cardinality(Impressions(Fresh(w), k)) \in Nat
            BY <2>1, ImpressionsFinite
        <3>3. Cardinality({}) = 0
            BY FS_EmptySet
        <3>4. Cardinality(Impressions(processed, k) \cup Impressions(Fresh(w), k))
                 = Cardinality(Impressions(processed, k))
                     + Cardinality(Impressions(Fresh(w), k))
                     - Cardinality(Impressions(processed, k)
                                      \cap Impressions(Fresh(w), k))
            BY <3>2, FS_Union
        <3>5. exposure'[k] = exposure[k] + Cardinality(Impressions(Fresh(w), k))
            BY <1>7, CommitEffect
        <3>6. exposure[k] = Cardinality(Impressions(processed, k))
            BY <1>2
        <3>7. Cardinality(Impressions(processed, k)')
                 = Cardinality(Impressions(processed, k) \cup Impressions(Fresh(w), k))
            BY <3>1
        <3>8. Cardinality(Impressions(processed, k) \cap Impressions(Fresh(w), k)) = 0
            BY <3>1, <3>3
        <3> QED
            BY <3>2, <3>4, <3>5, <3>6, <3>7, <3>8
    <2> QED
        BY <1>2, <2>2
<1>8. CASE \E w \in Workers : Consume(w) \/ Restart(w)
    <2>1. PICK w \in Workers : Consume(w) \/ Restart(w)
        BY <1>8
    <2>2. CASE \/ Discard(w) \/ Begin(w) \/ Rollback(w) \/ DeleteMessages(w)
               \/ Restart(w)
        BY <1>3, <2>2 DEF Discard, Begin, Rollback, DeleteMessages, Restart, backendVars, countVars
    <2> QED
        BY <1>7, <2>1, <2>2 DEF Consume
<1>9. CASE \E r \in Refreshers : Refresh(r)
    BY <1>1, <1>3, <1>9, RefreshEffect
<1>10. CASE UNCHANGED vars
    BY <1>3, <1>10 DEF vars
<1> QED
    BY <1>5, <1>6, <1>8, <1>9, <1>10 DEF Next

-----------------------------------------------------------------------------
(* Changes                                                                  *)

Forward ==
    \A k \in Keys : /\ change'[k] >= change[k]
                    /\ local'[k] # local[k] => change'[k] > change[k]

LEMMA ForwardStep == IInv /\ MomentsInv /\ [Next]_vars => Forward
<1> SUFFICES ASSUME IInv, MomentsInv, [Next]_vars PROVE Forward
    OBVIOUS
<1>1. TypeOK
    BY DEF IInv
<1>2. ASSUME UNCHANGED memberVars
      PROVE  Forward
    BY <1>1, <1>2 DEF Forward, TypeOK, memberVars
<1>3. CASE Backend
    BY <1>2, <1>3
       DEF Backend, Change, React, Send, ChangeSilently, VisibilityTimeout, Resend
<1>4. CASE \E w \in Workers, S \in SUBSET Events : Receive(w, S)
    BY <1>2, <1>4 DEF Receive
<1>5. CASE \E w \in Workers : Consume(w) \/ Restart(w)
    <2>1. PICK w \in Workers : Consume(w) \/ Restart(w)
        BY <1>5
    <2>2. CASE Commit(w)
        BY <2>2, CommitEffect DEF Forward
    <2>3. CASE \/ Discard(w) \/ Begin(w) \/ Rollback(w) \/ DeleteMessages(w)
               \/ Restart(w)
        BY <1>2, <2>3 DEF Discard, Begin, Rollback, DeleteMessages, Restart
    <2> QED
        BY <2>1, <2>2, <2>3 DEF Consume
<1>6. CASE \E r \in Refreshers : Refresh(r)
    <2>1. PICK r \in Refreshers : Refresh(r)
        BY <1>6
    <2>2. CASE ApplySync(r)
        <3>1. sync[r] \in SyncType /\ sync[r].at \in Int /\ sync[r].at > NoChange
            BY <1>1, <2>2 DEF ApplySync, TypeOK, MomentsInv, SyncType
        <3>2. ASSUME NEW k \in Keys
              PROVE  /\ change'[k] >= change[k]
                     /\ local'[k] # local[k] => change'[k] > change[k]
            <4> DEFINE differs == ~Newer(r, k) /\ local[k] # (sync[r].page[k] = "in")
            <4>1. /\ change'[k] = IF differs THEN sync[r].at ELSE change[k]
                  /\ local'[k] = IF differs THEN ~local[k] ELSE local[k]
                BY <2>2 DEF ApplySync
            <4>2. change[k] \in Int
                BY <1>1 DEF TypeOK
            <4>3. ~Newer(r, k) => sync[r].at > change[k]
                BY <3>1, <4>2, ConstantsAssumption DEF Newer, NoChange
            <4>4. CASE differs
                BY <3>1, <4>1, <4>2, <4>3, <4>4
            <4>5. CASE ~differs
                BY <4>1, <4>2, <4>5
            <4> QED
                BY <4>4, <4>5
        <3> QED
            BY <3>2 DEF Forward
    <2>3. CASE StartSync(r) \/ (\E k \in Keys : FetchPage(r, k)) \/ DropSync(r)
        BY <1>2, <2>3 DEF StartSync, FetchPage, DropSync
    <2> QED
        BY <2>1, <2>2, <2>3 DEF Refresh
<1>7. CASE UNCHANGED vars
    BY <1>2, <1>7 DEF vars, memberVars
<1> QED
    BY <1>3, <1>4, <1>5, <1>6, <1>7 DEF Next

LEMMA MomentsStep == ClocksRun /\ IInv /\ MomentsInv /\ [Next]_vars => MomentsInv'
<1> SUFFICES ASSUME ClocksRun, IInv, MomentsInv, [Next]_vars PROVE MomentsInv'
    OBVIOUS
<1>1. CASE \E r \in Refreshers : Refresh(r)
    BY <1>1, RefreshEffect DEF IInv
<1>2. CASE UNCHANGED sync
    BY <1>2 DEF MomentsInv
<1>3. CASE Backend
    BY <1>2, <1>3
       DEF Backend, Change, React, Send, ChangeSilently, VisibilityTimeout, Resend
<1>4. CASE \E w \in Workers, S \in SUBSET Events : Receive(w, S)
    BY <1>2, <1>4 DEF Receive
<1>5. CASE \E w \in Workers : Consume(w) \/ Restart(w)
    BY <1>2, <1>5 DEF Consume, Discard, Begin, Commit, Rollback, DeleteMessages, Restart
<1> QED
    BY <1>1, <1>2, <1>3, <1>4, <1>5 DEF Next, vars

-----------------------------------------------------------------------------
(* Convergence                                                              *)

\* The membership events of k that were sent, and the last of them.
Changes(k) == {e \in Events : queue[e] # "unsent" /\ Membership(e) /\ log[e].key = k}
Last(e, k) == e \in Changes(k) /\ \A f \in Changes(k) : log[f].at <= log[e].at

\* Every event has a moment of its own.
MomentInv ==
    \A e, f \in Events :
        queue[e] # "unsent" /\ queue[f] # "unsent" /\ log[e].at = log[f].at => e = f

\* While every change sends an event, the last one tells the membership.
TruthInv ==
    silent = 0 => \A k \in Keys :
        /\ Changes(k) = {} => ~truth[k]
        /\ \A e \in Events : Last(e, k) => (truth[k] <=> log[e].action = "join")

\* No recorded moment and no snapshot's is in the backend's future.
StampInv ==
    /\ \A k \in Keys : change[k] <= clock
    /\ \A r \in Refreshers : sync[r] # NoSync => sync[r].at <= clock

\* A processed membership event is on record, or something later is.
FoldedInv ==
    \A k \in Keys : \A e \in processed \cap Changes(k) : log[e].at <= change[k]

\* A copy whose record has reached the last event is right.
CopyInv ==
    silent = 0 => \A k \in Keys :
        /\ Changes(k) = {} => ~local[k]
        /\ \A e \in Events :
              Last(e, k) /\ log[e].at <= change[k] => (local[k] <=> truth[k])

\* So is a page of a snapshot that was begun after the last event.
PageInv ==
    silent = 0 => \A r \in Refreshers, k \in Keys :
        sync[r] # NoSync /\ sync[r].page[k] # "unread" =>
            /\ Changes(k) = {} => sync[r].page[k] = "out"
            /\ \A e \in Events :
                  Last(e, k) /\ log[e].at <= sync[r].at
                      => (sync[r].page[k] = "in" <=> truth[k])

ConvergeInv ==
    MomentInv /\ TruthInv /\ StampInv /\ FoldedInv /\ CopyInv /\ PageInv

\* No refresher's clock is ahead of the backend's.
ClocksNotAhead == \A r \in Refreshers : Drift[r] <= 0

LEMMA ChangesSame ==
    ASSUME log' = log, \A e \in Events : queue'[e] = "unsent" <=> queue[e] = "unsent"
    PROVE  \A k : /\ Changes(k)' = Changes(k)
                  /\ \A e : Last(e, k)' <=> Last(e, k)
<1>1. \A k : Changes(k)' = Changes(k)
    BY DEF Changes, Membership
<1> QED
    BY <1>1 DEF Last

\* Steps that leave the memberships, their records and their events alone.
LEMMA NothingMoves ==
    ASSUME IInv, ConvergeInv, UNCHANGED <<truth, silent, log, local, change, processed>>,
           \A e \in Events : queue'[e] = "unsent" <=> queue[e] = "unsent",
           clock \in Nat, clock' \in Nat, clock' >= clock,
           \A r \in Refreshers :
              \/ sync'[r] = sync[r]
              \/ sync'[r] = NoSync
              \/ /\ sync'[r].at <= clock'
                 /\ \A k \in Keys : sync'[r].page[k] = "unread"
    PROVE  ConvergeInv'
<1>1. \A k : Changes(k)' = Changes(k) /\ \A e : Last(e, k)' <=> Last(e, k)
    BY ChangesSame
<1>2. TypeOK
    BY DEF IInv
<1>3. MomentInv'
    BY DEF ConvergeInv, MomentInv
<1>4. TruthInv' /\ FoldedInv' /\ CopyInv'
    BY <1>1 DEF ConvergeInv, TruthInv, FoldedInv, CopyInv
<1>5. StampInv'
    <2>1. \A k \in Keys : change'[k] <= clock'
        BY <1>2 DEF ConvergeInv, StampInv, TypeOK
    <2>2. ASSUME NEW r \in Refreshers, sync'[r] # NoSync
          PROVE  sync'[r].at <= clock'
        <3>1. CASE sync'[r] = sync[r]
            <4>1. sync[r].at \in Int
                BY <1>2, <2>2, <3>1 DEF TypeOK, SyncType
            <4> QED
                BY <2>2, <3>1, <4>1 DEF ConvergeInv, StampInv
        <3> QED
            BY <2>2, <3>1
    <2> QED
        BY <2>1, <2>2 DEF StampInv
<1>6. PageInv'
    <2> SUFFICES ASSUME silent = 0, NEW r \in Refreshers, NEW k \in Keys,
                        sync'[r] # NoSync, sync'[r].page[k] # "unread"
                 PROVE  /\ Changes(k) = {} => sync'[r].page[k] = "out"
                        /\ \A e \in Events :
                              Last(e, k) /\ log[e].at <= sync'[r].at
                                  => (sync'[r].page[k] = "in" <=> truth[k])
        BY <1>1 DEF PageInv
    <2>1. sync'[r] = sync[r]
        OBVIOUS
    <2> QED
        BY <2>1 DEF ConvergeInv, PageInv
<1> QED
    BY <1>3, <1>4, <1>5, <1>6 DEF ConvergeInv

\* What sending an event does to the changes.
LEMMA SendChanges ==
    ASSUME IInv, NEW e \in Events, NEW action \in Actions, NEW k \in Keys,
           Send(e, action, k)
    PROVE  /\ \A j \in Keys :
                 Changes(j)' = IF j = k /\ action \in {"join", "leave"}
                               THEN Changes(j) \cup {e} ELSE Changes(j)
           /\ \A f \in Events : f # e => log'[f] = log[f]
           /\ log'[e].action = action /\ log'[e].key = k
           /\ log'[e].at = clock' /\ clock' > clock /\ clock \in Nat /\ clock' \in Nat
           /\ \A j \in Keys : \A f \in Changes(j) :
                 f # e /\ log[f].at \in Nat /\ log[f].at <= clock
           /\ UNCHANGED <<silent, local, change, processed, sync>>
<1>1. TypeOK /\ SentInv
    BY DEF IInv
<1>2. /\ queue[e] = "unsent" /\ queue'[e] = "visible"
      /\ \A f \in Events : f # e => log'[f] = log[f] /\ queue'[f] = queue[f]
      /\ log'[e].at = clock' /\ clock' > clock /\ clock \in Nat /\ clock' \in Nat
      /\ UNCHANGED <<silent, local, change, processed, sync>>
    BY <1>1, SendType DEF memberVars, TypeOK
<1>3. log'[e].action = action /\ log'[e].key = k
    BY <1>1 DEF Send, TypeOK
<1>4. \A j \in Keys : \A f \in Changes(j) :
          f # e /\ log[f].at \in Nat /\ log[f].at <= clock
    BY <1>1, <1>2 DEF Changes, SentInv, EventType
<1>5. ASSUME NEW j \in Keys
      PROVE  Changes(j)' = IF j = k /\ action \in {"join", "leave"}
                           THEN Changes(j) \cup {e} ELSE Changes(j)
    BY <1>2, <1>3 DEF Changes, Membership
<1> QED
    BY <1>2, <1>3, <1>4, <1>5

LEMMA SendConverges ==
    ASSUME IInv, ConvergeInv, NEW e \in Events, NEW action \in Actions, NEW k \in Keys,
           Send(e, action, k),
           IF action \in {"join", "leave"}
           THEN /\ truth' = [truth EXCEPT ![k] = ~@]
                /\ action = IF truth[k] THEN "leave" ELSE "join"
           ELSE truth' = truth
    PROVE  ConvergeInv'
<1>1. TypeOK /\ SentInv /\ ReceivedInv
    BY DEF IInv
<1>2. /\ \A j \in Keys :
            Changes(j)' = IF j = k /\ action \in {"join", "leave"}
                          THEN Changes(j) \cup {e} ELSE Changes(j)
      /\ \A f \in Events : f # e => log'[f] = log[f]
      /\ log'[e].action = action
      /\ log'[e].at = clock' /\ clock' > clock /\ clock \in Nat /\ clock' \in Nat
      /\ \A j \in Keys : \A f \in Changes(j) :
            f # e /\ log[f].at \in Nat /\ log[f].at <= clock
      /\ UNCHANGED <<silent, local, change, processed, sync>>
    BY SendChanges
<1> DEFINE Touched(j) == j = k /\ action \in {"join", "leave"}
<1>3. \A j \in Keys : ~Touched(j) =>
          /\ Changes(j)' = Changes(j)
          /\ truth'[j] = truth[j]
          /\ \A f \in Events : Last(f, j)' => f # e /\ Last(f, j) /\ log'[f].at = log[f].at
                                              /\ log'[f].action = log[f].action
    <2> SUFFICES ASSUME NEW j \in Keys, ~Touched(j)
                 PROVE  /\ Changes(j)' = Changes(j)
                        /\ truth'[j] = truth[j]
                        /\ \A f \in Events : Last(f, j)' =>
                              f # e /\ Last(f, j) /\ log'[f].at = log[f].at
                              /\ log'[f].action = log[f].action
        OBVIOUS
    <2>1. Changes(j)' = Changes(j)
        BY <1>2
    <2>2. truth'[j] = truth[j]
        BY <1>1 DEF TypeOK
    <2>3. \A f \in Changes(j) : f \in Events /\ f # e /\ log'[f] = log[f]
        BY <1>2 DEF Changes
    <2> QED
        BY <2>1, <2>2, <2>3 DEF Last
<1>4. \A j \in Keys : Touched(j) =>
          /\ Changes(j)' # {}
          /\ \A f \in Events : Last(f, j)' => f = e
    <2> SUFFICES ASSUME NEW j \in Keys, Touched(j), NEW f \in Events, Last(f, j)', f # e
                 PROVE  FALSE
        BY <1>2
    <2>1. f \in Changes(j) /\ e \in Changes(j)' /\ log'[f] = log[f]
        BY <1>2 DEF Last
    <2>2. log[f].at \in Nat /\ log[f].at <= clock /\ log'[e].at <= log'[f].at
        BY <1>2, <2>1 DEF Last
    <2> QED
        BY <1>2, <2>1, <2>2
<1>5. MomentInv'
    <2>1. \A f \in Events : f # e /\ queue'[f] # "unsent" =>
              queue[f] # "unsent" /\ log[f].at \in Nat /\ log[f].at <= clock
                /\ log'[f].at = log[f].at
        BY <1>1, <1>2, SendType DEF SentInv, EventType
    <2> QED
        BY <1>2, <2>1 DEF ConvergeInv, MomentInv
<1>6. TruthInv'
    <2> SUFFICES ASSUME silent = 0, NEW j \in Keys
                 PROVE  /\ Changes(j)' = {} => ~truth'[j]
                        /\ \A f \in Events :
                              Last(f, j)' => (truth'[j] <=> log'[f].action = "join")
        BY <1>2 DEF TruthInv
    <2>1. CASE Touched(j)
        <3>1. truth'[j] = ~truth[j] /\ (action = "join" <=> ~truth[j])
            BY <1>1, <2>1 DEF TypeOK
        <3> QED
            BY <1>2, <1>4, <2>1, <3>1
    <2>2. CASE ~Touched(j)
        BY <1>3, <2>2 DEF ConvergeInv, TruthInv
    <2> QED
        BY <2>1, <2>2
<1>7. StampInv'
    BY <1>1, <1>2 DEF ConvergeInv, StampInv, TypeOK, SyncType
<1>8. FoldedInv'
    <2> SUFFICES ASSUME NEW j \in Keys, NEW f \in processed, f \in Changes(j)'
                 PROVE  log'[f].at <= change[j]
        BY <1>2 DEF FoldedInv
    <2>1. f # e
        BY <1>1, SendType DEF ReceivedInv
    <2>2. f \in Changes(j) /\ log'[f] = log[f]
        BY <1>2, <2>1 DEF Changes
    <2> QED
        BY <2>2 DEF ConvergeInv, FoldedInv
<1>9. CopyInv'
    <2> SUFFICES ASSUME silent = 0, NEW j \in Keys
                 PROVE  /\ Changes(j)' = {} => ~local[j]
                        /\ \A f \in Events : Last(f, j)' /\ log'[f].at <= change[j]
                              => (local[j] <=> truth'[j])
        BY <1>2 DEF CopyInv
    <2>1. change[j] \in Int /\ change[j] <= clock
        BY <1>1 DEF ConvergeInv, StampInv, TypeOK
    <2>2. CASE Touched(j)
        BY <1>2, <1>4, <2>1, <2>2
    <2>3. CASE ~Touched(j)
        BY <1>3, <2>3 DEF ConvergeInv, CopyInv
    <2> QED
        BY <2>2, <2>3
<1>10. PageInv'
    <2> SUFFICES ASSUME silent = 0, NEW r \in Refreshers, NEW j \in Keys,
                        sync[r] # NoSync, sync[r].page[j] # "unread"
                 PROVE  /\ Changes(j)' = {} => sync[r].page[j] = "out"
                        /\ \A f \in Events : Last(f, j)' /\ log'[f].at <= sync[r].at
                              => (sync[r].page[j] = "in" <=> truth'[j])
        BY <1>2 DEF PageInv
    <2>1. sync[r].at \in Int /\ sync[r].at <= clock
        BY <1>1 DEF ConvergeInv, StampInv, TypeOK, SyncType
    <2>2. CASE Touched(j)
        BY <1>2, <1>4, <2>1, <2>2
    <2>3. CASE ~Touched(j)
        BY <1>3, <2>3 DEF ConvergeInv, PageInv
    <2> QED
        BY <2>2, <2>3
<1> QED
    BY <1>5, <1>6, <1>7, <1>8, <1>9, <1>10 DEF ConvergeInv

\* A change without an event: nothing is claimed of the memberships any more.
LEMMA SilenceConverges ==
    ASSUME IInv, ConvergeInv, NEW k \in Keys, ChangeSilently(k)
    PROVE  ConvergeInv'
<1>1. TypeOK /\ TypeOK'
    BY BackendKeeps DEF IInv, Backend
<1>2. clock' = clock + 1 /\ silent' # 0
    BY <1>1 DEF TypeOK, ChangeSilently, Tick
<1>3. UNCHANGED <<log, queue, local, change, processed, sync>>
    BY DEF ChangeSilently, memberVars
<1>4. \A j : Changes(j)' = Changes(j)
    BY <1>3, ChangesSame
<1>5. MomentInv'
    BY <1>3 DEF ConvergeInv, MomentInv
<1>6. FoldedInv'
    BY <1>3, <1>4 DEF ConvergeInv, FoldedInv
<1>7. StampInv'
    BY <1>1, <1>2, <1>3 DEF ConvergeInv, StampInv, TypeOK, SyncType
<1>8. TruthInv' /\ CopyInv' /\ PageInv'
    BY <1>2 DEF TruthInv, CopyInv, PageInv
<1> QED
    BY <1>5, <1>6, <1>7, <1>8 DEF ConvergeInv

\* A commit folds the news in: the last event wins, and none is left out.
LEMMA CommitConverges ==
    ASSUME IInv, ConvergeInv, NEW w \in Workers, Commit(w)
    PROVE  ConvergeInv'
<1>1. TypeOK /\ SentInv /\ ReceivedInv
    BY DEF IInv
<1>2. work[w].stage = "open" /\ work[w] # Idle
    BY DEF Commit, Idle
<1>3. UNCHANGED <<truth, clock, silent, log, queue, sync>>
    BY DEF Commit, backendVars
<1>4. /\ Fresh(w) \subseteq Events
      /\ \A e \in Fresh(w) : queue[e] # "unsent"
      /\ processed' = processed \cup Fresh(w)
      /\ \A k \in Keys : change'[k] \in Int /\ change'[k] >= change[k]
    BY <1>1, <1>2, CommitEffect DEF Fresh, ReceivedInv
<1>5. \A k : Changes(k)' = Changes(k) /\ \A e : Last(e, k)' <=> Last(e, k)
    BY <1>3, ChangesSame
<1>6. \A k \in Keys : change[k] \in Int
    BY <1>1 DEF TypeOK
<1>7. ASSUME NEW k \in Keys, News(w, k) = {}
      PROVE  change'[k] = change[k] /\ local'[k] = local[k]
    BY <1>7 DEF Commit
<1>8. ASSUME NEW k \in Keys, News(w, k) # {}
      PROVE  /\ Newest(w, k) \in Changes(k)
             /\ \A f \in News(w, k) : log[f].at <= change'[k]
             /\ change'[k] = log[Newest(w, k)].at
             /\ local'[k] = (log[Newest(w, k)].action = "join")
             /\ change'[k] <= clock
    <2>1. /\ Newest(w, k) \in News(w, k)
          /\ \A f \in News(w, k) : log[f].at <= log[Newest(w, k)].at
        BY <1>1, <1>2, <1>8, NewestIsNews
    <2>2. /\ change'[k] = log[Newest(w, k)].at
          /\ local'[k] = (log[Newest(w, k)].action = "join")
        BY <1>8 DEF Commit
    <2>3. Newest(w, k) \in Fresh(w) /\ Newest(w, k) \in Changes(k)
        BY <1>4, <2>1 DEF News, FreshOn, Changes, Membership
    <2> QED
        BY <1>1, <1>4, <2>1, <2>2, <2>3 DEF SentInv
<1>9. MomentInv' /\ TruthInv' /\ PageInv'
    BY <1>3, <1>5 DEF ConvergeInv, MomentInv, TruthInv, PageInv
<1>10. StampInv'
    BY <1>3, <1>7, <1>8 DEF ConvergeInv, StampInv
<1>11. FoldedInv'
    <2> SUFFICES ASSUME NEW k \in Keys, NEW e \in processed', e \in Changes(k)
                 PROVE  log[e].at <= change'[k]
        BY <1>3, <1>5 DEF FoldedInv
    <2>1. log[e].at \in Nat
        BY <1>1 DEF Changes, SentInv, EventType
    <2>2. CASE e \in processed
        <3>1. log[e].at <= change[k]
            BY <2>2 DEF ConvergeInv, FoldedInv
        <3> QED
            BY <1>4, <1>6, <2>1, <3>1
    <2>3. CASE e \in Fresh(w)
        <3>1. e \in FreshOn(w, k, "join") \cup FreshOn(w, k, "leave")
            BY <2>3 DEF FreshOn, Changes, Membership
        <3>2. CASE log[e].at > change[k]
            BY <1>8, <3>1, <3>2 DEF News
        <3>3. CASE ~(log[e].at > change[k])
            BY <1>4, <1>6, <2>1, <3>3
        <3> QED
            BY <3>2, <3>3
    <2> QED
        BY <1>4, <2>2, <2>3
<1>12. CopyInv'
    <2> SUFFICES ASSUME silent = 0, NEW k \in Keys
                 PROVE  /\ Changes(k) = {} => ~local'[k]
                        /\ \A e \in Events : Last(e, k) /\ log[e].at <= change'[k]
                              => (local'[k] <=> truth[k])
        BY <1>3, <1>5 DEF CopyInv
    <2>1. CASE News(w, k) = {}
        BY <1>7, <2>1 DEF ConvergeInv, CopyInv
    <2>2. CASE News(w, k) # {}
        <3> SUFFICES ASSUME NEW e \in Events, Last(e, k), log[e].at <= change'[k]
                     PROVE  local'[k] <=> truth[k]
            BY <1>8, <2>2
        <3>1. log[e].at \in Nat /\ queue[e] # "unsent"
            BY <1>1 DEF Last, Changes, SentInv, EventType
        <3>2. log[Newest(w, k)].at <= log[e].at
            BY <1>8, <2>2 DEF Last
        <3>3. log[Newest(w, k)].at = log[e].at
            BY <1>4, <1>8, <2>2, <3>1, <3>2
        <3>4. e = Newest(w, k)
            BY <1>8, <2>2, <3>1, <3>3 DEF ConvergeInv, MomentInv, Changes
        <3> QED
            BY <1>8, <2>2, <3>4 DEF ConvergeInv, TruthInv
    <2> QED
        BY <2>1, <2>2
<1> QED
    BY <1>9, <1>10, <1>11, <1>12 DEF ConvergeInv

\* A page shows the membership of its moment, which no earlier event can change.
LEMMA PageConverges ==
    ASSUME IInv, ConvergeInv, NEW r \in Refreshers, NEW k \in Keys, FetchPage(r, k)
    PROVE  ConvergeInv'
<1>1. TypeOK
    BY DEF IInv
<1>2. UNCHANGED <<truth, clock, silent, log, queue, local, change, processed>>
    BY DEF FetchPage, backendVars, memberVars
<1>3. \A j : Changes(j)' = Changes(j) /\ \A e : Last(e, j)' <=> Last(e, j)
    BY <1>2, ChangesSame
<1>4. MomentInv' /\ TruthInv' /\ FoldedInv' /\ CopyInv'
    BY <1>2, <1>3 DEF ConvergeInv, MomentInv, TruthInv, FoldedInv, CopyInv
<1>5. /\ sync[r] \in SyncType
      /\ sync'[r].at = sync[r].at
      /\ sync'[r].page = [sync[r].page EXCEPT ![k] = IF truth[k] THEN "in" ELSE "out"]
      /\ \A s \in Refreshers : s # r => sync'[s] = sync[s]
    BY <1>1 DEF FetchPage, TypeOK, SyncType
<1>6. StampInv'
    BY <1>2, <1>5 DEF ConvergeInv, StampInv, FetchPage
<1>7. PageInv'
    <2> SUFFICES ASSUME silent = 0, NEW s \in Refreshers, NEW j \in Keys,
                        sync'[s] # NoSync, sync'[s].page[j] # "unread"
                 PROVE  /\ Changes(j) = {} => sync'[s].page[j] = "out"
                        /\ \A e \in Events :
                              Last(e, j) /\ log[e].at <= sync'[s].at
                                  => (sync'[s].page[j] = "in" <=> truth[j])
        BY <1>2, <1>3 DEF PageInv
    <2>1. CASE s = r /\ j = k
        <3>1. sync'[r].page[k] = IF truth[k] THEN "in" ELSE "out"
            BY <1>5 DEF SyncType
        <3>2. Changes(k) = {} => ~truth[k]
            BY DEF ConvergeInv, TruthInv
        <3> QED
            BY <2>1, <3>1, <3>2
    <2>2. CASE s = r /\ j # k
        <3>1. sync'[r].page[j] = sync[r].page[j] /\ sync[r] # NoSync
            BY <1>5, <2>2 DEF FetchPage, SyncType
        <3> QED
            BY <1>5, <2>2, <3>1 DEF ConvergeInv, PageInv
    <2>3. CASE s # r
        BY <1>5, <2>3 DEF ConvergeInv, PageInv
    <2> QED
        BY <2>1, <2>2, <2>3
<1> QED
    BY <1>4, <1>6, <1>7 DEF ConvergeInv

\* A snapshot replaces a copy only where it is later than the record.
LEMMA ApplyConverges ==
    ASSUME IInv, ConvergeInv, NEW r \in Refreshers, ApplySync(r)
    PROVE  ConvergeInv'
<1>1. TypeOK /\ SentInv
    BY DEF IInv
<1>2. UNCHANGED <<truth, clock, silent, log, queue, processed>>
    BY DEF ApplySync, backendVars
<1>3. \A j : Changes(j)' = Changes(j) /\ \A e : Last(e, j)' <=> Last(e, j)
    BY <1>2, ChangesSame
<1>4. sync[r] # NoSync /\ sync[r] \in SyncType /\ sync[r].at \in Int /\ sync[r].at <= clock
    BY <1>1 DEF ApplySync, ConvergeInv, StampInv, TypeOK, SyncType
<1>5. \A s \in Refreshers : sync'[s] = IF s = r THEN NoSync ELSE sync[s]
    BY <1>1 DEF ApplySync, TypeOK
<1>6. ASSUME NEW k \in Keys
      PROVE  /\ change[k] \in Int
             /\ \/ change'[k] = change[k] /\ local'[k] = local[k]
                \/ /\ ~Newer(r, k)
                   /\ change'[k] = sync[r].at
                   /\ local'[k] <=> sync[r].page[k] = "in"
                   /\ sync[r].page[k] \in {"in", "out"}
    <2> DEFINE differs == ~Newer(r, k) /\ local[k] # (sync[r].page[k] = "in")
    <2>1. /\ local'[k] = IF differs THEN ~local[k] ELSE local[k]
          /\ change'[k] = IF differs THEN sync[r].at ELSE change[k]
        BY DEF ApplySync
    <2>2. sync[r].page[k] \in {"in", "out"}
        BY <1>4 DEF ApplySync, SyncType
    <2>3. change[k] \in Int /\ local[k] \in BOOLEAN
        BY <1>1 DEF TypeOK
    <2>4. CASE differs
        BY <2>1, <2>2, <2>3, <2>4
    <2>5. CASE ~differs
        BY <2>1, <2>3, <2>5
    <2> QED
        BY <2>4, <2>5
<1>7. MomentInv' /\ TruthInv'
    BY <1>2, <1>3 DEF ConvergeInv, MomentInv, TruthInv
<1>8. StampInv'
    <2>1. \A k \in Keys : change'[k] <= clock'
        BY <1>2, <1>4, <1>6 DEF ConvergeInv, StampInv
    <2>2. \A s \in Refreshers : sync'[s] # NoSync => sync'[s].at <= clock'
        BY <1>2, <1>5 DEF ConvergeInv, StampInv
    <2> QED
        BY <2>1, <2>2 DEF StampInv
<1>9. FoldedInv'
    <2> SUFFICES ASSUME NEW k \in Keys, NEW e \in processed, e \in Changes(k)
                 PROVE  log[e].at <= change'[k]
        BY <1>2, <1>3 DEF FoldedInv
    <2>1. log[e].at \in Nat /\ log[e].at <= change[k]
        BY <1>1 DEF Changes, SentInv, EventType, ConvergeInv, FoldedInv
    <2>2. CASE change'[k] = change[k]
        BY <2>1, <2>2
    <2>3. CASE ~Newer(r, k) /\ change'[k] = sync[r].at
        BY <1>4, <1>6, <2>1, <2>3, ConstantsAssumption DEF Newer, NoChange
    <2> QED
        BY <1>6, <2>2, <2>3
<1>10. CopyInv'
    <2> SUFFICES ASSUME silent = 0, NEW k \in Keys
                 PROVE  /\ Changes(k) = {} => ~local'[k]
                        /\ \A e \in Events : Last(e, k) /\ log[e].at <= change'[k]
                              => (local'[k] <=> truth[k])
        BY <1>2, <1>3 DEF CopyInv
    <2>1. CASE change'[k] = change[k] /\ local'[k] = local[k]
        BY <2>1 DEF ConvergeInv, CopyInv
    <2>2. CASE /\ change'[k] = sync[r].at
               /\ local'[k] <=> sync[r].page[k] = "in"
               /\ sync[r].page[k] \in {"in", "out"}
        BY <1>4, <2>2 DEF ConvergeInv, PageInv
    <2> QED
        BY <1>6, <2>1, <2>2
<1>11. PageInv'
    BY <1>2, <1>3, <1>5 DEF ConvergeInv, PageInv
<1> QED
    BY <1>7, <1>8, <1>9, <1>10, <1>11 DEF ConvergeInv

LEMMA BackendConverges ==
    ASSUME IInv, ConvergeInv, Backend
    PROVE  ConvergeInv'
<1>1. TypeOK
    BY DEF IInv
<1>2. ASSUME NEW k \in Keys, NEW e \in Events, Change(k, e)
      PROVE  ConvergeInv'
    <2> DEFINE action == IF truth[k] THEN "leave" ELSE "join"
    <2>1. action \in {"join", "leave"} /\ action \in Actions
        BY DEF Actions
    <2>2. /\ Send(e, action, k)
          /\ truth' = [truth EXCEPT ![k] = ~@]
          /\ action = IF truth[k] THEN "leave" ELSE "join"
        BY <1>2 DEF Change
    <2> HIDE DEF action
    <2> QED
        BY <2>1, <2>2, SendConverges
<1>3. ASSUME NEW k \in Keys, NEW e \in Events,
             NEW action \in {"impression", "dismiss", "unreadable"},
             React(k, e, action)
      PROVE  ConvergeInv'
    <2>1. action \in Actions /\ action \notin {"join", "leave"}
        BY DEF Actions
    <2>2. Send(e, action, k) /\ truth' = truth
        BY <1>3 DEF React
    <2> QED
        BY <2>1, <2>2, SendConverges
<1>4. ASSUME NEW e \in Events, VisibilityTimeout(e) \/ Resend(e)
      PROVE  ConvergeInv'
    <2>1. /\ queue[e] # "unsent"
          /\ queue' = [queue EXCEPT ![e] = "visible"]
          /\ UNCHANGED <<truth, clock, silent, log, local, change, processed, sync>>
        BY <1>4 DEF VisibilityTimeout, Resend, backendVars, memberVars
    <2>2. \A f \in Events : queue'[f] = "unsent" <=> queue[f] = "unsent"
        BY <1>1, <2>1 DEF TypeOK
    <2>3. clock \in Nat /\ clock' \in Nat /\ clock' >= clock
        BY <1>1, <2>1 DEF TypeOK
    <2> QED
        BY <2>1, <2>2, <2>3, NothingMoves
<1> QED
    BY <1>2, <1>3, <1>4, SilenceConverges DEF Backend

LEMMA ConsumerConverges ==
    ASSUME IInv, ConvergeInv,
           \/ \E w \in Workers, S \in SUBSET Events : Receive(w, S)
           \/ \E w \in Workers : Consume(w) \/ Restart(w)
    PROVE  ConvergeInv'
<1>1. TypeOK /\ ReceivedInv
    BY DEF IInv
<1>2. clock \in Nat /\ (clock' = clock => clock' \in Nat /\ clock' >= clock)
    BY <1>1 DEF TypeOK
<1>3. ASSUME NEW w \in Workers, NEW S \in SUBSET Events, Receive(w, S)
      PROVE  ConvergeInv'
    <2>1. UNCHANGED <<truth, clock, silent, log, local, change, processed, sync>>
        BY <1>3 DEF Receive, backendVars, memberVars
    <2>2. \A e \in Events : queue'[e] = "unsent" <=> queue[e] = "unsent"
        BY <1>3 DEF Receive
    <2> QED
        BY <1>2, <2>1, <2>2, NothingMoves
<1>4. ASSUME NEW w \in Workers, Begin(w) \/ Rollback(w) \/ Restart(w)
      PROVE  ConvergeInv'
    <2>1. UNCHANGED <<truth, clock, silent, log, queue, local, change, processed, sync>>
        BY <1>4 DEF Begin, Rollback, Restart, backendVars, memberVars
    <2> QED
        BY <1>2, <2>1, NothingMoves
<1>5. ASSUME NEW w \in Workers, Discard(w) \/ DeleteMessages(w)
      PROVE  ConvergeInv'
    <2>1. UNCHANGED <<truth, clock, silent, log, local, change, processed, sync>>
        BY <1>5 DEF Discard, DeleteMessages, backendVars, memberVars
    <2>2. \A e \in work[w].batch : queue[e] # "unsent"
        BY <1>1, <1>5 DEF Discard, DeleteMessages, ReceivedInv, Idle
    <2>3. \A e \in Events : queue'[e] = "unsent" <=> queue[e] = "unsent"
        BY <1>5, <2>2 DEF Discard, DeleteMessages
    <2> QED
        BY <1>2, <2>1, <2>3, NothingMoves
<1> QED
    BY <1>3, <1>4, <1>5, CommitConverges DEF Consume

LEMMA RefreshConverges ==
    ASSUME ClocksNotAhead, IInv, ConvergeInv, NEW r \in Refreshers, Refresh(r)
    PROVE  ConvergeInv'
<1>1. TypeOK
    BY DEF IInv
<1>2. CASE StartSync(r)
    <2>1. clock \in Nat /\ clock' \in Nat /\ clock' = clock + 1
        BY <1>1, <1>2, TickType DEF StartSync, TypeOK
    <2>2. Drift[r] \in Int /\ Drift[r] <= 0
        BY ConstantsAssumption DEF ClocksNotAhead
    <2>3. UNCHANGED <<truth, silent, log, queue, local, change, processed>>
        BY <1>2 DEF StartSync, memberVars
    <2>4. /\ sync'[r].at = clock + 1 + Drift[r]
          /\ \A k \in Keys : sync'[r].page[k] = "unread"
          /\ \A s \in Refreshers : s # r => sync'[s] = sync[s]
        BY <1>1, <1>2 DEF StartSync, TypeOK
    <2>5. sync'[r].at <= clock' /\ clock' >= clock
        BY <2>1, <2>2, <2>4
    <2> QED
        BY <2>1, <2>3, <2>4, <2>5, NothingMoves
<1>3. CASE \E k \in Keys : FetchPage(r, k)
    BY <1>3, PageConverges
<1>4. CASE ApplySync(r)
    BY <1>4, ApplyConverges
<1>5. CASE DropSync(r)
    <2>1. UNCHANGED <<truth, clock, silent, log, queue, local, change, processed>>
        BY <1>5 DEF DropSync, backendVars, memberVars
    <2>2. \A s \in Refreshers : sync'[s] = NoSync \/ sync'[s] = sync[s]
        BY <1>1, <1>5 DEF DropSync, TypeOK
    <2>3. clock \in Nat /\ clock' \in Nat /\ clock' >= clock
        BY <1>1, <2>1 DEF TypeOK
    <2> QED
        BY <2>1, <2>2, <2>3, NothingMoves
<1> QED
    BY <1>2, <1>3, <1>4, <1>5 DEF Refresh

LEMMA ConvergeStep ==
    ClocksNotAhead /\ IInv /\ ConvergeInv /\ [Next]_vars => ConvergeInv'
<1> SUFFICES ASSUME ClocksNotAhead, IInv, ConvergeInv, [Next]_vars PROVE ConvergeInv'
    OBVIOUS
<1>1. CASE UNCHANGED vars
    <2>1. UNCHANGED <<truth, clock, silent, log, queue, local, change, processed, sync>>
        BY <1>1 DEF vars
    <2>2. clock \in Nat /\ clock' \in Nat /\ clock' >= clock
        BY <2>1 DEF IInv, TypeOK
    <2> QED
        BY <2>1, <2>2, NothingMoves
<1> QED
    BY <1>1, BackendConverges, ConsumerConverges, RefreshConverges DEF Next

LEMMA InitConverges == Init => ConvergeInv
<1> SUFFICES ASSUME Init PROVE ConvergeInv
    OBVIOUS
<1>1. \A k : Changes(k) = {}
    BY DEF Init, Changes
<1> QED
    BY <1>1 DEF Init, ConvergeInv, MomentInv, TruthInv, StampInv, FoldedInv, CopyInv,
                PageInv, Last, NoChange

\* Once every event sent is processed, each copy's record has reached the last one.
LEMMA AllProcessed == IInv /\ ConvergeInv => Converged
<1> SUFFICES ASSUME IInv, ConvergeInv, silent = 0,
                    \A e \in Events : queue[e] # "unsent" /\ ~Unreadable(e)
                                         => e \in processed,
                    NEW k \in Keys
             PROVE  local[k] <=> truth[k]
    BY DEF Converged, IInv, TypeOK
<1>1. CASE Changes(k) = {}
    BY <1>1 DEF ConvergeInv, TruthInv, CopyInv
<1>2. CASE Changes(k) # {}
    <2>1. clock \in Nat /\ \A e \in Changes(k) : log[e].at \in Nat /\ log[e].at <= clock
        BY DEF IInv, TypeOK, Changes, SentInv, EventType
    <2>2. PICK e \in Changes(k) : \A f \in Changes(k) : log[f].at <= log[e].at
        BY <1>2, <2>1, LatestExists
    <2>3. e \in Events /\ Last(e, k) /\ e \in processed
        BY <2>2 DEF Last, Changes, Membership, Unreadable
    <2>4. log[e].at <= change[k]
        BY <2>2, <2>3 DEF ConvergeInv, FoldedInv
    <2> QED
        BY <2>3, <2>4 DEF ConvergeInv, CopyInv
<1> QED
    BY <1>1, <1>2

-----------------------------------------------------------------------------
(* The theorems                                                             *)

\* The invariant of the signals' copy: rows, batches, transactions and queue
\* agree on what was sent, received and stored (consumer.py, signal_service.py).
THEOREM InvariantHolds == IsFiniteSet(Events) => (Spec => []IInv)
<1> SUFFICES ASSUME IsFiniteSet(Events) PROVE Spec => []IInv
    OBVIOUS
<1>1. IInv /\ [Next]_vars => IInv'
    BY StepInvariant
<1> QED
    BY <1>1, InitInvariant, PTL DEF Spec

\* Every variable keeps its type.
THEOREM TypeCorrect == IsFiniteSet(Events) => (Spec => []TypeOK)
<1> SUFFICES ASSUME IsFiniteSet(Events) PROVE Spec => []TypeOK
    OBVIOUS
<1>1. IInv => TypeOK
    BY DEF IInv
<1> QED
    BY <1>1, InvariantHolds, PTL

\* A message that process_recommendation_events_messages deleted has its event in
\* rec_processed_events, whatever fails, stops or is delivered again in between.
THEOREM NoEventLost == IsFiniteSet(Events) => (Spec => []StoredBeforeDelete)
<1> SUFFICES ASSUME IsFiniteSet(Events) PROVE Spec => []StoredBeforeDelete
    OBVIOUS
<1>1. IInv => StoredBeforeDelete
    BY DEF IInv
<1> QED
    BY <1>1, InvariantHolds, PTL

\* rec_exposures counts each processed impression once, however often its message
\* is delivered and however many workers hold it.
THEOREM ImpressionsCountedOnce == IsFiniteSet(Events) => (Spec => []CountsExact)
<1> SUFFICES ASSUME IsFiniteSet(Events) PROVE Spec => []CountsExact
    OBVIOUS
<1>1. Init => CountsExact
    <2> SUFFICES ASSUME Init PROVE CountsExact
        OBVIOUS
    <2>1. \A k \in Keys : {e \in processed : log[e].action = "impression"
                                             /\ log[e].key = k} = {}
        BY DEF Init
    <2> QED
        BY <2>1, FS_EmptySet DEF CountsExact, Init
<1>2. IInv /\ CountsExact /\ [Next]_vars => CountsExact'
    BY CountsStep
<1> QED
    BY <1>1, <1>2, InvariantHolds, PTL DEF Spec

\* Neither a late event nor a snapshot takes a membership back: a row of
\* rec_memberships changes only with a later changed_at.
THEOREM MembershipsGoForward ==
    IsFiniteSet(Events) /\ ClocksRun => (Spec => ChangesGoForward)
<1> SUFFICES ASSUME IsFiniteSet(Events), ClocksRun PROVE Spec => ChangesGoForward
    OBVIOUS
<1>1. Init => MomentsInv
    BY DEF Init, MomentsInv
<1>2. IInv /\ MomentsInv /\ [Next]_vars => MomentsInv'
    BY MomentsStep
<1>3. IInv /\ MomentsInv /\ [Next]_vars => Forward
    BY ForwardStep
<1> QED
    BY <1>1, <1>2, <1>3, InvariantHolds, PTL DEF Spec, ChangesGoForward, Forward

\* When every change sent an event and every event sent is processed, in whatever
\* order apply_events and replace_memberships took them, rec_memberships are the
\* backend's, provided no refresher's clock is ahead of the backend's.
THEOREM MembershipsConverge ==
    IsFiniteSet(Events) /\ ClocksNotAhead => (Spec => []Converged)
<1> SUFFICES ASSUME IsFiniteSet(Events), ClocksNotAhead PROVE Spec => []Converged
    OBVIOUS
<1>1. IInv /\ ConvergeInv /\ [Next]_vars => ConvergeInv'
    BY ConvergeStep
<1> QED
    BY <1>1, InitConverges, AllProcessed, InvariantHolds, PTL DEF Spec


=============================================================================
