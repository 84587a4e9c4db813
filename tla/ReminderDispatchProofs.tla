------------------------ MODULE ReminderDispatchProofs ------------------------
(***************************************************************************)
(* Proofs about ReminderDispatch for every fleet, every set of enrolments   *)
(* and rows, and every number of requests and faults: type correctness, an  *)
(* enrolment keeps a reminder, a reminder rings once but for its slips, and *)
(* a reminder too many takes a race.                                        *)
(***************************************************************************)
EXTENDS ReminderDispatch, FiniteSetTheorems, TLAPS

-----------------------------------------------------------------------------
(* The inductive invariants                                                 *)

\* A dispatch holds pending rows only, and no other dispatch holds them.
LocksInv ==
    \A w \in Workers, r \in Rows : dispatch[w][r] # "out" =>
        /\ row[r] = "pending"
        /\ \A v \in Workers \ {w} : dispatch[v][r] = "out"

\* A request has read rows of its own enrolment.
ReadsInv ==
    \A w \in Workers : request[w] # NoRequest =>
        \A r \in request[w].read : Owner[r] = request[w].of

IInv ==
    /\ TypeOK
    /\ LocksInv
    /\ ReadsInv
    /\ EnrolledHasReminder

\* FCM took the push, and the row is still pending for all others.
Spent(r) == \E w \in Workers : dispatch[w][r] \in {"accepted", "swapped"}

\* What is sent has no marker, and what may be sent again has rung no more
\* often than there were slips.
PushesInv ==
    /\ \A w \in Workers, r \in Rows :
          dispatch[w][r] = "sending" => ~AlreadyDispatched(r)
    /\ \A r \in Rows :
          row[r] = "pending" /\ ~AlreadyDispatched(r) /\ ~Spent(r)
              => pushes[r] <= slips

-----------------------------------------------------------------------------
(* Type correctness                                                         *)

LEMMA FaultTypes ==
    ASSUME TypeOK, UNCHANGED faultVars \/ Glitch \/ Slip
    PROVE  faults' \in Nat /\ slips' \in Nat
BY DEF TypeOK, Glitch, Slip, faultVars

LEMMA ReplaceType ==
    ASSUME TypeOK, NEW gone \in SUBSET Rows, NEW come \in SUBSET Rows,
           NEW status \in Statuses, Replace(gone, status, come)
    PROVE  /\ row' \in [Rows -> Statuses]
           /\ due' \subseteq Rows \X Rows
           /\ markers' \subseteq Rows
           /\ pushes' \in [Rows -> Nat]
BY DEF TypeOK, Replace, Statuses

\* The legs of one dispatch, or of one row of it, are set.
LEMMA LegsType ==
    ASSUME TypeOK, NEW w \in Workers, NEW legs \in [Rows -> Legs],
           dispatch' = [dispatch EXCEPT ![w] = legs]
    PROVE  /\ dispatch' \in [Workers -> [Rows -> Legs]]
           /\ dispatch'[w] = legs
           /\ \A v \in Workers \ {w} : dispatch'[v] = dispatch[v]
BY DEF TypeOK

LEMMA LegType ==
    ASSUME TypeOK, NEW w \in Workers, NEW r \in Rows, NEW leg \in Legs,
           dispatch' = [dispatch EXCEPT ![w][r] = leg]
    PROVE  /\ dispatch' \in [Workers -> [Rows -> Legs]]
           /\ dispatch'[w][r] = leg
           /\ \A s \in Rows \ {r} : dispatch'[w][s] = dispatch[w][s]
           /\ \A v \in Workers \ {w} : dispatch'[v] = dispatch[v]
BY DEF TypeOK

LEMMA LegNames ==
    /\ {"out", "todo", "sending", "accepted", "kept", "swapped"} = Legs
    /\ NoLegs \in [Rows -> Legs]
    /\ \A B : [r \in Rows |-> IF r \in B THEN "todo" ELSE "out"] \in [Rows -> Legs]
BY DEF Legs, NoLegs

LEMMA PendingOfType ==
    ASSUME NEW e
    PROVE  PendingOf(e) \in SUBSET Rows
BY DEF PendingOf

LEMMA DispatchType ==
    ASSUME TypeOK, NEW w \in Workers, Dispatch(w)
    PROVE  TypeOK'
<1>1. ASSUME NEW B \in SUBSET Rows, BeginDispatch(w, B)
      PROVE  TypeOK'
    <2>1. dispatch' \in [Workers -> [Rows -> Legs]]
        BY <1>1, LegsType, LegNames DEF BeginDispatch
    <2> QED
        BY <1>1, <2>1 DEF TypeOK, BeginDispatch, rowVars, histVars, faultVars
<1>2. ASSUME NEW r \in Rows, StartSend(w, r)
      PROVE  TypeOK'
    <2>1. dispatch' \in [Workers -> [Rows -> Legs]]
        BY <1>2, LegType, LegNames DEF StartSend
    <2> QED
        BY <1>2, <2>1 DEF TypeOK, StartSend, rowVars, histVars, faultVars
<1>3. ASSUME NEW r \in Rows, FcmAccepts(w, r)
      PROVE  TypeOK'
    <2>1. dispatch' \in [Workers -> [Rows -> Legs]]
        BY <1>3, LegType, LegNames DEF FcmAccepts
    <2> QED
        BY <1>3, <2>1 DEF TypeOK, FcmAccepts, rowVars, histVars, faultVars
<1>4. ASSUME NEW r \in Rows, SendFails(w, r)
      PROVE  TypeOK'
    <2>1. dispatch' \in [Workers -> [Rows -> Legs]]
        BY <1>4, LegType, LegNames DEF SendFails
    <2>2. faults' \in Nat /\ slips' \in Nat
        BY <1>4, FaultTypes DEF SendFails, faultVars
    <2> QED
        BY <1>4, <2>1, <2>2 DEF TypeOK, SendFails, rowVars, histVars
<1>5. ASSUME NEW r \in Rows, Record(w, r)
      PROVE  TypeOK'
    <2>1. dispatch' \in [Workers -> [Rows -> Legs]]
        BY <1>5, LegType, LegNames DEF Record
    <2>2. faults' \in Nat /\ slips' \in Nat
        BY <1>5, FaultTypes DEF Record
    <2> QED
        BY <1>5, <2>1, <2>2 DEF TypeOK, Record, rowVars, histVars
<1>6. ASSUME CommitDispatch(w)
      PROVE  TypeOK'
    <2>1. PICK heir \in [At(w, {"swapped"}) -> Fresh(At(w, {"swapped"}))] :
              Replace(DOMAIN heir, "sent", {heir[r] : r \in DOMAIN heir})
        BY <1>6 DEF CommitDispatch
    <2>2. /\ DOMAIN heir \in SUBSET Rows
          /\ {heir[r] : r \in DOMAIN heir} \in SUBSET Rows
        BY DEF At, Fresh
    <2>3. /\ row' \in [Rows -> Statuses]
          /\ due' \subseteq Rows \X Rows
          /\ markers' \subseteq Rows
          /\ pushes' \in [Rows -> Nat]
        BY <2>1, <2>2, ReplaceType, "sent" \in Statuses DEF Statuses
    <2>4. dispatch' \in [Workers -> [Rows -> Legs]]
        BY <1>6, LegsType, LegNames DEF CommitDispatch
    <2> QED
        BY <1>6, <2>3, <2>4 DEF TypeOK, CommitDispatch, histVars, faultVars
<1>7. ASSUME AbortDispatch(w)
      PROVE  TypeOK'
    <2>1. dispatch' \in [Workers -> [Rows -> Legs]]
        BY <1>7, LegsType, LegNames DEF AbortDispatch
    <2>2. faults' \in Nat /\ slips' \in Nat
        BY <1>7, FaultTypes DEF AbortDispatch
    <2> QED
        BY <1>7, <2>1, <2>2 DEF TypeOK, AbortDispatch, rowVars, histVars
<1> QED
    BY <1>1, <1>2, <1>3, <1>4, <1>5, <1>6, <1>7 DEF Dispatch

LEMMA RequestType ==
    ASSUME TypeOK, NEW w \in Workers,
           \/ \E kind \in {"enroll", "update", "cancel"}, e \in Enrolments :
                 BeginRequest(w, kind, e)
           \/ CommitRequest(w)
           \/ FailRequest(w)
    PROVE  TypeOK'
<1>1. ASSUME NEW kind \in {"enroll", "update", "cancel"}, NEW e \in Enrolments,
             BeginRequest(w, kind, e)
      PROVE  TypeOK'
    <2>1. [kind |-> kind, of |-> e, read |-> PendingOf(e)] \in Requests
        BY PendingOfType DEF Requests
    <2>2. request' \in [Workers -> {NoRequest} \cup Requests]
        BY <1>1, <2>1 DEF TypeOK, BeginRequest
    <2> QED
        BY <1>1, <2>2 DEF TypeOK, BeginRequest, rowVars, faultVars
<1>2. ASSUME CommitRequest(w)
      PROVE  TypeOK'
    <2>1. request[w] \in Requests
        BY <1>2 DEF TypeOK, CommitRequest, LoopFree
    <2>2. PICK new \in SUBSET {r \in Fresh({}) : Owner[r] = request[w].of} :
              Replace(request[w].read, "cancelled", new)
        BY <1>2 DEF CommitRequest
    <2>3. new \in SUBSET Rows /\ request[w].read \in SUBSET Rows
        BY <2>1 DEF Fresh, Requests
    <2>4. /\ row' \in [Rows -> Statuses]
          /\ due' \subseteq Rows \X Rows
          /\ markers' \subseteq Rows
          /\ pushes' \in [Rows -> Nat]
        BY <2>2, <2>3, ReplaceType, "cancelled" \in Statuses DEF Statuses
    <2>5. request' \in [Workers -> {NoRequest} \cup Requests]
        BY <1>2 DEF TypeOK, CommitRequest
    <2>6. enrolled' \subseteq Enrolments /\ races' \in [Enrolments -> Nat]
        BY <1>2, <2>1 DEF TypeOK, CommitRequest, Requests
    <2> QED
        BY <1>2, <2>4, <2>5, <2>6 DEF TypeOK, CommitRequest, faultVars
<1>3. ASSUME FailRequest(w)
      PROVE  TypeOK'
    BY <1>3 DEF TypeOK, FailRequest, Glitch, rowVars, histVars
<1> QED
    BY <1>1, <1>2, <1>3

LEMMA TypeStep ==
    ASSUME TypeOK, [Next]_vars
    PROVE  TypeOK'
<1>1. ASSUME NEW r \in Rows, BecomeDue(r)
      PROVE  TypeOK'
    BY <1>1 DEF TypeOK, BecomeDue, histVars, faultVars
<1>2. ASSUME NEW r \in Rows, MarkerExpires(r)
      PROVE  TypeOK'
    BY <1>2 DEF TypeOK, MarkerExpires, rowVars, histVars
<1>3. ASSUME NEW w \in Workers, Restart(w)
      PROVE  TypeOK'
    <2>1. dispatch' \in [Workers -> [Rows -> Legs]]
        BY <1>3, LegsType, LegNames DEF Restart
    <2>2. faults' \in Nat /\ slips' \in Nat
        BY <1>3, FaultTypes DEF Restart
    <2> QED
        BY <1>3, <2>1, <2>2 DEF TypeOK, Restart, rowVars, histVars
<1>4. CASE UNCHANGED vars
    BY <1>4 DEF TypeOK, vars
<1> QED
    BY <1>1, <1>2, <1>3, <1>4, DispatchType, RequestType DEF Next

LEMMA TypeInit ==
    ASSUME Init
    PROVE  TypeOK
BY DEF Init, TypeOK, NoLegs, Legs, Statuses

\* Every reachable state is well-typed.
THEOREM TypeCorrect == Spec => []TypeOK
BY TypeInit, TypeStep, PTL DEF Spec

-----------------------------------------------------------------------------
(* Locks, and the reminder an enrolment keeps                               *)

LEMMA ReplaceEffect ==
    ASSUME TypeOK, NEW gone \in SUBSET Rows, NEW come \in SUBSET Rows,
           NEW status \in {"sent", "cancelled"}, Replace(gone, status, come)
    PROVE  /\ \A r \in come : row'[r] = "pending" /\ pushes'[r] = 0
           /\ \A r \in gone \ come : row'[r] = status
           /\ \A r \in Rows \ (gone \cup come) : row'[r] = row[r]
           /\ \A r \in Rows \ come :
                 /\ pushes'[r] = pushes[r]
                 /\ r \in markers' <=> r \in markers
BY DEF TypeOK, Replace

\* Each row of a committed dispatch has a successor of its own, and nothing
\* else changes.
LEMMA CommitDispatchEffect ==
    ASSUME TypeOK, NEW w \in Workers, CommitDispatch(w)
    PROVE  \E heir \in [At(w, {"swapped"}) -> Rows] :
              /\ \A r \in At(w, {"swapped"}) :
                    /\ Owner[heir[r]] = Owner[r]
                    /\ row'[heir[r]] = "pending"
                    /\ pushes'[heir[r]] = 0
              /\ \A r \in Rows : row'[r] = "pending" =>
                    \/ \E s \in At(w, {"swapped"}) : r = heir[s]
                    \/ /\ r \notin At(w, {"swapped"})
                       /\ row[r] = "pending"
                       /\ pushes'[r] = pushes[r]
                       /\ r \in markers => r \in markers'
              /\ \A r \in Rows \ At(w, {"swapped"}) :
                    row[r] = "pending" => row'[r] = "pending" /\ pushes'[r] = pushes[r]
              /\ markers' \subseteq markers
<1> DEFINE gone == At(w, {"swapped"})
<1>1. PICK heir \in [gone -> Fresh(gone)] :
          /\ \A r, s \in gone : Owner[heir[r]] = Owner[r]
          /\ Replace(gone, "sent", {heir[r] : r \in gone})
    BY DEF CommitDispatch
<1>2. /\ gone \subseteq Rows
      /\ heir \in [gone -> Rows]
      /\ \A r \in gone : row[heir[r]] = "pending" => heir[r] \in gone
    BY DEF Fresh, At
<1> HIDE DEF gone
<1>3. \A r \in gone : row'[heir[r]] = "pending" /\ pushes'[heir[r]] = 0
    BY <1>1, <1>2 DEF Replace
<1>4. \A r \in Rows : row'[r] = "pending" =>
          \/ \E s \in gone : r = heir[s]
          \/ /\ r \notin gone
             /\ row[r] = "pending"
             /\ pushes'[r] = pushes[r]
             /\ r \in markers => r \in markers'
    BY <1>1, <1>2 DEF Replace
<1>5. \A r \in Rows \ gone :
          row[r] = "pending" => row'[r] = "pending" /\ pushes'[r] = pushes[r]
    BY <1>1, <1>2 DEF Replace
<1>6. markers' \subseteq markers
    BY <1>1 DEF Replace
<1> QED
    BY <1>1, <1>2, <1>3, <1>4, <1>5, <1>6 DEF gone

LEMMA CommitRequestEffect ==
    ASSUME TypeOK, NEW w \in Workers, CommitRequest(w)
    PROVE  /\ request[w] \in Requests
           /\ \E new \in SUBSET {r \in Rows : /\ Owner[r] = request[w].of
                                             /\ row[r] # "pending"} :
                 /\ Cardinality(new) = IF request[w].kind = "cancel" THEN 0 ELSE 1
                 /\ Replace(request[w].read, "cancelled", new)
<1>1. request[w] \in Requests
    BY DEF TypeOK, CommitRequest, LoopFree
<1>2. Fresh({}) \subseteq {r \in Rows : row[r] # "pending"}
    BY DEF Fresh
<1> QED
    BY <1>1, <1>2 DEF CommitRequest

LEMMA LocksStep ==
    ASSUME IInv, [Next]_vars
    PROVE  LocksInv'
<1> USE DEF IInv
<1>1. ASSUME NEW w \in Workers, NEW B \in SUBSET Rows, BeginDispatch(w, B)
      PROVE  LocksInv'
    <2> DEFINE legs == [r \in Rows |-> IF r \in B THEN "todo" ELSE "out"]
    <2>1. /\ dispatch'[w] = legs
          /\ \A v \in Workers \ {w} : dispatch'[v] = dispatch[v]
        BY <1>1, LegsType, LegNames DEF BeginDispatch
    <2>2. \A r \in B : row[r] = "pending" /\ \A v \in Workers : dispatch[v][r] = "out"
        BY <1>1 DEF BeginDispatch, Available, Locked
    <2>3. row' = row
        BY <1>1 DEF BeginDispatch, rowVars
    <2> QED
        BY <2>1, <2>2, <2>3 DEF LocksInv
<1>2. ASSUME NEW w \in Workers, NEW r \in Rows,
             \/ StartSend(w, r) \/ FcmAccepts(w, r) \/ SendFails(w, r) \/ Record(w, r)
      PROVE  LocksInv'
    <2>1. PICK leg \in Legs : dispatch' = [dispatch EXCEPT ![w][r] = leg]
        BY <1>2, LegNames DEF StartSend, FcmAccepts, SendFails, Record
    <2>2. /\ dispatch[w][r] # "out"
          /\ row' = row
        BY <1>2 DEF StartSend, FcmAccepts, SendFails, Record, At, rowVars
    <2>3. \A v \in Workers, s \in Rows : dispatch'[v][s] # "out" => dispatch[v][s] # "out"
        BY <2>1, <2>2, LegType
    <2> QED
        BY <2>2, <2>3 DEF LocksInv
<1>3. ASSUME NEW w \in Workers, CommitDispatch(w)
      PROVE  LocksInv'
    <2>1. /\ dispatch'[w] = NoLegs
          /\ \A v \in Workers \ {w} : dispatch'[v] = dispatch[v]
        BY <1>3, LegsType, LegNames DEF CommitDispatch
    <2>3. \A r \in Rows \ At(w, {"swapped"}) : row[r] = "pending" => row'[r] = "pending"
        BY <1>3, CommitDispatchEffect
    <2>4. \A v \in Workers \ {w}, r \in Rows :
              dispatch[v][r] # "out" => r \notin At(w, {"swapped"})
        BY DEF LocksInv, At
    <2> QED
        BY <2>1, <2>3, <2>4 DEF LocksInv, NoLegs
<1>4. ASSUME NEW w \in Workers, AbortDispatch(w) \/ Restart(w)
      PROVE  LocksInv'
    <2>1. /\ dispatch'[w] = NoLegs
          /\ \A v \in Workers \ {w} : dispatch'[v] = dispatch[v]
        BY <1>4, LegsType, LegNames DEF AbortDispatch, Restart
    <2>2. row' = row
        BY <1>4 DEF AbortDispatch, Restart, rowVars
    <2> QED
        BY <2>1, <2>2 DEF LocksInv, NoLegs
<1>5. ASSUME NEW w \in Workers, CommitRequest(w)
      PROVE  LocksInv'
    <2>1. PICK new \in SUBSET Rows : Replace(request[w].read, "cancelled", new)
        BY <1>5, CommitRequestEffect
    <2>2. request[w].read \in SUBSET Rows
        BY <1>5, CommitRequestEffect DEF Requests
    <2>3. \A r \in Rows \ request[w].read : row[r] = "pending" => row'[r] = "pending"
        BY <2>1, <2>2, ReplaceEffect, "cancelled" \in {"sent", "cancelled"}
    <2>4. dispatch' = dispatch /\ \A r \in request[w].read : ~Locked(r)
        BY <1>5 DEF CommitRequest, Granted
    <2> QED
        BY <2>3, <2>4 DEF LocksInv, Locked
<1>6. ASSUME \/ UNCHANGED vars
             \/ \E r \in Rows : BecomeDue(r) \/ MarkerExpires(r)
             \/ \E w \in Workers : FailRequest(w)
             \/ \E w \in Workers, kind \in {"enroll", "update", "cancel"},
                   e \in Enrolments : BeginRequest(w, kind, e)
      PROVE  LocksInv'
    <2>1. row' = row /\ dispatch' = dispatch
        BY <1>6 DEF vars, BecomeDue, MarkerExpires, FailRequest, BeginRequest, rowVars
    <2> QED
        BY <2>1 DEF LocksInv
<1> QED
    BY <1>1, <1>2, <1>3, <1>4, <1>5, <1>6 DEF Next, Dispatch

LEMMA EnrolledStep ==
    ASSUME IInv, [Next]_vars
    PROVE  ReadsInv' /\ EnrolledHasReminder'
<1> USE DEF IInv
<1>1. ASSUME NEW w \in Workers, CommitDispatch(w)
      PROVE  ReadsInv' /\ EnrolledHasReminder'
    <2>1. PICK heir \in [At(w, {"swapped"}) -> Rows] :
              /\ \A r \in At(w, {"swapped"}) :
                    Owner[heir[r]] = Owner[r] /\ row'[heir[r]] = "pending"
              /\ \A r \in Rows \ At(w, {"swapped"}) :
                    row[r] = "pending" => row'[r] = "pending"
        BY <1>1, CommitDispatchEffect
    <2>2. enrolled' = enrolled /\ request' = request
        BY <1>1 DEF CommitDispatch, histVars
    <2>3. ASSUME NEW e \in enrolled, NEW r \in PendingOf(e)
          PROVE  PendingOf(e)' # {}
        <3>1. r \in Rows /\ Owner[r] = e /\ row[r] = "pending"
            BY DEF PendingOf
        <3>2. CASE r \in At(w, {"swapped"})
            BY <2>1, <3>1, <3>2 DEF PendingOf
        <3>3. CASE r \notin At(w, {"swapped"})
            BY <2>1, <3>1, <3>3 DEF PendingOf
        <3> QED
            BY <3>2, <3>3
    <2> QED
        BY <2>2, <2>3 DEF EnrolledHasReminder, ReadsInv
<1>2. ASSUME NEW w \in Workers, CommitRequest(w)
      PROVE  ReadsInv' /\ EnrolledHasReminder'
    <2> DEFINE q == request[w]
    <2>1. q \in Requests /\ q # NoRequest
        BY <1>2, CommitRequestEffect DEF CommitRequest, LoopFree
    <2>2. PICK new \in SUBSET {r \in Rows : Owner[r] = q.of /\ row[r] # "pending"} :
              /\ Cardinality(new) = IF q.kind = "cancel" THEN 0 ELSE 1
              /\ Replace(q.read, "cancelled", new)
        BY <1>2, CommitRequestEffect
    <2>3. /\ request' = [request EXCEPT ![w] = NoRequest]
          /\ enrolled' = IF q.kind = "cancel" THEN enrolled \ {q.of}
                         ELSE enrolled \cup {q.of}
        BY <1>2 DEF CommitRequest
    <2>4. ReadsInv'
        BY <2>3 DEF ReadsInv, TypeOK
    <2>5. ASSUME NEW e \in enrolled', e # q.of
          PROVE  PendingOf(e)' # {}
        <3>1. PICK r \in PendingOf(e) : TRUE
            BY <2>3, <2>5 DEF EnrolledHasReminder
        <3>2. r \notin q.read
            BY <2>1, <2>5 DEF ReadsInv, PendingOf
        <3>3. row'[r] = "pending"
            BY <2>2, <3>2 DEF Replace, PendingOf
        <3> QED
            BY <3>3 DEF PendingOf
    <2>6. ASSUME NEW e \in enrolled', e = q.of
          PROVE  PendingOf(e)' # {}
        <3>1. Cardinality(new) = 1
            BY <2>2, <2>3, <2>6
        <3>2. PICK r \in new : TRUE
            BY <3>1, FS_EmptySet
        <3>3. row'[r] = "pending"
            BY <2>2 DEF Replace
        <3>4. r \in Rows /\ Owner[r] = e
            BY <2>6
        <3> QED
            BY <3>3, <3>4 DEF PendingOf
    <2> QED
        BY <2>4, <2>5, <2>6 DEF EnrolledHasReminder
<1>3. ASSUME NEW w \in Workers, NEW kind \in {"enroll", "update", "cancel"},
             NEW e \in Enrolments, BeginRequest(w, kind, e)
      PROVE  ReadsInv' /\ EnrolledHasReminder'
    <2>1. /\ row' = row /\ enrolled' = enrolled
          /\ request' = [request EXCEPT ![w] =
                            [kind |-> kind, of |-> e, read |-> PendingOf(e)]]
        BY <1>3 DEF BeginRequest, rowVars
    <2>2. EnrolledHasReminder'
        BY <2>1 DEF EnrolledHasReminder, PendingOf
    <2>3. ReadsInv'
        BY <2>1 DEF ReadsInv, TypeOK, PendingOf
    <2> QED
        BY <2>2, <2>3
<1>4. ASSUME NEW w \in Workers, FailRequest(w) \/ Restart(w)
      PROVE  ReadsInv' /\ EnrolledHasReminder'
    <2>1. /\ row' = row /\ enrolled' = enrolled
          /\ request' = [request EXCEPT ![w] = NoRequest]
        BY <1>4 DEF FailRequest, Restart, rowVars, histVars
    <2> QED
        BY <2>1 DEF EnrolledHasReminder, PendingOf, ReadsInv, TypeOK
<1>5. ASSUME \/ UNCHANGED vars
             \/ \E r \in Rows : BecomeDue(r) \/ MarkerExpires(r)
             \/ \E w \in Workers : Dispatch(w) /\ ~CommitDispatch(w)
      PROVE  ReadsInv' /\ EnrolledHasReminder'
    <2>1. row' = row /\ enrolled' = enrolled /\ request' = request
        BY <1>5 DEF vars, BecomeDue, MarkerExpires, Dispatch, BeginDispatch, StartSend,
            FcmAccepts, SendFails, Record, AbortDispatch, rowVars, histVars
    <2> QED
        BY <2>1 DEF EnrolledHasReminder, PendingOf, ReadsInv
<1> QED
    BY <1>1, <1>2, <1>3, <1>4, <1>5 DEF Next

LEMMA IInvInit ==
    ASSUME Init
    PROVE  IInv
BY TypeInit DEF Init, IInv, LocksInv, ReadsInv, EnrolledHasReminder, NoLegs

LEMMA IInvStep ==
    ASSUME IInv, [Next]_vars
    PROVE  IInv'
BY TypeStep, LocksStep, EnrolledStep DEF IInv

\* An enrolment that was not cancelled has a pending reminder, whatever
\* dispatches, requests, failures and restarts overlap.
THEOREM HabitNeverEndsUnnoticed == Spec => []EnrolledHasReminder
<1>1. Spec => []IInv
    BY IInvInit, IInvStep, PTL DEF Spec
<1>2. IInv => EnrolledHasReminder
    BY DEF IInv
<1> QED
    BY <1>1, <1>2, PTL

-----------------------------------------------------------------------------
(* How often a reminder rings                                               *)

RingsInv ==
    /\ IInv
    /\ PushesInv
    /\ RingsOnce

\* Steps that add no push, take no marker away, and let no row out of a
\* dispatch that has rung.
LEMMA QuietStep ==
    ASSUME RingsInv, TypeOK',
           markers \subseteq markers', pushes' = pushes, slips' >= slips,
           \A r \in Rows : row'[r] = "pending" => row[r] = "pending",
           \A w \in Workers, r \in Rows :
              dispatch[w][r] \in {"accepted", "swapped"}
                 => dispatch'[w][r] \in {"accepted", "swapped"},
           \A w \in Workers, r \in Rows :
              dispatch'[w][r] = "sending" => ~AlreadyDispatched(r)'
    PROVE  PushesInv' /\ RingsOnce'
<1>1. \A r \in Rows : Spent(r) => Spent(r)'
    BY DEF Spent
<1>2. \A r \in Rows : AlreadyDispatched(r) => AlreadyDispatched(r)'
    BY DEF AlreadyDispatched
<1>3. \A r \in Rows : pushes[r] \in Nat /\ pushes'[r] = pushes[r]
    BY DEF RingsInv, IInv, TypeOK
<1>4. slips \in Nat /\ slips' \in Nat
    BY DEF RingsInv, IInv, TypeOK
<1>5. PushesInv'
    BY <1>1, <1>2, <1>3, <1>4 DEF RingsInv, PushesInv
<1>6. RingsOnce'
    BY <1>3, <1>4 DEF RingsInv, RingsOnce
<1> QED
    BY <1>5, <1>6

\* A slip makes up for whatever may ring again.
LEMMA SlipStep ==
    ASSUME RingsInv, TypeOK', pushes' = pushes, slips' = slips + 1,
           \A w \in Workers, r \in Rows :
              dispatch'[w][r] = "sending" => ~AlreadyDispatched(r)'
    PROVE  PushesInv' /\ RingsOnce'
<1>1. \A r \in Rows : pushes'[r] <= slips'
    BY DEF RingsInv, IInv, TypeOK, RingsOnce
<1>2. \A r \in Rows : pushes'[r] \in Nat /\ slips' \in Nat
    BY DEF TypeOK
<1> QED
    BY <1>1, <1>2 DEF PushesInv, RingsOnce

LEMMA SendsStep ==
    ASSUME RingsInv, TypeOK', NEW w \in Workers, NEW r \in Rows,
           \/ StartSend(w, r) \/ FcmAccepts(w, r) \/ SendFails(w, r) \/ Record(w, r)
    PROVE  PushesInv' /\ RingsOnce'
<1> USE DEF RingsInv, IInv
<1>1. CASE StartSend(w, r)
    <2>1. UNCHANGED <<row, markers, pushes, slips>>
        BY <1>1 DEF StartSend, rowVars, faultVars
    <2> DEFINE leg == IF AlreadyDispatched(r) THEN "kept" ELSE "sending"
    <2>2. leg \in Legs /\ dispatch' = [dispatch EXCEPT ![w][r] = leg]
        BY <1>1, LegNames DEF StartSend
    <2>3. dispatch[w][r] = "todo"
        BY <1>1 DEF StartSend, At
    <2>4. /\ dispatch'[w][r] = leg
          /\ \A s \in Rows \ {r} : dispatch'[w][s] = dispatch[w][s]
          /\ \A v \in Workers \ {w} : dispatch'[v] = dispatch[v]
        <3> HIDE DEF leg
        <3> QED
            BY <2>2, LegType
    <2>5. \A v \in Workers, s \in Rows :
              dispatch'[v][s] = "sending" => ~AlreadyDispatched(s)'
        BY <2>1, <2>4 DEF PushesInv, AlreadyDispatched
    <2>6. \A v \in Workers, s \in Rows :
              dispatch[v][s] \in {"accepted", "swapped"}
                 => dispatch'[v][s] \in {"accepted", "swapped"}
        BY <2>3, <2>4
    <2>7. slips' >= slips
        BY <2>1 DEF TypeOK
    <2> QED
        BY <2>1, <2>5, <2>6, <2>7, QuietStep
<1>2. CASE FcmAccepts(w, r)
    <2>1. /\ UNCHANGED <<row, markers, slips>>
          /\ pushes' = [pushes EXCEPT ![r] = @ + 1]
          /\ dispatch[w][r] = "sending"
        BY <1>2 DEF FcmAccepts, rowVars, faultVars
    <2>2. /\ dispatch'[w][r] = "accepted"
          /\ \A s \in Rows \ {r} : dispatch'[w][s] = dispatch[w][s]
          /\ \A v \in Workers \ {w} : dispatch'[v] = dispatch[v]
        BY <1>2, LegType, LegNames DEF FcmAccepts
    <2>3. pushes[r] <= slips
        <3>1. row[r] = "pending" /\ ~Spent(r)
            BY <2>1 DEF LocksInv, Spent
        <3> QED
            BY <2>1, <3>1 DEF PushesInv
    <2>4. /\ pushes'[r] = pushes[r] + 1
          /\ \A s \in Rows \ {r} : pushes'[s] = pushes[s]
          /\ pushes[r] \in Nat /\ slips \in Nat
        BY <2>1 DEF TypeOK
    <2>5. RingsOnce'
        BY <2>1, <2>3, <2>4 DEF RingsOnce
    <2>6. Spent(r)' /\ \A s \in Rows \ {r} : Spent(s) <=> Spent(s)'
        BY <2>2 DEF Spent
    <2>7. \A s \in Rows : AlreadyDispatched(s)' <=> AlreadyDispatched(s)
        BY <2>1 DEF AlreadyDispatched
    <2>8. \A s \in Rows \ {r} : row'[s] = "pending" /\ ~AlreadyDispatched(s)' /\ ~Spent(s)'
              => pushes'[s] <= slips'
        BY <2>1, <2>4, <2>6, <2>7 DEF PushesInv
    <2>9. \A v \in Workers, s \in Rows :
              dispatch'[v][s] = "sending" => ~AlreadyDispatched(s)'
        BY <2>2, <2>7 DEF PushesInv
    <2> QED
        BY <2>5, <2>6, <2>8, <2>9 DEF PushesInv
<1>3. CASE SendFails(w, r)
    <2>1. /\ UNCHANGED <<row, markers>>
          /\ dispatch[w][r] = "sending"
        BY <1>3 DEF SendFails, rowVars
    <2>2. /\ dispatch'[w][r] = "kept"
          /\ \A s \in Rows \ {r} : dispatch'[w][s] = dispatch[w][s]
          /\ \A v \in Workers \ {w} : dispatch'[v] = dispatch[v]
        BY <1>3, LegType, LegNames DEF SendFails
    <2>3. \A v \in Workers, s \in Rows :
              dispatch'[v][s] = "sending" => ~AlreadyDispatched(s)'
        BY <2>1, <2>2 DEF PushesInv, AlreadyDispatched
    <2>4. CASE UNCHANGED <<pushes, faultVars>>
        <3>1. slips' >= slips
            BY <2>4 DEF TypeOK, faultVars
        <3>2. \A v \in Workers, s \in Rows :
                  dispatch[v][s] \in {"accepted", "swapped"}
                     => dispatch'[v][s] \in {"accepted", "swapped"}
            BY <2>1, <2>2
        <3> QED
            BY <2>1, <2>3, <2>4, <3>1, <3>2, QuietStep
    <2>5. CASE Slip /\ pushes' = [pushes EXCEPT ![r] = @ + 1]
        <3>1. /\ slips' = slips + 1 /\ slips \in Nat
              /\ \A s \in Rows : pushes[s] \in Nat
              /\ pushes'[r] = pushes[r] + 1
              /\ \A s \in Rows \ {r} : pushes'[s] = pushes[s]
            BY <2>5 DEF TypeOK, Slip
        <3>2. pushes[r] <= slips
            <4>1. row[r] = "pending" /\ ~Spent(r)
                BY <2>1 DEF LocksInv, Spent
            <4> QED
                BY <2>1, <4>1 DEF PushesInv
        <3>3. \A s \in Rows : pushes'[s] <= slips'
            BY <3>1, <3>2 DEF RingsOnce
        <3>4. \A s \in Rows : pushes'[s] \in Nat /\ slips' \in Nat
            BY DEF TypeOK
        <3> QED
            BY <2>3, <3>3, <3>4 DEF PushesInv, RingsOnce
    <2> QED
        BY <1>3, <2>4, <2>5 DEF SendFails
<1>4. CASE Record(w, r)
    <2>1. /\ UNCHANGED <<row, pushes>>
          /\ dispatch[w][r] = "accepted"
          /\ markers \subseteq markers' /\ markers' \subseteq markers \cup {r}
          /\ slips' = slips
        BY <1>4 DEF Record, rowVars, faultVars, Glitch
    <2>2. /\ dispatch'[w][r] = "swapped"
          /\ \A s \in Rows \ {r} : dispatch'[w][s] = dispatch[w][s]
          /\ \A v \in Workers \ {w} : dispatch'[v] = dispatch[v]
        <3>1. dispatch' = [dispatch EXCEPT ![w][r] = "swapped"]
            BY <1>4 DEF Record
        <3> QED
            BY <3>1, LegType, LegNames
    <2>3. \A v \in Workers : dispatch'[v][r] # "sending"
        BY <2>1, <2>2 DEF LocksInv
    <2>4. \A v \in Workers, s \in Rows :
              dispatch'[v][s] = "sending" => ~AlreadyDispatched(s)'
        BY <2>1, <2>2, <2>3 DEF PushesInv, AlreadyDispatched
    <2>5. \A v \in Workers, s \in Rows :
              dispatch[v][s] \in {"accepted", "swapped"}
                 => dispatch'[v][s] \in {"accepted", "swapped"}
        BY <2>2
    <2>6. slips' >= slips
        BY <2>1 DEF TypeOK
    <2> QED
        BY <2>1, <2>4, <2>5, <2>6, QuietStep
<1> QED
    BY <1>1, <1>2, <1>3, <1>4

LEMMA RingsStep ==
    ASSUME RingsInv, [Next]_vars
    PROVE  RingsInv'
<1> USE DEF RingsInv
<1>1. IInv' /\ TypeOK'
    BY IInvStep DEF IInv
<1>2. ASSUME NEW w \in Workers, NEW B \in SUBSET Rows, BeginDispatch(w, B)
      PROVE  PushesInv' /\ RingsOnce'
    <2>1. UNCHANGED <<row, markers, pushes, slips>>
        BY <1>2 DEF BeginDispatch, rowVars, faultVars
    <2>2. /\ \A r \in Rows : dispatch'[w][r] \in {"todo", "out"}
          /\ \A v \in Workers \ {w} : dispatch'[v] = dispatch[v]
        BY <1>2, LegsType, LegNames DEF BeginDispatch, IInv
    <2>3. dispatch[w] = NoLegs
        BY <1>2 DEF BeginDispatch
    <2>4. \A v \in Workers, r \in Rows :
              dispatch[v][r] \in {"accepted", "swapped"}
                 => dispatch'[v][r] \in {"accepted", "swapped"}
        BY <2>2, <2>3 DEF NoLegs
    <2>5. \A v \in Workers, r \in Rows :
              dispatch'[v][r] = "sending" => ~AlreadyDispatched(r)'
        BY <2>1, <2>2 DEF PushesInv, AlreadyDispatched
    <2>6. slips' >= slips
        BY <2>1 DEF IInv, TypeOK
    <2> QED
        BY <1>1, <2>1, <2>4, <2>5, <2>6, QuietStep
<1>3. ASSUME NEW w \in Workers, CommitDispatch(w)
      PROVE  PushesInv' /\ RingsOnce'
    <2> DEFINE gone == At(w, {"swapped"})
    <2>1. PICK heir \in [gone -> Rows] :
              /\ \A r \in gone : pushes'[heir[r]] = 0
              /\ \A r \in Rows : row'[r] = "pending" =>
                    \/ \E s \in gone : r = heir[s]
                    \/ /\ r \notin gone
                       /\ row[r] = "pending"
                       /\ pushes'[r] = pushes[r]
                       /\ r \in markers => r \in markers'
              /\ markers' \subseteq markers
        BY <1>1, <1>3, CommitDispatchEffect DEF IInv
    <2>2. /\ dispatch'[w] = NoLegs
          /\ \A v \in Workers \ {w} : dispatch'[v] = dispatch[v]
          /\ At(w, {"todo", "sending", "accepted"}) = {}
        BY <1>3, LegsType, LegNames DEF CommitDispatch, IInv
    <2>3. slips' = slips /\ slips \in Nat
        BY <1>3 DEF CommitDispatch, faultVars, IInv, TypeOK
    <2>4. \A v \in Workers, r \in Rows :
              dispatch'[v][r] = "sending" => ~AlreadyDispatched(r)'
        BY <2>1, <2>2 DEF PushesInv, AlreadyDispatched, NoLegs
    <2>5. ASSUME NEW r \in Rows, row'[r] = "pending", ~AlreadyDispatched(r)', ~Spent(r)'
          PROVE  pushes'[r] <= slips'
        <3>1. CASE \E s \in gone : r = heir[s]
            BY <2>1, <2>3, <3>1
        <3>2. CASE r \notin gone /\ row[r] = "pending" /\ pushes'[r] = pushes[r]
                   /\ (r \in markers => r \in markers')
            <4>1. ~AlreadyDispatched(r)
                BY <2>5, <3>2 DEF AlreadyDispatched
            <4>2. ~Spent(r)
                BY <2>2, <2>5, <3>2 DEF Spent, At
            <4> QED
                BY <2>3, <3>2, <4>1, <4>2 DEF PushesInv
        <3> QED
            BY <2>1, <2>5, <3>1, <3>2
    <2>6. RingsOnce'
        <3>1. \E come \in SUBSET Rows : Replace(gone, "sent", come)
            <4>1. PICK h \in [gone -> Fresh(gone)] :
                      Replace(DOMAIN h, "sent", {h[r] : r \in DOMAIN h})
                BY <1>3 DEF CommitDispatch
            <4>2. {h[r] : r \in DOMAIN h} \in SUBSET Rows
                BY DEF Fresh
            <4> QED
                BY <4>1, <4>2
        <3>2. \A r \in Rows : pushes'[r] = 0 \/ pushes'[r] = pushes[r]
            BY <3>1 DEF Replace
        <3> QED
            BY <2>3, <3>2 DEF RingsOnce
    <2> QED
        BY <2>4, <2>5, <2>6 DEF PushesInv
<1>4. ASSUME NEW w \in Workers, AbortDispatch(w) \/ Restart(w)
      PROVE  PushesInv' /\ RingsOnce'
    <2>1. UNCHANGED <<row, markers, pushes>>
        BY <1>4 DEF AbortDispatch, Restart, rowVars
    <2>2. /\ dispatch'[w] = NoLegs
          /\ \A v \in Workers \ {w} : dispatch'[v] = dispatch[v]
        BY <1>4, LegsType, LegNames DEF AbortDispatch, Restart, IInv
    <2>3. \A v \in Workers, r \in Rows :
              dispatch'[v][r] = "sending" => ~AlreadyDispatched(r)'
        BY <2>1, <2>2 DEF PushesInv, AlreadyDispatched, NoLegs
    <2>4. CASE Repeats(w)
        <3>1. slips' = slips + 1
            BY <1>4, <2>4 DEF AbortDispatch, Restart, Slip
        <3> QED
            BY <1>1, <2>1, <2>3, <3>1, SlipStep
    <2>5. CASE ~Repeats(w)
        <3>1. slips' = slips
            BY <1>4, <2>5 DEF AbortDispatch, Restart, Glitch
        <3>2. \A r \in Rows : dispatch[w][r] \in {"accepted", "swapped"}
                  => AlreadyDispatched(r)
            BY <2>5 DEF Repeats, At
        <3>3. \A r \in Rows : ~AlreadyDispatched(r)' /\ ~Spent(r)'
                  => ~AlreadyDispatched(r) /\ ~Spent(r)
            BY <2>1, <2>2, <3>2 DEF AlreadyDispatched, Spent
        <3> QED
            BY <2>1, <2>3, <3>1, <3>3 DEF PushesInv, RingsOnce
    <2> QED
        BY <2>4, <2>5
<1>5. ASSUME NEW w \in Workers, CommitRequest(w)
      PROVE  PushesInv' /\ RingsOnce'
    <2>1. PICK new \in SUBSET Rows : Replace(request[w].read, "cancelled", new)
        BY <1>5, CommitRequestEffect DEF IInv
    <2>2. UNCHANGED <<dispatch, slips>> /\ slips \in Nat
        BY <1>5 DEF CommitRequest, faultVars, IInv, TypeOK
    <2>3. \A r \in new : pushes'[r] = 0
        BY <2>1 DEF Replace
    <2>4. \A r \in Rows \ new :
              /\ pushes'[r] = pushes[r]
              /\ row'[r] = "pending" => row[r] = "pending"
              /\ r \in markers <=> r \in markers'
        BY <2>1 DEF Replace
    <2>5. markers' \subseteq markers
        BY <2>1 DEF Replace
    <2>6. \A v \in Workers, r \in Rows :
              dispatch'[v][r] = "sending" => ~AlreadyDispatched(r)'
        BY <2>2, <2>5 DEF PushesInv, AlreadyDispatched
    <2>7. ASSUME NEW r \in Rows, row'[r] = "pending", ~AlreadyDispatched(r)', ~Spent(r)'
          PROVE  pushes'[r] <= slips'
        BY <2>2, <2>3, <2>4, <2>7 DEF PushesInv, AlreadyDispatched, Spent
    <2>8. RingsOnce'
        BY <2>2, <2>3, <2>4 DEF RingsOnce
    <2> QED
        BY <2>6, <2>7, <2>8 DEF PushesInv
<1>6. ASSUME NEW r \in Rows, MarkerExpires(r)
      PROVE  PushesInv' /\ RingsOnce'
    <2>1. /\ UNCHANGED <<row, dispatch, pushes>>
          /\ markers' = markers \ {r}
        BY <1>6 DEF MarkerExpires, rowVars
    <2>2. \A v \in Workers, s \in Rows :
              dispatch'[v][s] = "sending" => ~AlreadyDispatched(s)'
        BY <2>1 DEF PushesInv, AlreadyDispatched
    <2>3. CASE row[r] = "pending" /\ \A w \in Workers : dispatch[w][r] # "swapped"
        <3>1. slips' = slips + 1
            BY <1>6, <2>3 DEF MarkerExpires
        <3> QED
            BY <1>1, <2>1, <2>2, <3>1, SlipStep
    <2>4. CASE ~(row[r] = "pending" /\ \A w \in Workers : dispatch[w][r] # "swapped")
        <3>1. slips' = slips
            BY <1>6, <2>4 DEF MarkerExpires
        <3>2. row[r] # "pending" \/ Spent(r)
            BY <2>4 DEF Spent
        <3>3. \A s \in Rows \ {r} : AlreadyDispatched(s)' <=> AlreadyDispatched(s)
            BY <2>1 DEF AlreadyDispatched
        <3>4. \A s \in Rows : Spent(s)' <=> Spent(s)
            BY <2>1 DEF Spent
        <3> QED
            BY <2>1, <2>2, <3>1, <3>2, <3>3, <3>4 DEF PushesInv, RingsOnce
    <2> QED
        BY <2>3, <2>4
<1>7. ASSUME \/ UNCHANGED vars
             \/ \E r \in Rows : BecomeDue(r)
             \/ \E w \in Workers : FailRequest(w)
             \/ \E w \in Workers, kind \in {"enroll", "update", "cancel"},
                   e \in Enrolments : BeginRequest(w, kind, e)
      PROVE  PushesInv' /\ RingsOnce'
    <2>1. UNCHANGED <<row, dispatch, markers, pushes, slips>>
        BY <1>7 DEF vars, BecomeDue, FailRequest, BeginRequest, Glitch, rowVars, faultVars
    <2> QED
        BY <2>1 DEF PushesInv, RingsOnce, Spent, AlreadyDispatched
<1> QED
    BY <1>1, <1>2, <1>3, <1>4, <1>5, <1>6, <1>7, SendsStep DEF Next, Dispatch

\* A reminder rings once, and once more for each slip, whatever dispatches,
\* requests, failures and restarts overlap.
THEOREM NoReminderRingsTwice == Spec => []RingsOnce
<1>1. Init => RingsInv
    <2>1. Init => IInv
        BY IInvInit
    <2>2. Init => PushesInv /\ RingsOnce
        BY DEF Init, PushesInv, RingsOnce, Spent, NoLegs
    <2> QED
        BY <2>1, <2>2 DEF RingsInv
<1>2. RingsInv /\ [Next]_vars => RingsInv'
    BY RingsStep
<1>3. RingsInv => RingsOnce
    BY DEF RingsInv
<1> QED
    BY <1>1, <1>2, <1>3, PTL DEF Spec

-----------------------------------------------------------------------------
(* How many reminders an enrolment has                                      *)

LEMMA UnionBound ==
    ASSUME NEW S, NEW T, IsFiniteSet(S), IsFiniteSet(T), NEW U \in SUBSET (S \cup T)
    PROVE  /\ IsFiniteSet(U)
           /\ Cardinality(U) <= Cardinality(S) + Cardinality(T)
<1>1. /\ IsFiniteSet(S \cup T)
      /\ Cardinality(S \cup T) = Cardinality(S) + Cardinality(T) - Cardinality(S \cap T)
    BY FS_Union
<1>2. /\ IsFiniteSet(U)
      /\ Cardinality(U) <= Cardinality(S \cup T)
    BY <1>1, FS_Subset
<1>3. IsFiniteSet(S \cap T)
    BY FS_Subset, S \cap T \in SUBSET S
<1>4. /\ Cardinality(S) \in Nat /\ Cardinality(T) \in Nat
      /\ Cardinality(S \cap T) \in Nat /\ Cardinality(U) \in Nat
    BY <1>2, <1>3, FS_CardinalityType
<1> QED
    BY <1>1, <1>2, <1>4

\* A function has no more values than arguments.
LEMMA ImageBound ==
    ASSUME NEW S, IsFiniteSet(S), NEW f, DOMAIN f = S, f = [x \in S |-> f[x]]
    PROVE  LET T == {f[x] : x \in S}
           IN  IsFiniteSet(T) /\ Cardinality(T) <= Cardinality(S)
<1> DEFINE T == {f[x] : x \in S}
<1>1. f \in [S -> T]
    OBVIOUS
<1>2. \A y \in T : \E x \in S : f[x] = y
    OBVIOUS
<1>3. f \in Surjection(S, T)
    BY <1>1, <1>2 DEF Surjection
<1> HIDE DEF T
<1>4. IsFiniteSet(T) /\ Cardinality(T) <= Cardinality(S)
    BY <1>3, FS_Surjection
<1> QED
    BY <1>4 DEF T

LEMMA PendingFinite ==
    ASSUME NEW e
    PROVE  IsFiniteSet(PendingOf(e)) /\ Cardinality(PendingOf(e)) \in Nat
BY ConstantsAssumption, PendingOfType, FS_Subset, FS_CardinalityType

\* Successors are as many as the rows they succeed, at most.
LEMMA CommitDispatchKeepsCount ==
    ASSUME IInv, IInv', NEW w \in Workers, CommitDispatch(w), NEW e \in Enrolments
    PROVE  Cardinality(PendingOf(e))' <= Cardinality(PendingOf(e))
<1> DEFINE gone == At(w, {"swapped"})
           leave == PendingOf(e) \cap gone
<1>1. PICK heir \in [gone -> Rows] :
          /\ \A r \in gone : Owner[heir[r]] = Owner[r]
          /\ \A r \in Rows : row'[r] = "pending" =>
                (\E s \in gone : r = heir[s]) \/ (r \notin gone /\ row[r] = "pending")
    BY CommitDispatchEffect DEF IInv
<1>2. \A r \in gone : r \in Rows /\ row[r] = "pending"
    BY DEF IInv, LocksInv, At
<1> HIDE DEF gone
<1> DEFINE f == [r \in leave |-> heir[r]]
           come == {f[r] : r \in leave}
           stay == PendingOf(e) \ gone
<1>3. PendingOf(e)' \in SUBSET (stay \cup come)
    <2>1. ASSUME NEW r \in Rows, Owner[r] = e, row'[r] = "pending"
          PROVE  r \in stay \cup come
        <3>1. CASE \E s \in gone : r = heir[s]
            <4>1. PICK s \in gone : r = heir[s]
                BY <3>1
            <4>2. s \in leave
                BY <1>1, <1>2, <2>1, <4>1 DEF PendingOf
            <4> QED
                BY <4>1, <4>2
        <3>2. CASE r \notin gone /\ row[r] = "pending"
            BY <2>1, <3>2 DEF PendingOf
        <3> QED
            BY <1>1, <2>1, <3>1, <3>2
    <2> QED
        BY <2>1 DEF PendingOf
<1>4. IsFiniteSet(leave) /\ Cardinality(leave) \in Nat
    BY PendingFinite, FS_Subset, FS_CardinalityType, leave \in SUBSET PendingOf(e)
<1>5. IsFiniteSet(come) /\ Cardinality(come) <= Cardinality(leave)
    BY <1>4, ImageBound
<1>6. /\ IsFiniteSet(stay)
      /\ Cardinality(stay) = Cardinality(PendingOf(e)) - Cardinality(leave)
    BY PendingFinite, FS_Difference
<1>7. Cardinality(PendingOf(e)') <= Cardinality(stay) + Cardinality(come)
    <2> HIDE DEF stay, come
    <2> QED
        BY <1>3, <1>5, <1>6, UnionBound
<1>8. /\ Cardinality(PendingOf(e)) \in Nat /\ Cardinality(come) \in Nat
      /\ Cardinality(PendingOf(e)') \in Nat
    <2>1. PendingOf(e)' \in SUBSET Rows
        BY DEF PendingOf
    <2> QED
        BY <2>1, <1>5, PendingFinite, ConstantsAssumption, FS_Subset, FS_CardinalityType
<1> QED
    BY <1>4, <1>5, <1>6, <1>7, <1>8

ExtrasInv == IInv /\ ExtrasNeedRaces

\* A request whose reading is current leaves one reminder or none; any other
\* adds at most one and is a race.
LEMMA CommitRequestKeepsCount ==
    ASSUME ExtrasInv, IInv', NEW w \in Workers, CommitRequest(w)
    PROVE  ExtrasNeedRaces'
<1> DEFINE q == request[w]
<1>1. q \in Requests /\ q # NoRequest
    BY CommitRequestEffect DEF ExtrasInv, IInv, CommitRequest, LoopFree
<1>2. PICK new \in SUBSET {r \in Rows : Owner[r] = q.of /\ row[r] # "pending"} :
          /\ Cardinality(new) = IF q.kind = "cancel" THEN 0 ELSE 1
          /\ Replace(q.read, "cancelled", new)
    BY CommitRequestEffect DEF ExtrasInv, IInv
<1>3. /\ enrolled' = IF q.kind = "cancel" THEN enrolled \ {q.of}
                     ELSE enrolled \cup {q.of}
      /\ races' = IF PendingOf(q.of) = q.read THEN races
                  ELSE [races EXCEPT ![q.of] = @ + 1]
    BY DEF CommitRequest
<1>4. IsFiniteSet(new) /\ new \in SUBSET Rows
    BY ConstantsAssumption, FS_Subset
<1>5. \A r \in Rows : row'[r] = "pending" =>
          r \in new \/ (r \notin q.read /\ row[r] = "pending")
    BY <1>2 DEF Replace
<1>6. ASSUME NEW e \in Enrolments
      PROVE  Cardinality(PendingOf(e))'
                 <= races'[e] + (IF e \in enrolled' THEN 1 ELSE 0)
    <2>1. /\ races[e] \in Nat /\ races'[e] \in Nat
          /\ Cardinality(PendingOf(e)) <= races[e] + (IF e \in enrolled THEN 1 ELSE 0)
        BY DEF ExtrasInv, IInv, TypeOK, ExtrasNeedRaces
    <2>2. /\ Cardinality(PendingOf(e)) \in Nat /\ Cardinality(PendingOf(e)') \in Nat
          /\ Cardinality(new) \in Nat /\ IsFiniteSet(PendingOf(e))
        <3>1. PendingOf(e)' \in SUBSET Rows
            BY DEF PendingOf
        <3> QED
            BY <3>1, <1>4, PendingFinite, ConstantsAssumption, FS_Subset, FS_CardinalityType
    <2>3. CASE e # q.of
        <3>1. PendingOf(e)' \in SUBSET PendingOf(e)
            BY <1>2, <1>5, <2>3 DEF PendingOf
        <3>2. Cardinality(PendingOf(e)') <= Cardinality(PendingOf(e))
            BY <2>2, <3>1, FS_Subset
        <3>3. races'[e] = races[e] /\ (e \in enrolled' <=> e \in enrolled)
            BY <1>1, <1>3, <2>3 DEF ExtrasInv, IInv, TypeOK, Requests
        <3> QED
            BY <2>1, <2>2, <3>2, <3>3
    <2>4. CASE e = q.of /\ PendingOf(e) = q.read
        <3>1. PendingOf(e)' \in SUBSET new
            BY <1>5, <2>4 DEF PendingOf
        <3>2. Cardinality(PendingOf(e)') <= Cardinality(new)
            BY <1>4, <3>1, FS_Subset
        <3>3. Cardinality(new) = IF e \in enrolled' THEN 1 ELSE 0
            BY <1>2, <1>3, <2>4
        <3> QED
            BY <2>1, <2>2, <3>2, <3>3
    <2>5. CASE e = q.of /\ PendingOf(e) # q.read
        <3>1. PendingOf(e)' \in SUBSET (PendingOf(e) \cup new)
            BY <1>5 DEF PendingOf
        <3>2. Cardinality(PendingOf(e)') <= Cardinality(PendingOf(e)) + Cardinality(new)
            BY <1>4, <2>2, <3>1, UnionBound
        <3>3. races'[e] = races[e] + 1
            BY <1>3, <2>5 DEF ExtrasInv, IInv, TypeOK
        <3>4. Cardinality(new) = IF e \in enrolled' THEN 1 ELSE 0
            BY <1>2, <1>3, <2>5
        <3> QED
            BY <2>1, <2>2, <3>2, <3>3, <3>4
    <2> QED
        BY <2>3, <2>4, <2>5
<1> QED
    BY <1>6 DEF ExtrasNeedRaces

LEMMA ExtrasStep ==
    ASSUME ExtrasInv, [Next]_vars
    PROVE  ExtrasInv'
<1>1. IInv'
    BY IInvStep DEF ExtrasInv
<1>2. ASSUME NEW w \in Workers, CommitDispatch(w)
      PROVE  ExtrasNeedRaces'
    <2>1. races' = races /\ enrolled' = enrolled
        BY <1>2 DEF CommitDispatch, histVars
    <2>2. ASSUME NEW e \in Enrolments
          PROVE  Cardinality(PendingOf(e))'
                     <= races'[e] + (IF e \in enrolled' THEN 1 ELSE 0)
        <3>1. Cardinality(PendingOf(e))' <= Cardinality(PendingOf(e))
            BY <1>1, <1>2, CommitDispatchKeepsCount DEF ExtrasInv
        <3>2. Cardinality(PendingOf(e))' \in Nat
            <4>1. PendingOf(e)' \in SUBSET Rows
                BY DEF PendingOf
            <4> QED
                BY <4>1, ConstantsAssumption, FS_Subset, FS_CardinalityType
        <3>3. /\ Cardinality(PendingOf(e)) <= races[e] + (IF e \in enrolled THEN 1 ELSE 0)
              /\ races[e] \in Nat /\ Cardinality(PendingOf(e)) \in Nat
            BY PendingFinite DEF ExtrasInv, ExtrasNeedRaces, IInv, TypeOK
        <3> QED
            BY <2>1, <3>1, <3>2, <3>3
    <2> QED
        BY <2>2 DEF ExtrasNeedRaces
<1>3. ASSUME NEW w \in Workers, CommitRequest(w)
      PROVE  ExtrasNeedRaces'
    BY <1>1, <1>3, CommitRequestKeepsCount
<1>4. ASSUME \/ UNCHANGED vars
             \/ \E r \in Rows : BecomeDue(r) \/ MarkerExpires(r)
             \/ \E w \in Workers : \/ Dispatch(w) /\ ~CommitDispatch(w)
                                   \/ FailRequest(w) \/ Restart(w)
                                   \/ \E kind \in {"enroll", "update", "cancel"},
                                         e \in Enrolments : BeginRequest(w, kind, e)
      PROVE  ExtrasNeedRaces'
    <2>1. row' = row /\ races' = races /\ enrolled' = enrolled
        BY <1>4 DEF vars, BecomeDue, MarkerExpires, Dispatch, BeginDispatch, StartSend,
            FcmAccepts, SendFails, Record, AbortDispatch, FailRequest, Restart,
            BeginRequest, rowVars, histVars
    <2>2. \A e \in Enrolments : PendingOf(e)' = PendingOf(e)
        BY <2>1 DEF PendingOf
    <2> QED
        BY <2>1, <2>2 DEF ExtrasInv, ExtrasNeedRaces
<1> QED
    BY <1>1, <1>2, <1>3, <1>4 DEF Next, ExtrasInv

\* An enrolment has one reminder and a cancelled one none, but for each request
\* that wrote over rows that had changed since it read them.
THEOREM ExtraRemindersNeedRaces == Spec => []ExtrasNeedRaces
<1>1. Init => ExtrasInv
    <2>1. Init => IInv
        BY IInvInit
    <2>2. ASSUME Init
          PROVE  ExtrasNeedRaces
        <3>1. \A e \in Enrolments : PendingOf(e) = {} /\ races[e] = 0
            BY <2>2 DEF Init, PendingOf
        <3>2. Cardinality({}) = 0
            BY FS_EmptySet
        <3> QED
            BY <3>1, <3>2 DEF ExtrasNeedRaces
    <2> QED
        BY <2>1, <2>2 DEF ExtrasInv
<1>2. ExtrasInv /\ [Next]_vars => ExtrasInv'
    BY ExtrasStep
<1>3. ExtrasInv => ExtrasNeedRaces
    BY DEF ExtrasInv
<1> QED
    BY <1>1, <1>2, <1>3, PTL DEF Spec
=============================================================================
