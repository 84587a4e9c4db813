-------------------------- MODULE SegmentChatProofs --------------------------
(***************************************************************************)
(* Proofs about SegmentChat for any clients, questions, limit and number of *)
(* faults: type correctness, and that a counter without an end takes a lost *)
(* INCR or EXPIRE; and about SegmentSources for any library and any budget:  *)
(* the sources fit it, and roots come first.                                 *)
(***************************************************************************)
EXTENDS SegmentChat, SegmentSources, WellFoundedInduction, TLAPS

-----------------------------------------------------------------------------
(* The inductive invariant                                                  *)

\* Between INCR and EXPIRE a request is the only one of its client there, and
\* the key it made neither has an end nor is gone.
FirstsInv ==
    \A r \in Requests : request[r].stage = "counted" =>
        /\ counter[ClientOf[r]] > 0
        /\ ClientOf[r] \notin ttl
        /\ \A q \in Requests :
              request[q].stage = "counted" /\ ClientOf[q] = ClientOf[r] => q = r

IInv == TypeOK /\ FirstsInv /\ LockoutsAccountedFor

-----------------------------------------------------------------------------
(* What the operators of the model do                                       *)

LEMMA EnterEffect ==
    ASSUME TypeOK, NEW r \in Requests, NEW stage \in Stages, NEW context \in Contexts,
           context.made <=> stage \in {"texts", "contents", "writing", "streaming"},
           Enter(r, stage, context)
    PROVE  /\ request' \in [Requests -> [stage : Stages, context : Contexts]]
           /\ \A q \in Requests : request'[q].context.made
                <=> request'[q].stage \in {"texts", "contents", "writing", "streaming"}
           /\ request'[r].stage = stage
           /\ \A q \in Requests \ {r} : request'[q] = request[q]
BY DEF TypeOK, Enter

LEMMA NoContextType ==
    /\ NoContext \in Contexts
    /\ ~NoContext.made
    /\ {"idle", "counted", "admitted", "building", "texts", "contents", "writing",
        "streaming"} \subseteq Stages
BY ConstantsAssumption DEF NoContext, Contexts, Stages

LEMMA DoneEffect ==
    ASSUME TypeOK, NEW r \in Requests, Done(r)
    PROVE  /\ request' \in [Requests -> [stage : Stages, context : Contexts]]
           /\ \A q \in Requests : request'[q].context.made
                <=> request'[q].stage \in {"texts", "contents", "writing", "streaming"}
           /\ request'[r].stage = "idle"
           /\ \A q \in Requests \ {r} : request'[q] = request[q]
BY NoContextType, EnterEffect DEF Done

LEMMA FaultType ==
    ASSUME TypeOK, Healthy \/ Glitch
    PROVE  faults' \in 0..MaxFaults
BY ConstantsAssumption DEF TypeOK, Healthy, Glitch

LEMMA CountedType ==
    ASSUME TypeOK, NEW c \in Clients
    PROVE  /\ Counted(c) \in 1..Limit + 1
           /\ FirstOfWindow(Counted(c)) => counter[c] = 0
           /\ ~FirstOfWindow(Counted(c)) => counter[c] > 0
           /\ More(Counted(c)) \in 1..Limit + 1
BY ConstantsAssumption DEF TypeOK, Counted, More, FirstOfWindow

-----------------------------------------------------------------------------
(* The steps                                                                *)

\* A step that leaves the rate limit alone, and moves requests that are not
\* between INCR and EXPIRE, or out of there by a loss.
LEMMA ElsewhereKeeps ==
    ASSUME FirstsInv, LockoutsAccountedFor, TypeOK,
           UNCHANGED rateVars, NEW r \in Requests,
           request[r].stage # "counted", request'[r].stage # "counted",
           \A q \in Requests \ {r} : request'[q] = request[q]
    PROVE  FirstsInv' /\ LockoutsAccountedFor'
<1>1. \A q \in Requests : request'[q].stage = "counted" <=> request[q].stage = "counted"
      OBVIOUS
<1>2. FirstsInv'
      BY <1>1 DEF FirstsInv, rateVars
<1>3. LockoutsAccountedFor'
      BY <1>1 DEF LockoutsAccountedFor, rateVars
<1>4. QED BY <1>2, <1>3

LEMMA AskKeeps ==
    ASSUME IInv, NEW r \in Requests, Ask(r)
    PROVE  IInv'
<1> DEFINE c == ClientOf[r]
<1>1. TypeOK /\ FirstsInv /\ LockoutsAccountedFor /\ c \in Clients
      /\ request[r].stage = "idle" /\ UNCHANGED <<library, cache>>
      BY ConstantsAssumption DEF IInv, Ask
<1>2. CASE Count(r)
  <2>1. /\ counter' = [counter EXCEPT ![c] = Counted(c)]
        /\ UNCHANGED <<ttl, lost>>
        /\ Healthy
        BY <1>2 DEF Count
  <2>2. PICK stage \in {"counted", "idle", "admitted"} :
           /\ Enter(r, stage, NoContext)
           /\ stage = "counted" <=> FirstOfWindow(Counted(c))
        BY <1>2 DEF Count, Done
  <2>3. /\ request' \in [Requests -> [stage : Stages, context : Contexts]]
        /\ \A q \in Requests : request'[q].context.made
              <=> request'[q].stage \in {"texts", "contents", "writing", "streaming"}
        /\ request'[r].stage = stage
        /\ \A q \in Requests \ {r} : request'[q] = request[q]
        BY <1>1, <2>2, NoContextType, EnterEffect
  <2>4. TypeOK'
        BY <1>1, <2>1, <2>3, CountedType, FaultType, ConstantsAssumption DEF TypeOK
  <2>5. \A b \in Clients : counter'[b] = IF b = c THEN Counted(c) ELSE counter[b]
        BY <1>1, <2>1 DEF TypeOK
  <2>6. FirstsInv'
    <3>1. CASE FirstOfWindow(Counted(c))
      <4>1. \A q \in Requests : request[q].stage = "counted" => ClientOf[q] # c
            BY <1>1, <3>1, CountedType DEF FirstsInv
      <4>2. c \notin ttl
            BY <1>1, <3>1, CountedType DEF TypeOK
      <4>3. QED BY <1>1, <2>1, <2>2, <2>3, <2>5, <3>1, <4>1, <4>2, CountedType,
                   ConstantsAssumption DEF FirstsInv, TypeOK
    <3>2. CASE ~FirstOfWindow(Counted(c))
          BY <1>1, <2>1, <2>2, <2>3, <2>5, <3>2, CountedType DEF FirstsInv
    <3>3. QED BY <3>1, <3>2
  <2>7. LockoutsAccountedFor'
    <3>1. CASE FirstOfWindow(Counted(c))
          BY <1>1, <2>1, <2>2, <2>3, <2>5, <3>1 DEF LockoutsAccountedFor
    <3>2. CASE ~FirstOfWindow(Counted(c))
          BY <1>1, <2>1, <2>3, <2>5, <3>2, CountedType DEF LockoutsAccountedFor
    <3>3. QED BY <3>1, <3>2
  <2>8. QED BY <2>4, <2>6, <2>7 DEF IInv
<1>3. CASE CountFails(r)
  <2>1. /\ Enter(r, "admitted", NoContext)
        /\ Glitch
        /\ ttl' = ttl
        BY <1>3 DEF CountFails
  <2>2. /\ request' \in [Requests -> [stage : Stages, context : Contexts]]
        /\ \A q \in Requests : request'[q].context.made
              <=> request'[q].stage \in {"texts", "contents", "writing", "streaming"}
        /\ request'[r].stage = "admitted"
        /\ \A q \in Requests \ {r} : request'[q] = request[q]
        BY <1>1, <2>1, NoContextType, EnterEffect
  <2>3. CASE UNCHANGED <<counter, lost>>
    <3>1. TypeOK'
          BY <1>1, <2>1, <2>2, <2>3, FaultType DEF TypeOK
    <3>2. QED BY <1>1, <2>1, <2>2, <2>3, <3>1, ElsewhereKeeps DEF IInv, rateVars
  <2>4. CASE /\ counter' = [counter EXCEPT ![c] = Counted(c)]
             /\ lost' = IF FirstOfWindow(Counted(c)) THEN lost \cup {c} ELSE lost
    <3>1. TypeOK'
          BY <1>1, <2>1, <2>2, <2>4, CountedType, FaultType, ConstantsAssumption
          DEF TypeOK
    <3>2. \A b \in Clients : counter'[b] = IF b = c THEN Counted(c) ELSE counter[b]
          BY <1>1, <2>4 DEF TypeOK
    <3>3. FirstsInv'
          BY <1>1, <2>1, <2>2, <3>2, CountedType, ConstantsAssumption DEF FirstsInv
    <3>4. LockoutsAccountedFor'
          BY <1>1, <2>1, <2>2, <2>4, <3>2, CountedType DEF LockoutsAccountedFor
    <3>5. QED BY <3>1, <3>3, <3>4 DEF IInv
  <2>5. QED BY <1>3, <2>3, <2>4 DEF CountFails
<1>4. CASE CountRepeats(r)
  <2> DEFINE twice == More(Counted(c))
  <2>1. /\ counter' = [counter EXCEPT ![c] = twice]
        /\ lost' = IF FirstOfWindow(Counted(c)) THEN lost \cup {c} ELSE lost
        /\ Glitch
        /\ ttl' = ttl
        BY <1>4 DEF CountRepeats
  <2>2. PICK stage \in {"idle", "admitted"} : Enter(r, stage, NoContext)
        BY <1>4 DEF CountRepeats, Done
  <2>3. /\ request' \in [Requests -> [stage : Stages, context : Contexts]]
        /\ \A q \in Requests : request'[q].context.made
              <=> request'[q].stage \in {"texts", "contents", "writing", "streaming"}
        /\ request'[r].stage = stage
        /\ \A q \in Requests \ {r} : request'[q] = request[q]
        BY <1>1, <2>2, NoContextType, EnterEffect
  <2>4. twice \in 1..Limit + 1
        BY <1>1, CountedType
  <2> HIDE DEF twice
  <2>5. TypeOK'
        BY <1>1, <2>1, <2>3, <2>4, FaultType, ConstantsAssumption DEF TypeOK
  <2>6. \A b \in Clients : counter'[b] = IF b = c THEN twice ELSE counter[b]
        BY <1>1, <2>1 DEF TypeOK
  <2>7. FirstsInv'
        BY <1>1, <2>1, <2>2, <2>3, <2>4, <2>6, CountedType, ConstantsAssumption
        DEF FirstsInv
  <2>8. LockoutsAccountedFor'
        BY <1>1, <2>1, <2>2, <2>3, <2>6, CountedType DEF LockoutsAccountedFor
  <2>9. QED BY <2>5, <2>7, <2>8 DEF IInv
<1>5. QED BY <1>2, <1>3, <1>4 DEF Ask

LEMMA SetExpiryKeeps ==
    ASSUME IInv, NEW r \in Requests, SetExpiry(r)
    PROVE  IInv'
<1> DEFINE c == ClientOf[r]
<1>1. /\ TypeOK /\ FirstsInv /\ LockoutsAccountedFor /\ c \in Clients
      /\ request[r].stage = "counted"
      /\ UNCHANGED <<counter, library, cache>>
      /\ Enter(r, "admitted", NoContext)
      BY ConstantsAssumption DEF IInv, SetExpiry
<1>2. /\ request' \in [Requests -> [stage : Stages, context : Contexts]]
      /\ \A q \in Requests : request'[q].context.made
            <=> request'[q].stage \in {"texts", "contents", "writing", "streaming"}
      /\ request'[r].stage = "admitted"
      /\ \A q \in Requests \ {r} : request'[q] = request[q]
      BY <1>1, NoContextType, EnterEffect
<1>3. /\ counter[c] > 0 /\ c \notin ttl
      /\ \A q \in Requests \ {r} : request[q].stage = "counted" => ClientOf[q] # c
      BY <1>1 DEF FirstsInv
<1>4. \/ ttl' = ttl \cup {c} /\ lost' = lost /\ Healthy
      \/ lost' = lost \cup {c} /\ ttl' = ttl /\ Glitch
      BY DEF SetExpiry
<1>5. TypeOK'
      BY <1>1, <1>2, <1>3, <1>4, FaultType DEF TypeOK
<1>6. FirstsInv'
      BY <1>1, <1>2, <1>3, <1>4 DEF FirstsInv
<1>7. LockoutsAccountedFor'
      BY <1>1, <1>2, <1>4 DEF LockoutsAccountedFor
<1>8. QED BY <1>5, <1>6, <1>7 DEF IInv

\* From the cache to the answer: the rate limit is not looked at again.
LEMMA ContextKeeps ==
    ASSUME IInv, NEW r \in Requests,
           \/ Look(r) \/ ReadSegment(r) \/ ReadTexts(r)
           \/ ReadContents(r) \/ Write(r) \/ Stream(r)
    PROVE  IInv'
<1>1. TypeOK /\ FirstsInv /\ LockoutsAccountedFor
      BY DEF IInv
<1>2. UNCHANGED rateVars /\ library' = library /\ request[r].stage # "counted"
      BY DEF Look, ReadSegment, ReadTexts, ReadContents, Read, Write, Stream
<1>3. faults' \in 0..MaxFaults
      BY <1>1, FaultType
      DEF Look, ReadSegment, ReadTexts, ReadContents, Read, Write, Stream
<1>4. request[r].context \in Contexts /\ cache \in Contexts
      BY <1>1 DEF TypeOK
<1>5. cache' \in Contexts
      BY <1>4 DEF Look, ReadSegment, ReadTexts, ReadContents, Read, Write, Stream
<1>6. PICK stage \in Stages, context \in Contexts :
         /\ Enter(r, stage, context)
         /\ stage # "counted"
         /\ context.made <=> stage \in {"texts", "contents", "writing", "streaming"}
  <2>1. CASE Look(r)
        BY <1>4, <2>1, NoContextType DEF Look
  <2>2. CASE ReadSegment(r)
    <3>1. \A whole \in BOOLEAN :
             /\ [since |-> library, whole |-> whole, made |-> TRUE] \in Contexts
             /\ [since |-> library, whole |-> whole, made |-> TRUE].made
          BY <1>1 DEF TypeOK, Contexts
    <3>2. QED BY <2>2, <3>1, NoContextType DEF ReadSegment, Done
  <2>3. \A from, to : Read(r, from, to) /\ from \in {"texts", "contents"} =>
           \E context \in Contexts : Enter(r, to, context) /\ context.made
    <3>1. SUFFICES ASSUME NEW from \in {"texts", "contents"}, NEW to,
                          Read(r, from, to)
                   PROVE  \E context \in Contexts : Enter(r, to, context) /\ context.made
          OBVIOUS
    <3>2. request[r].context.made
          BY <1>1, <3>1 DEF Read, TypeOK
    <3>3. /\ [request[r].context EXCEPT !.whole = FALSE] \in Contexts
          /\ [request[r].context EXCEPT !.whole = FALSE].made
          BY <1>4, <3>2 DEF Contexts
    <3>4. QED BY <1>4, <3>1, <3>2, <3>3 DEF Read
  <2>4. CASE ReadTexts(r)
        BY <2>3, <2>4, NoContextType DEF ReadTexts
  <2>5. CASE ReadContents(r)
        BY <2>3, <2>5, NoContextType DEF ReadContents
  <2>6. CASE Write(r)
        BY <1>1, <1>4, <2>6, NoContextType DEF Write, TypeOK
  <2>7. CASE Stream(r)
        BY <2>7, NoContextType DEF Stream, Done
  <2>8. QED BY <2>1, <2>2, <2>4, <2>5, <2>6, <2>7
<1>7. /\ request' \in [Requests -> [stage : Stages, context : Contexts]]
      /\ \A q \in Requests : request'[q].context.made
            <=> request'[q].stage \in {"texts", "contents", "writing", "streaming"}
      /\ request'[r].stage # "counted"
      /\ \A q \in Requests \ {r} : request'[q] = request[q]
      BY <1>1, <1>6, EnterEffect
<1>8. TypeOK'
      BY <1>1, <1>2, <1>3, <1>5, <1>7 DEF TypeOK, rateVars
<1>9. QED BY <1>1, <1>2, <1>7, <1>8, ElsewhereKeeps DEF IInv

LEMMA AbandonKeeps ==
    ASSUME IInv, NEW r \in Requests, Abandon(r)
    PROVE  IInv'
<1>1. /\ TypeOK /\ FirstsInv /\ LockoutsAccountedFor /\ ClientOf[r] \in Clients
      /\ UNCHANGED <<counter, ttl, library, cache>>
      /\ lost' = IF request[r].stage = "counted" THEN lost \cup {ClientOf[r]} ELSE lost
      /\ Done(r) /\ Glitch
      BY ConstantsAssumption DEF IInv, Abandon
<1>2. /\ request' \in [Requests -> [stage : Stages, context : Contexts]]
      /\ \A q \in Requests : request'[q].context.made
            <=> request'[q].stage \in {"texts", "contents", "writing", "streaming"}
      /\ request'[r].stage = "idle"
      /\ \A q \in Requests \ {r} : request'[q] = request[q]
      BY <1>1, DoneEffect
<1>3. TypeOK'
      BY <1>1, <1>2, FaultType DEF TypeOK
<1>4. FirstsInv'
      BY <1>1, <1>2 DEF FirstsInv
<1>5. LockoutsAccountedFor'
      BY <1>1, <1>2 DEF LockoutsAccountedFor
<1>6. QED BY <1>3, <1>4, <1>5 DEF IInv

LEMMA WindowEndsKeeps ==
    ASSUME IInv, NEW c \in Clients, WindowEnds(c)
    PROVE  IInv'
<1>1. /\ TypeOK /\ FirstsInv /\ LockoutsAccountedFor
      /\ c \in ttl
      /\ counter' = [counter EXCEPT ![c] = 0]
      /\ ttl' = ttl \ {c}
      /\ UNCHANGED <<lost, library, cache, request, faults>>
      BY DEF IInv, WindowEnds
<1>2. TypeOK'
      BY <1>1, ConstantsAssumption DEF TypeOK
<1>3. \A b \in Clients : counter'[b] = IF b = c THEN 0 ELSE counter[b]
      BY <1>1 DEF TypeOK
<1>4. FirstsInv'
      BY <1>1, <1>3, ConstantsAssumption DEF FirstsInv
<1>5. LockoutsAccountedFor'
      BY <1>1, <1>3 DEF LockoutsAccountedFor
<1>6. QED BY <1>2, <1>4, <1>5 DEF IInv

\* The cache and the library have nothing to do with the rate limit.
LEMMA SurroundingsKeep ==
    ASSUME IInv, CacheExpires \/ LibraryChanges \/ UNCHANGED vars
    PROVE  IInv'
<1>1. UNCHANGED <<counter, ttl, lost, request, faults>>
      BY DEF CacheExpires, LibraryChanges, rateVars, vars
<1>2. cache' \in Contexts /\ library' \in 0..MaxChanges
      BY NoContextType, ConstantsAssumption
      DEF IInv, TypeOK, CacheExpires, LibraryChanges, vars
<1>3. TypeOK'
      BY <1>1, <1>2 DEF IInv, TypeOK
<1>4. FirstsInv' /\ LockoutsAccountedFor'
      BY <1>1 DEF IInv, FirstsInv, LockoutsAccountedFor
<1>5. QED BY <1>3, <1>4 DEF IInv

-----------------------------------------------------------------------------
(* Theorems                                                                 *)

LEMMA InitHolds == ASSUME Init PROVE IInv
<1>1. TypeOK
      BY NoContextType, ConstantsAssumption DEF Init, TypeOK
<1>2. FirstsInv /\ LockoutsAccountedFor
      BY DEF Init, FirstsInv, LockoutsAccountedFor
<1>3. QED BY <1>1, <1>2 DEF IInv

LEMMA StepKeeps == ASSUME IInv, [Next]_vars PROVE IInv'
<1>1. ASSUME NEW r \in Requests, Ask(r) \/ Proceed(r) \/ Abandon(r)
      PROVE  IInv'
      BY <1>1, AskKeeps, SetExpiryKeeps, ContextKeeps, AbandonKeeps DEF Proceed
<1>2. QED BY <1>1, WindowEndsKeeps, SurroundingsKeep DEF Next

\* The invariant that does induct: IInv, of which the others are parts.
THEOREM InvariantHolds == Spec => []IInv
BY InitHolds, StepKeeps, PTL DEF Spec

\* The state of the segment chat is well-typed: only contexts that were made
\* are cached and served, and only keys that exist have a TTL (is_rate_limited,
\* get_segment_context).
THEOREM TypeCorrect == Spec => []TypeOK
<1>1. IInv => TypeOK
      BY DEF IInv
<1>2. QED BY <1>1, InvariantHolds, PTL

\* A counter that nobody will reset takes a lost INCR or EXPIRE (is_rate_limited),
\* whatever the limit and however many requests of a client there are at once.
THEOREM LockoutsNeedLosses == Spec => []LockoutsAccountedFor
<1>1. IInv => LockoutsAccountedFor
      BY DEF IInv
<1>2. QED BY <1>1, InvariantHolds, PTL
-----------------------------------------------------------------------------
(* The sources of an answer, SegmentSources: induction over its loops        *)

\* What holds of 0, and of each number after it as far as N, holds up to N.
LEMMA Climb ==
    ASSUME NEW N \in Nat, NEW Good, 0 \in Good,
           \A k \in 1..N : k - 1 \in Good => k \in Good
    PROVE  \A n \in 0..N : n \in Good
<1> DEFINE Bad  == {n \in 0..N : n \notin Good}
           Less == OpToRel(<, Nat)
<1> SUFFICES ASSUME Bad # {}
             PROVE  FALSE
    OBVIOUS
<1>1. Bad \subseteq Nat
    OBVIOUS
<1>2. IsWellFoundedOn(Less, Nat)
    BY NatLessThanWellFounded
<1> HIDE DEF Less, Bad
<1>3. PICK x \in Bad : \A y \in Bad : ~(<<y, x>> \in Less)
    BY <1>1, <1>2, WFMin, Zenon
<1>4. \A y \in Bad : ~(y < x)
    BY <1>1, <1>3 DEF Less, OpToRel
<1>5. x \in 0..N /\ x \notin Good
    BY DEF Bad
<1>6. x \in 1..N
    BY <1>5
<1>7. x - 1 \notin Bad
    BY <1>4, <1>6
<1>8. x - 1 \in Good
    BY <1>6, <1>7 DEF Bad
<1> QED
    BY <1>5, <1>6, <1>8

\* A function from the numbers up to N into V that starts with base and goes on
\* by rule.
StepsIn(rule, N, V) == \A n \in 1..N : \A v \in V : rule[<<n, v>>] \in V
Recurs(f, N, V, base, rule) ==
    /\ f \in [0..N -> V]
    /\ f[0] = base
    /\ \A n \in 1..N : f[n] = rule[<<n, f[n - 1]>>]

\* There is such a function.
LEMMA RecursionExists ==
    ASSUME NEW N \in Nat, NEW V, NEW base \in V, NEW rule, StepsIn(rule, N, V)
    PROVE  \E f : Recurs(f, N, V, base, rule)
<1> DEFINE Good == {m \in 0..N : \E f : Recurs(f, m, V, base, rule)}
<1>1. 0 \in Good
    <2>1. Recurs([n \in 0..0 |-> base], 0, V, base, rule)
        BY DEF Recurs
    <2> QED
        BY <2>1
<1>2. ASSUME NEW k \in 1..N, k - 1 \in Good
      PROVE  k \in Good
    <2>1. PICK f : Recurs(f, k - 1, V, base, rule)
        BY <1>2
    <2> DEFINE g == [n \in 0..k |-> IF n = k THEN rule[<<k, f[k - 1]>>] ELSE f[n]]
    <2>2. f[k - 1] \in V
        BY <2>1 DEF Recurs
    <2>3. g \in [0..k -> V]
        <3>1. \A n \in 0..k : n # k => n \in 0..(k - 1)
            OBVIOUS
        <3>2. rule[<<k, f[k - 1]>>] \in V
            BY <2>2 DEF StepsIn
        <3> QED
            BY <2>1, <3>1, <3>2 DEF Recurs
    <2>4. g[0] = base
        BY <2>1 DEF Recurs
    <2>5. ASSUME NEW n \in 1..k
          PROVE  g[n] = rule[<<n, g[n - 1]>>]
        <3>1. g[n - 1] = f[n - 1]
            OBVIOUS
        <3>2. n # k => g[n] = f[n] /\ n \in 1..(k - 1)
            OBVIOUS
        <3>3. n = k => g[n] = rule[<<n, f[n - 1]>>]
            OBVIOUS
        <3> HIDE DEF g
        <3> QED
            BY <2>1, <3>1, <3>2, <3>3 DEF Recurs
    <2> HIDE DEF g
    <2>6. Recurs(g, k, V, base, rule)
        BY <2>3, <2>4, <2>5 DEF Recurs
    <2> QED
        BY <2>6
<1>3. N \in Good
    <2> HIDE DEF Good
    <2> QED
        BY <1>1, <1>2, Climb
<1> QED
    BY <1>3

-----------------------------------------------------------------------------
(* The loops over the library's answer                                      *)

\* No id is listed twice.
OneEach(items) == \A m, n \in 1..Len(items) : items[m].id = items[n].id => m = n

\* k[n] is what a loop has kept after n items.
KeptRun(k, S, items, wanted) ==
    /\ k \in [0..Len(items) -> Seq(S)]
    /\ k[Len(items)] = Kept(items, wanted)
    /\ k[0] = <<>>
    /\ \A n \in 1..Len(items) :
          k[n] = IF items[n] \in wanted THEN Append(k[n - 1], items[n])
                 ELSE k[n - 1]

LEMMA KeptDef ==
    ASSUME NEW S, NEW items \in Seq(S), NEW wanted
    PROVE  \E k : KeptRun(k, S, items, wanted)
<1> DEFINE N == Len(items)
           base == <<>>
           Goes(v, n) == IF items[n] \in wanted THEN Append(v, items[n]) ELSE v
           V == Seq(S)
           Is(k) == k = [n \in 0..N |-> IF n = 0 THEN base ELSE Goes(k[n - 1], n)]
           rule == [p \in (1..N) \X V |-> Goes(p[2], p[1])]
           K == CHOOSE k : Is(k)
<1>1. N \in Nat /\ base \in V
    OBVIOUS
<1>2. ASSUME NEW n \in 1..N, NEW v \in V
      PROVE  Goes(v, n) \in V
    <2>1. Append(v, items[n]) \in Seq(S)
        OBVIOUS
    <2> QED
        BY <2>1
<1>3. Kept(items, wanted) = K[N]
    BY DEF Kept
<1> HIDE DEF N, base, Goes, V
<1>4. \A n \in 1..N : \A v \in V : rule[<<n, v>>] = Goes(v, n)
    OBVIOUS
<1> HIDE DEF rule
<1>5. StepsIn(rule, N, V)
    BY <1>2, <1>4 DEF StepsIn
<1>6. PICK f : Recurs(f, N, V, base, rule)
    BY <1>1, <1>5, RecursionExists
<1>7. f \in [0..N -> V] /\ f[0] = base
      /\ \A n \in 1..N : f[n] = Goes(f[n - 1], n)
    <2>1. \A n \in 1..N : n - 1 \in 0..N
        BY <1>1
    <2> QED
        BY <1>4, <1>6, <2>1 DEF Recurs
<1>8. Is(f)
    BY <1>1, <1>7
<1>9. Is(K)
    <2> HIDE DEF Is
    <2> QED
        BY <1>8, Zenon
<1> HIDE DEF K
<1>10. K[0] = base /\ \A n \in 1..N : K[n] = Goes(K[n - 1], n)
    BY <1>1, <1>9
<1>11. \A n \in 0..N : K[n] \in V
    <2> DEFINE Good == {n \in 0..N : K[n] \in V}
    <2> HIDE DEF Is
    <2>1. 0 \in Good
        BY <1>1, <1>10
    <2>2. \A k \in 1..N : k - 1 \in Good => k \in Good
        BY <1>1, <1>2, <1>10
    <2> HIDE DEF Good
    <2>3. \A n \in 0..N : n \in Good
        BY <1>1, <2>1, <2>2, Climb
    <2> QED
        BY <2>3 DEF Good
<1>12. K \in [0..N -> Seq(S)]
    BY <1>9, <1>11 DEF V
<1>13. KeptRun(K, S, items, wanted)
    BY <1>3, <1>10, <1>12 DEF KeptRun, N, base, Goes
<1> QED
    BY <1>13

\* k is what is kept of the first n items.
KeptSoFar(k, items, wanted, n) ==
    /\ \A j \in 1..Len(k) : k[j] \in wanted /\ \E i \in 1..n : k[j] = items[i]
    /\ \A i \in 1..n : items[i] \in wanted => \E j \in 1..Len(k) : k[j] = items[i]
    /\ OneEach(items) => OneEach(k)

\* What is kept is what is wanted, and nothing else; and no id twice, unless it was
\* listed twice.
LEMMA KeptFacts ==
    ASSUME NEW S, NEW items \in Seq(S), NEW wanted
    PROVE  /\ Kept(items, wanted) \in Seq(S)
           /\ KeptSoFar(Kept(items, wanted), items, wanted, Len(items))
<1> DEFINE N == Len(items)
<1>1. N \in Nat
    OBVIOUS
<1>2. PICK k : KeptRun(k, S, items, wanted)
    BY KeptDef
<1> DEFINE Good == {n \in 0..N : KeptSoFar(k[n], items, wanted, n)}
<1>3. 0 \in Good
    BY <1>1, <1>2 DEF KeptSoFar, OneEach, KeptRun
<1>4. ASSUME NEW n \in 1..N, n - 1 \in Good
      PROVE  n \in Good
    <2> DEFINE before == k[n - 1]
    <2>1. n \in 0..N /\ n - 1 \in 0..N /\ n \in Nat /\ n - 1 \in Nat
        BY <1>1
    <2>2. before \in Seq(S) /\ KeptSoFar(before, items, wanted, n - 1)
        BY <1>2, <1>4, <2>1 DEF KeptRun
    <2>3. items[n] \in S
        OBVIOUS
    <2> HIDE DEF before
    <2>4. CASE items[n] \notin wanted
        <3>1. k[n] = before
            BY <1>2, <2>4 DEF before, KeptRun
        <3>2. KeptSoFar(before, items, wanted, n)
            BY <2>1, <2>2, <2>4 DEF KeptSoFar
        <3> QED
            BY <2>1, <3>1, <3>2
    <2>5. CASE items[n] \in wanted
        <3> DEFINE after == Append(before, items[n])
        <3>1. k[n] = after
            BY <1>2, <2>5 DEF before, KeptRun
        <3>2. /\ Len(before) \in Nat
              /\ Len(after) = Len(before) + 1
              /\ after[Len(before) + 1] = items[n]
              /\ \A j \in 1..Len(before) : after[j] = before[j]
            BY <2>2, <2>3
        <3> HIDE DEF after
        <3>3. ASSUME NEW j \in 1..Len(after)
              PROVE  after[j] \in wanted /\ \E i \in 1..n : after[j] = items[i]
            <4>1. j = Len(before) + 1 \/ j \in 1..Len(before)
                BY <3>2
            <4>2. CASE j = Len(before) + 1
                BY <2>1, <2>5, <3>2, <4>2
            <4>3. CASE j \in 1..Len(before)
                <5>1. PICK i \in 1..(n - 1) : before[j] = items[i]
                    BY <2>2, <4>3 DEF KeptSoFar
                <5>2. i \in 1..n /\ after[j] = items[i]
                    BY <2>1, <3>2, <4>3, <5>1
                <5>3. before[j] \in wanted
                    BY <2>2, <4>3 DEF KeptSoFar
                <5> QED
                    BY <5>1, <5>2, <5>3
            <4> QED
                BY <4>1, <4>2, <4>3
        <3>4. ASSUME NEW i \in 1..n, items[i] \in wanted
              PROVE  \E j \in 1..Len(after) : after[j] = items[i]
            <4>1. i = n \/ i \in 1..(n - 1)
                BY <2>1
            <4>2. CASE i = n
                BY <3>2, <4>2
            <4>3. CASE i \in 1..(n - 1)
                <5>1. PICK j \in 1..Len(before) : before[j] = items[i]
                    BY <2>2, <3>4, <4>3 DEF KeptSoFar
                <5>2. j \in 1..Len(after) /\ after[j] = items[i]
                    BY <3>2, <5>1
                <5> QED
                    BY <5>2
            <4> QED
                BY <4>1, <4>2, <4>3
        <3>5. ASSUME OneEach(items)
              PROVE  OneEach(after)
            <4>1. OneEach(before)
                BY <2>2, <3>5 DEF KeptSoFar
            <4>2. ASSUME NEW j \in 1..Len(before)
                  PROVE  before[j].id # items[n].id
                <5>1. PICK i \in 1..(n - 1) : before[j] = items[i]
                    BY <2>2 DEF KeptSoFar
                <5>2. i # n /\ i \in 1..Len(items) /\ n \in 1..Len(items)
                    BY <2>1
                <5> QED
                    BY <3>5, <5>1, <5>2 DEF OneEach
            <4>3. \A j \in 1..Len(after) : j = Len(before) + 1 \/ j \in 1..Len(before)
                BY <3>2
            <4> QED
                BY <3>2, <4>1, <4>2, <4>3 DEF OneEach
        <3>6. KeptSoFar(after, items, wanted, n)
            BY <3>3, <3>4, <3>5 DEF KeptSoFar
        <3> QED
            BY <2>1, <3>1, <3>6
    <2> QED
        BY <2>4, <2>5
<1>5. \A n \in 0..N : n \in Good
    <2> HIDE DEF Good, N
    <2> QED
        BY <1>1, <1>3, <1>4, Climb
<1>6. N \in 0..N
    BY <1>1
<1>7. KeptSoFar(k[N], items, wanted, N)
    BY <1>5, <1>6
<1> QED
    BY <1>2, <1>6, <1>7 DEF KeptRun

\* The pages are joined to a list of items.
LEMMA ListedType ==
    ASSUME NEW pages \in Seq(Pages)
    PROVE  Listed(pages) \in Seq(Items)
<1> DEFINE N == MaxPages
           base == <<>>
           Goes(v, n) == IF n \in DOMAIN pages /\ \A k \in 1..n - 1 : pages[k].has_more
                         THEN v \o pages[n].items ELSE v
           V == Seq(Items)
           Is(k) == k = [n \in 0..N |-> IF n = 0 THEN base ELSE Goes(k[n - 1], n)]
           rule == [p \in (1..N) \X V |-> Goes(p[2], p[1])]
           K == CHOOSE k : Is(k)
<1>1. N \in Nat /\ base \in V
    BY SourcesAssumption
<1>2. ASSUME NEW n \in 1..N, NEW v \in V
      PROVE  Goes(v, n) \in V
    <2>1. n \in DOMAIN pages => v \o pages[n].items \in Seq(Items)
        <3>1. n \in DOMAIN pages => pages[n] \in Pages
            OBVIOUS
        <3>2. n \in DOMAIN pages => pages[n].items \in Seq(Items)
            BY <3>1 DEF Pages
        <3> QED
            BY <3>2
    <2> QED
        BY <2>1
<1>3. Listed(pages) = K[N]
    BY DEF Listed
<1> HIDE DEF N, base, Goes, V
<1>4. \A n \in 1..N : \A v \in V : rule[<<n, v>>] = Goes(v, n)
    OBVIOUS
<1> HIDE DEF rule
<1>5. StepsIn(rule, N, V)
    BY <1>2, <1>4 DEF StepsIn
<1>6. PICK f : Recurs(f, N, V, base, rule)
    BY <1>1, <1>5, RecursionExists
<1>7. f \in [0..N -> V] /\ f[0] = base
      /\ \A n \in 1..N : f[n] = Goes(f[n - 1], n)
    <2>1. \A n \in 1..N : n - 1 \in 0..N
        BY <1>1
    <2> QED
        BY <1>4, <1>6, <2>1 DEF Recurs
<1>8. Is(f)
    BY <1>1, <1>7
<1>9. Is(K)
    <2> HIDE DEF Is
    <2> QED
        BY <1>8, Zenon
<1> HIDE DEF K
<1>10. K[0] = base /\ \A n \in 1..N : K[n] = Goes(K[n - 1], n)
    BY <1>1, <1>9
<1>11. \A n \in 0..N : K[n] \in V
    <2> DEFINE Good == {n \in 0..N : K[n] \in V}
    <2> HIDE DEF Is
    <2>1. 0 \in Good
        BY <1>1, <1>10
    <2>2. \A k \in 1..N : k - 1 \in Good => k \in Good
        BY <1>1, <1>2, <1>10
    <2> HIDE DEF Good
    <2>3. \A n \in 0..N : n \in Good
        BY <1>1, <2>1, <2>2, Climb
    <2> QED
        BY <2>3 DEF Good
<1> QED
    BY <1>1, <1>3, <1>11 DEF V

\* setdefault leaves one of each id.
LEMMA RememberFacts ==
    ASSUME NEW S, NEW items \in Seq(S), OneEach(items), NEW item \in S
    PROVE  Remember(items, item) \in Seq(S) /\ OneEach(Remember(items, item))
<1>1. CASE \E n \in DOMAIN items : items[n].id = item.id
    BY <1>1 DEF Remember
<1>2. CASE ~\E n \in DOMAIN items : items[n].id = item.id
    <2> DEFINE more == Append(items, item)
    <2>1. Remember(items, item) = more
        BY <1>2 DEF Remember
    <2>2. /\ more \in Seq(S) /\ Len(items) \in Nat
          /\ Len(more) = Len(items) + 1
          /\ more[Len(items) + 1] = item
          /\ \A n \in 1..Len(items) : more[n] = items[n]
        OBVIOUS
    <2>3. \A n \in 1..Len(items) : items[n].id # item.id
        BY <1>2
    <2> HIDE DEF more
    <2>4. \A n \in 1..Len(more) : n = Len(items) + 1 \/ n \in 1..Len(items)
        BY <2>2
    <2>5. OneEach(more)
        BY <2>2, <2>3, <2>4 DEF OneEach
    <2> QED
        BY <2>1, <2>2, <2>5
<1> QED
    BY <1>1, <1>2

LEMMA DistinctFacts ==
    ASSUME NEW S, NEW items \in Seq(S)
    PROVE  Distinct(items) \in Seq(S) /\ OneEach(Distinct(items))
<1> DEFINE N == Len(items)
           base == <<>>
           Goes(v, n) == Remember(v, items[n])
           V == {s \in Seq(S) : OneEach(s)}
           Is(k) == k = [n \in 0..N |-> IF n = 0 THEN base ELSE Goes(k[n - 1], n)]
           rule == [p \in (1..N) \X V |-> Goes(p[2], p[1])]
           K == CHOOSE k : Is(k)
<1>1. N \in Nat /\ base \in V
    BY DEF OneEach
<1>2. ASSUME NEW n \in 1..N, NEW v \in V
      PROVE  Goes(v, n) \in V
    <2>1. items[n] \in S /\ v \in Seq(S) /\ OneEach(v)
        OBVIOUS
    <2> QED
        BY <2>1, RememberFacts
<1>3. Distinct(items) = K[N]
    BY DEF Distinct
<1> HIDE DEF N, base, Goes, V
<1>4. \A n \in 1..N : \A v \in V : rule[<<n, v>>] = Goes(v, n)
    OBVIOUS
<1> HIDE DEF rule
<1>5. StepsIn(rule, N, V)
    BY <1>2, <1>4 DEF StepsIn
<1>6. PICK f : Recurs(f, N, V, base, rule)
    BY <1>1, <1>5, RecursionExists
<1>7. f \in [0..N -> V] /\ f[0] = base
      /\ \A n \in 1..N : f[n] = Goes(f[n - 1], n)
    <2>1. \A n \in 1..N : n - 1 \in 0..N
        BY <1>1
    <2> QED
        BY <1>4, <1>6, <2>1 DEF Recurs
<1>8. Is(f)
    BY <1>1, <1>7
<1>9. Is(K)
    <2> HIDE DEF Is
    <2> QED
        BY <1>8, Zenon
<1> HIDE DEF K
<1>10. K[0] = base /\ \A n \in 1..N : K[n] = Goes(K[n - 1], n)
    BY <1>1, <1>9
<1>11. \A n \in 0..N : K[n] \in V
    <2> DEFINE Good == {n \in 0..N : K[n] \in V}
    <2> HIDE DEF Is
    <2>1. 0 \in Good
        BY <1>1, <1>10
    <2>2. \A k \in 1..N : k - 1 \in Good => k \in Good
        BY <1>1, <1>2, <1>10
    <2> HIDE DEF Good
    <2>3. \A n \in 0..N : n \in Good
        BY <1>1, <2>1, <2>2, Climb
    <2> QED
        BY <2>3 DEF Good
<1> QED
    BY <1>1, <1>3, <1>11 DEF V

-----------------------------------------------------------------------------
(* Order                                                                    *)

Kinds == {"root", "translation", "commentary"}
Rows  == {i \in Items : KindOf(i) \in Kinds}
Rank(row) == Order[KindOf(row)]

From(rows, items) ==
    \A j \in 1..Len(rows) : \E i \in 1..Len(items) : rows[j] = items[i]
Ascending(rows) ==
    \A p, q \in 1..Len(rows) : p <= q => Rank(rows[p]) <= Rank(rows[q])

\* Rows from a list, ordered by their kinds.
Ordered(rows, items) ==
    /\ rows \in Seq(Rows)
    /\ OneEach(rows)
    /\ From(rows, items)
    /\ Ascending(rows)

LEMMA RankType ==
    ASSUME NEW row \in Rows
    PROVE  /\ Rank(row) \in 0..2
           /\ Rank(row) = 0 <=> KindOf(row) = "root"
           /\ Rank(row) = 1 <=> KindOf(row) = "translation"
           /\ Rank(row) = 2 <=> KindOf(row) = "commentary"
<1>1. KindOf(row) \in Kinds
    BY DEF Rows
<1> HIDE DEF Rows
<1> QED
    BY <1>1 DEF Rank, Order, Kinds

\* What is of one kind is ordered.
LEMMA OfKindFacts ==
    ASSUME NEW items \in Seq(Items), OneEach(items), NEW kind \in Kinds
    PROVE  /\ Ordered(OfKind(items, kind), items)
           /\ \A j \in 1..Len(OfKind(items, kind)) : KindOf(OfKind(items, kind)[j]) = kind
           /\ \A i \in 1..Len(items) : KindOf(items[i]) = kind =>
                 \E j \in 1..Len(OfKind(items, kind)) : OfKind(items, kind)[j] = items[i]
<1> DEFINE wanted == {i \in ToSet(items) : KindOf(i) = kind}
           k == Kept(items, wanted)
<1>1. OfKind(items, kind) = k
    BY DEF OfKind
<1>2. \A i \in 1..Len(items) : items[i] \in wanted <=> KindOf(items[i]) = kind
    BY DEF ToSet
<1>3. \A i \in wanted : KindOf(i) = kind
    OBVIOUS
<1> HIDE DEF wanted
<1>4. k \in Seq(Items) /\ KeptSoFar(k, items, wanted, Len(items))
    BY KeptFacts
<1> HIDE DEF k
<1>5. \A j \in 1..Len(k) : KindOf(k[j]) = kind
    BY <1>3, <1>4 DEF KeptSoFar
<1>6. k \in Seq(Rows)
    <2>1. \A j \in 1..Len(k) : k[j] \in Rows
        <3>1. \A j \in 1..Len(k) : k[j] \in Items
            BY <1>4
        <3> QED
            BY <1>5, <3>1 DEF Rows
    <2> HIDE DEF Rows
    <2> QED
        BY <1>4, <2>1
<1>7. Ascending(k)
    <2> SUFFICES ASSUME NEW p \in 1..Len(k), NEW q \in 1..Len(k)
                 PROVE  Rank(k[p]) <= Rank(k[q])
        BY DEF Ascending
    <2>1. k[p] \in Rows /\ KindOf(k[p]) = KindOf(k[q])
        BY <1>5, <1>6
    <2>2. Rank(k[p]) = Rank(k[q]) /\ Rank(k[p]) \in 0..2
        BY <2>1, RankType DEF Rank
    <2> QED
        BY <2>2
<1>8. OneEach(k) /\ From(k, items)
    BY <1>4 DEF KeptSoFar, From
<1>9. \A i \in 1..Len(items) : KindOf(items[i]) = kind =>
          \E j \in 1..Len(k) : k[j] = items[i]
    BY <1>2, <1>4 DEF KeptSoFar
<1> QED
    BY <1>1, <1>5, <1>6, <1>7, <1>8, <1>9 DEF Ordered

Below(a, b) == \A j \in 1..Len(a), k \in 1..Len(b) : Rank(a[j]) < Rank(b[k])

\* ab has what a and b have.
Joined(ab, a, b) ==
    /\ \A j \in 1..Len(a) : \E l \in 1..Len(ab) : ab[l] = a[j]
    /\ \A k \in 1..Len(b) : \E l \in 1..Len(ab) : ab[l] = b[k]
    /\ \A l \in 1..Len(ab) : \/ \E j \in 1..Len(a) : ab[l] = a[j]
                             \/ \E k \in 1..Len(b) : ab[l] = b[k]

\* Rows of lower kinds before rows of higher kinds are ordered.
LEMMA JoinFacts ==
    ASSUME NEW items \in Seq(Items), OneEach(items), NEW a, NEW b,
           Ordered(a, items), Ordered(b, items), Below(a, b)
    PROVE  Ordered(a \o b, items) /\ Joined(a \o b, a, b)
<1> DEFINE ab == a \o b
<1>1. a \in Seq(Rows) /\ b \in Seq(Rows)
    BY DEF Ordered
<1> HIDE DEF Rows
<1>2. /\ ab \in Seq(Rows) /\ Len(a) \in Nat /\ Len(b) \in Nat
      /\ Len(ab) = Len(a) + Len(b)
      /\ \A j \in 1..Len(a) : ab[j] = a[j]
      /\ \A k \in 1..Len(b) : ab[Len(a) + k] = b[k]
    BY <1>1
<1> HIDE DEF ab
<1>3. \A l \in 1..Len(ab) :
          \/ l \in 1..Len(a) /\ ab[l] = a[l]
          \/ l - Len(a) \in 1..Len(b) /\ ab[l] = b[l - Len(a)] /\ l > Len(a)
    <2> SUFFICES ASSUME NEW l \in 1..Len(ab), l \notin 1..Len(a)
                 PROVE  l - Len(a) \in 1..Len(b) /\ ab[l] = b[l - Len(a)] /\ l > Len(a)
        BY <1>2
    <2> DEFINE k == l - Len(a)
    <2>1. k \in 1..Len(b) /\ l = Len(a) + k /\ l > Len(a)
        BY <1>2
    <2> HIDE DEF k
    <2>2. ab[l] = b[k]
        BY <1>2, <2>1
    <2> QED
        BY <2>1, <2>2 DEF k
<1>4. From(ab, items)
    <2>1. From(a, items) /\ From(b, items)
        BY DEF Ordered
    <2> QED
        BY <1>3, <2>1 DEF From
<1>5. \A j \in 1..Len(a), k \in 1..Len(b) : a[j].id # b[k].id
    <2> SUFFICES ASSUME NEW j \in 1..Len(a), NEW k \in 1..Len(b), a[j].id = b[k].id
                 PROVE  FALSE
        OBVIOUS
    <2>1. PICK i \in 1..Len(items) : a[j] = items[i]
        BY DEF Ordered, From
    <2>2. PICK h \in 1..Len(items) : b[k] = items[h]
        BY DEF Ordered, From
    <2>3. i = h
        BY <2>1, <2>2 DEF OneEach
    <2>4. Rank(a[j]) < Rank(b[k]) /\ Rank(a[j]) \in 0..2 /\ a[j] = b[k]
        BY <1>1, <2>1, <2>2, <2>3, RankType DEF Below
    <2> QED
        BY <2>4
<1>6. OneEach(ab)
    <2> SUFFICES ASSUME NEW l \in 1..Len(ab), NEW m \in 1..Len(ab), ab[l].id = ab[m].id
                 PROVE  l = m
        BY DEF OneEach
    <2>1. CASE l \in 1..Len(a) /\ m \in 1..Len(a)
        <3>1. OneEach(a)
            BY DEF Ordered
        <3> QED
            BY <1>2, <2>1, <3>1 DEF OneEach
    <2>2. CASE l \in 1..Len(a) /\ m \notin 1..Len(a)
        BY <1>2, <1>3, <1>5, <2>2
    <2>3. CASE l \notin 1..Len(a) /\ m \in 1..Len(a)
        BY <1>2, <1>3, <1>5, <2>3
    <2>4. CASE l \notin 1..Len(a) /\ m \notin 1..Len(a)
        <3>1. OneEach(b)
            BY DEF Ordered
        <3>2. /\ l - Len(a) \in 1..Len(b) /\ ab[l] = b[l - Len(a)]
              /\ m - Len(a) \in 1..Len(b) /\ ab[m] = b[m - Len(a)]
            BY <1>3, <2>4
        <3>3. l - Len(a) = m - Len(a)
            BY <3>1, <3>2 DEF OneEach
        <3> QED
            BY <1>2, <3>3
    <2> QED
        BY <2>1, <2>2, <2>3, <2>4
<1>7. Ascending(ab)
    <2> SUFFICES ASSUME NEW p \in 1..Len(ab), NEW q \in 1..Len(ab), p <= q
                 PROVE  Rank(ab[p]) <= Rank(ab[q])
        BY DEF Ascending
    <2>1. CASE q \in 1..Len(a)
        <3>1. p \in 1..Len(a) /\ ab[p] = a[p] /\ ab[q] = a[q]
            BY <1>2, <2>1
        <3>2. Rank(a[p]) <= Rank(a[q])
            BY <2>1, <3>1 DEF Ordered, Ascending
        <3> QED
            BY <3>1, <3>2
    <2>2. CASE q \notin 1..Len(a) /\ p \in 1..Len(a)
        <3> DEFINE k == q - Len(a)
        <3>1. k \in 1..Len(b) /\ ab[q] = b[k] /\ ab[p] = a[p]
            BY <1>2, <1>3, <2>2
        <3>2. Rank(a[p]) < Rank(b[k]) /\ a[p] \in Rows /\ b[k] \in Rows
            BY <1>1, <2>2, <3>1 DEF Below
        <3> HIDE DEF k
        <3> QED
            BY <3>1, <3>2, RankType
    <2>3. CASE q \notin 1..Len(a) /\ p \notin 1..Len(a)
        <3> DEFINE j == p - Len(a)
                   k == q - Len(a)
        <3>1. /\ k \in 1..Len(b) /\ ab[q] = b[k]
              /\ j \in 1..Len(b) /\ ab[p] = b[j] /\ j <= k
            BY <1>2, <1>3, <2>3
        <3> HIDE DEF j, k
        <3> QED
            BY <3>1 DEF Ordered, Ascending
    <2> QED
        BY <2>1, <2>2, <2>3
<1>8. Ordered(ab, items)
    BY <1>2, <1>4, <1>6, <1>7 DEF Ordered
<1>9. /\ \A j \in 1..Len(a) : j \in 1..Len(ab)
      /\ \A k \in 1..Len(b) : Len(a) + k \in 1..Len(ab)
    BY <1>2
<1>10. \A j \in 1..Len(a) : \E l \in 1..Len(ab) : ab[l] = a[j]
    BY <1>2, <1>9
<1>11. \A k \in 1..Len(b) : \E l \in 1..Len(ab) : ab[l] = b[k]
    BY <1>2, <1>9
<1>12. \A l \in 1..Len(ab) : \/ \E j \in 1..Len(a) : ab[l] = a[j]
                             \/ \E k \in 1..Len(b) : ab[l] = b[k]
    BY <1>3
<1> QED
    BY <1>8, <1>10, <1>11, <1>12 DEF Joined, ab

\* The rows in order are ordered, and whatever has a kind is among them.
LEMMA InOrderFacts ==
    ASSUME NEW items \in Seq(Items), OneEach(items)
    PROVE  /\ Ordered(InOrder(items), items)
           /\ \A i \in 1..Len(items) : KindOf(items[i]) \in Kinds =>
                 \E l \in 1..Len(InOrder(items)) : InOrder(items)[l] = items[i]
<1> DEFINE a == OfKind(items, "root")
           b == OfKind(items, "translation")
           c == OfKind(items, "commentary")
           ab == a \o b
           abc == ab \o c
<1>1. {"root", "translation", "commentary"} = Kinds
    BY DEF Kinds
<1>2. InOrder(items) = abc
    BY DEF InOrder
<1>3. /\ Ordered(a, items) /\ \A j \in 1..Len(a) : KindOf(a[j]) = "root"
      /\ \A i \in 1..Len(items) : KindOf(items[i]) = "root" =>
             \E j \in 1..Len(a) : a[j] = items[i]
    BY <1>1, OfKindFacts
<1>4. /\ Ordered(b, items) /\ \A j \in 1..Len(b) : KindOf(b[j]) = "translation"
      /\ \A i \in 1..Len(items) : KindOf(items[i]) = "translation" =>
             \E j \in 1..Len(b) : b[j] = items[i]
    BY <1>1, OfKindFacts
<1>5. /\ Ordered(c, items) /\ \A j \in 1..Len(c) : KindOf(c[j]) = "commentary"
      /\ \A i \in 1..Len(items) : KindOf(items[i]) = "commentary" =>
             \E j \in 1..Len(c) : c[j] = items[i]
    BY <1>1, OfKindFacts
<1> HIDE DEF a, b, c
<1>6. \A j \in 1..Len(a) : Rank(a[j]) = 0
    BY <1>3 DEF Rank, Order
<1>7. \A j \in 1..Len(b) : Rank(b[j]) = 1
    BY <1>4 DEF Rank, Order
<1>8. \A j \in 1..Len(c) : Rank(c[j]) = 2
    BY <1>5 DEF Rank, Order
<1>9. Below(a, b)
    BY <1>6, <1>7 DEF Below
<1>10. Ordered(ab, items) /\ Joined(ab, a, b)
    BY <1>3, <1>4, <1>9, JoinFacts
<1> HIDE DEF ab
<1>11. Below(ab, c)
    <2>1. \A l \in 1..Len(ab) : Rank(ab[l]) \in 0..1
        BY <1>6, <1>7, <1>10 DEF Joined
    <2> QED
        BY <1>8, <2>1 DEF Below
<1>12. Ordered(abc, items) /\ Joined(abc, ab, c)
    BY <1>5, <1>10, <1>11, JoinFacts
<1> HIDE DEF abc
<1>13. ASSUME NEW i \in 1..Len(items), KindOf(items[i]) \in Kinds
       PROVE  \E l \in 1..Len(abc) : abc[l] = items[i]
    <2>1. KindOf(items[i]) \in {"root", "translation", "commentary"}
        BY <1>1, <1>13
    <2>2. CASE KindOf(items[i]) = "root"
        <3>1. PICK j \in 1..Len(a) : a[j] = items[i]
            BY <1>3, <2>2
        <3>2. PICK k \in 1..Len(ab) : ab[k] = a[j]
            BY <1>10 DEF Joined
        <3>3. PICK l \in 1..Len(abc) : abc[l] = ab[k]
            BY <1>12 DEF Joined
        <3> QED
            BY <3>1, <3>2, <3>3
    <2>3. CASE KindOf(items[i]) = "translation"
        <3>1. PICK j \in 1..Len(b) : b[j] = items[i]
            BY <1>4, <2>3
        <3>2. PICK k \in 1..Len(ab) : ab[k] = b[j]
            BY <1>10 DEF Joined
        <3>3. PICK l \in 1..Len(abc) : abc[l] = ab[k]
            BY <1>12 DEF Joined
        <3> QED
            BY <3>1, <3>2, <3>3
    <2>4. CASE KindOf(items[i]) = "commentary"
        <3>1. PICK j \in 1..Len(c) : c[j] = items[i]
            BY <1>5, <2>4
        <3>2. PICK l \in 1..Len(abc) : abc[l] = c[j]
            BY <1>12 DEF Joined
        <3> QED
            BY <3>1, <3>2
    <2> QED
        BY <2>1, <2>2, <2>3, <2>4
<1> QED
    BY <1>2, <1>12, <1>13

\* The first of a list.
LEMMA FirstOfFacts ==
    ASSUME NEW S, NEW s \in Seq(S), NEW n \in Nat
    PROVE  /\ FirstOf(s, n) \in Seq(S)
           /\ Len(FirstOf(s, n)) = IF Len(s) < n THEN Len(s) ELSE n
           /\ \A i \in 1..Len(FirstOf(s, n)) : i \in 1..Len(s) /\ FirstOf(s, n)[i] = s[i]
BY DEF FirstOf

-----------------------------------------------------------------------------
(* The budget                                                               *)

Chars == {Blank, "x"}
SourceType == [ref : Nat, id : DOMAIN ContentOf, kind : Kinds,
               content : Seq(Chars), truncated : BOOLEAN]

\* u[n] is what the first n sources use.
UsedRun(u, sources) ==
    /\ u \in [0..Len(sources) -> Nat]
    /\ u[Len(sources)] = Used(sources)
    /\ u[0] = 0
    /\ \A n \in 1..Len(sources) : u[n] = u[n - 1] + Len(sources[n].content)

LEMMA UsedDef ==
    ASSUME NEW sources \in Seq(SourceType)
    PROVE  \E u : UsedRun(u, sources)
<1> DEFINE N == Len(sources)
           base == 0
           Goes(v, n) == v + Len(sources[n].content)
           V == Nat
           Is(k) == k = [n \in 0..N |-> IF n = 0 THEN base ELSE Goes(k[n - 1], n)]
           rule == [p \in (1..N) \X V |-> Goes(p[2], p[1])]
           K == CHOOSE k : Is(k)
<1>1. N \in Nat /\ base \in V
    OBVIOUS
<1>2. ASSUME NEW n \in 1..N, NEW v \in V
      PROVE  Goes(v, n) \in V
    <2>1. sources[n].content \in Seq(Chars)
        <3>1. sources[n] \in SourceType
            OBVIOUS
        <3> QED
            BY <3>1 DEF SourceType
    <2> QED
        BY <2>1
<1>3. Used(sources) = K[N]
    BY DEF Used
<1> HIDE DEF N, base, Goes, V
<1>4. \A n \in 1..N : \A v \in V : rule[<<n, v>>] = Goes(v, n)
    OBVIOUS
<1> HIDE DEF rule
<1>5. StepsIn(rule, N, V)
    BY <1>2, <1>4 DEF StepsIn
<1>6. PICK f : Recurs(f, N, V, base, rule)
    BY <1>1, <1>5, RecursionExists
<1>7. f \in [0..N -> V] /\ f[0] = base
      /\ \A n \in 1..N : f[n] = Goes(f[n - 1], n)
    <2>1. \A n \in 1..N : n - 1 \in 0..N
        BY <1>1
    <2> QED
        BY <1>4, <1>6, <2>1 DEF Recurs
<1>8. Is(f)
    BY <1>1, <1>7
<1>9. Is(K)
    <2> HIDE DEF Is
    <2> QED
        BY <1>8, Zenon
<1> HIDE DEF K
<1>10. K[0] = base /\ \A n \in 1..N : K[n] = Goes(K[n - 1], n)
    BY <1>1, <1>9
<1>11. \A n \in 0..N : K[n] \in V
    <2> DEFINE Good == {n \in 0..N : K[n] \in V}
    <2> HIDE DEF Is
    <2>1. 0 \in Good
        BY <1>1, <1>10
    <2>2. \A k \in 1..N : k - 1 \in Good => k \in Good
        BY <1>1, <1>2, <1>10
    <2> HIDE DEF Good
    <2>3. \A n \in 0..N : n \in Good
        BY <1>1, <2>1, <2>2, Climb
    <2> QED
        BY <2>3 DEF Good
<1>12. K \in [0..N -> Nat]
    BY <1>9, <1>11 DEF V
<1>13. UsedRun(K, sources)
    BY <1>3, <1>10, <1>12 DEF UsedRun, N, base, Goes
<1> QED
    BY <1>13

LEMMA UsedType ==
    ASSUME NEW sources \in Seq(SourceType)
    PROVE  Used(sources) \in Nat /\ (sources = <<>> => Used(sources) = 0)
<1>1. PICK u : UsedRun(u, sources)
    BY UsedDef
<1>2. Len(sources) \in 0..Len(sources) /\ (sources = <<>> => Len(sources) = 0)
    OBVIOUS
<1> QED
    BY <1>1, <1>2 DEF UsedRun

\* One more source uses what it says.
LEMMA UsedAppend ==
    ASSUME NEW sources \in Seq(SourceType), NEW x \in SourceType
    PROVE  Used(Append(sources, x)) = Used(sources) + Len(x.content)
<1> DEFINE more == Append(sources, x)
           N == Len(sources)
<1>1. /\ more \in Seq(SourceType) /\ N \in Nat
      /\ Len(more) = N + 1 /\ more[N + 1] = x
      /\ \A n \in 1..N : more[n] = sources[n]
    OBVIOUS
<1> HIDE DEF more
<1>2. PICK u : UsedRun(u, sources)
    BY UsedDef
<1>3. PICK w : UsedRun(w, more)
    BY <1>1, UsedDef
<1> DEFINE Good == {n \in 0..N : u[n] = w[n]}
<1>4. 0 \in Good
    BY <1>1, <1>2, <1>3 DEF UsedRun
<1>5. ASSUME NEW n \in 1..N, n - 1 \in Good
      PROVE  n \in Good
    <2>1. u[n - 1] = w[n - 1] /\ more[n] = sources[n]
        BY <1>1, <1>5
    <2>2. u[n] = u[n - 1] + Len(sources[n].content)
        BY <1>2 DEF UsedRun
    <2>3. n \in 1..Len(more)
        BY <1>1
    <2>4. w[n] = w[n - 1] + Len(more[n].content)
        BY <1>3, <2>3 DEF UsedRun
    <2> QED
        BY <1>1, <2>1, <2>2, <2>4
<1>6. \A n \in 0..N : n \in Good
    <2> HIDE DEF Good, N
    <2> QED
        BY <1>1, <1>4, <1>5, Climb
<1>7. u[N] = w[N] /\ u[N] = Used(sources)
    BY <1>1, <1>2, <1>6 DEF UsedRun
<1>8. w[N + 1] = w[N] + Len(x.content) /\ w[N + 1] = Used(more)
    <2>1. N + 1 \in 1..Len(more) /\ (N + 1) - 1 = N
        BY <1>1
    <2>2. w[N + 1] = w[(N + 1) - 1] + Len(more[N + 1].content)
        BY <1>3, <2>1 DEF UsedRun
    <2> QED
        BY <1>1, <1>3, <2>1, <2>2 DEF UsedRun
<1> QED
    BY <1>7, <1>8 DEF more

\* A text that begins with something else than a blank is not stripped to nothing.
LEMMA RstripFacts ==
    ASSUME NEW s \in Seq(Chars), Len(s) >= 1, s[1] # Blank
    PROVE  Rstrip(s) \in Seq(Chars) /\ Len(Rstrip(s)) \in 1..Len(s)
<1> DEFINE N == Len(s)
           Stripped(n, m) == /\ \A k \in n + 1..m : s[k] = Blank
                             /\ n = 0 \/ s[n] # Blank
           Good == {m \in 0..N : \E n \in 0..m : Stripped(n, m)}
           cut == CHOOSE n \in 0..N : Stripped(n, N)
<1>1. N \in Nat
    OBVIOUS
<1>2. 0 \in Good
    BY <1>1
<1>3. ASSUME NEW m \in 1..N, m - 1 \in Good
      PROVE  m \in Good
    <2>1. PICK n \in 0..(m - 1) : Stripped(n, m - 1)
        BY <1>3
    <2>2. CASE s[m] = Blank
        <3>1. Stripped(n, m)
            BY <2>1, <2>2
        <3>2. n \in 0..m
            OBVIOUS
        <3> QED
            BY <3>1, <3>2
    <2>3. CASE s[m] # Blank
        <3>1. Stripped(m, m) /\ m \in 0..m
            BY <2>3
        <3> QED
            BY <3>1
    <2> QED
        BY <2>2, <2>3
<1>4. \A m \in 0..N : m \in Good
    <2> HIDE DEF Good, N
    <2> QED
        BY <1>1, <1>2, <1>3, Climb
<1>5. \E n \in 0..N : Stripped(n, N)
    BY <1>1, <1>4
<1>6. cut \in 0..N /\ Stripped(cut, N)
    <2> HIDE DEF Stripped, N
    <2> QED
        BY <1>5, Zenon
<1>7. Rstrip(s) = FirstOf(s, cut)
    BY DEF Rstrip
<1> HIDE DEF cut
<1>8. cut # 0
    BY <1>6
<1>9. cut \in Nat /\ ~(Len(s) < cut)
    BY <1>6
<1>10. FirstOf(s, cut) \in Seq(Chars) /\ Len(FirstOf(s, cut)) = cut
    BY <1>9, FirstOfFacts
<1> QED
    BY <1>6, <1>7, <1>8, <1>10

\* What is cut off leaves something, and no more than fits.
LEMMA CutFacts ==
    ASSUME NEW content \in Contents, content # <<>>, NEW remaining \in Nat \ {0}
    PROVE  /\ Cut(content, remaining) \in Seq(Chars)
           /\ Len(Cut(content, remaining)) \in 1..MaxPerSource
           /\ Len(Cut(content, remaining)) <= remaining
<1> DEFINE limit == IF MaxPerSource < remaining THEN MaxPerSource ELSE remaining
           head == FirstOf(content, limit)
<1>1. /\ limit \in Nat /\ limit >= 1 /\ limit <= MaxPerSource /\ limit <= remaining
      /\ MaxPerSource \in Nat
    BY SourcesAssumption
<1>2. content \in Seq(Chars) /\ content[1] # Blank /\ Len(content) >= 1
    BY DEF Contents, Chars
<1>3. Cut(content, remaining) = IF Len(content) > limit THEN Rstrip(head) ELSE content
    BY DEF Cut
<1> HIDE DEF limit
<1>4. /\ head \in Seq(Chars)
      /\ Len(head) = IF Len(content) < limit THEN Len(content) ELSE limit
      /\ \A i \in 1..Len(head) : head[i] = content[i]
    BY <1>1, <1>2, FirstOfFacts
<1> HIDE DEF head
<1>5. CASE Len(content) > limit
    <2>1. Len(head) = limit /\ head[1] = content[1]
        BY <1>1, <1>2, <1>4, <1>5
    <2>2. Rstrip(head) \in Seq(Chars) /\ Len(Rstrip(head)) \in 1..limit
        BY <1>1, <1>2, <1>4, <2>1, RstripFacts
    <2> QED
        BY <1>1, <1>3, <1>5, <2>2
<1>6. CASE ~(Len(content) > limit)
    BY <1>1, <1>2, <1>3, <1>6
<1> QED
    BY <1>5, <1>6

\* A row is skipped, or fits.
Skipped(sources, row) == ContentOf[row.id] = <<>> \/ Used(sources) >= MaxTotal

LEMMA AddRowFacts ==
    ASSUME NEW sources \in Seq(SourceType), NEW row \in Rows
    PROVE  /\ Skipped(sources, row) => AddRow(sources, row) = sources
           /\ ~Skipped(sources, row) => \E x \in SourceType :
                 /\ AddRow(sources, row) = Append(sources, x)
                 /\ x.ref = Len(sources) + 1 /\ x.id = row.id /\ x.kind = KindOf(row)
                 /\ Len(x.content) \in 1..MaxPerSource
                 /\ Used(sources) + Len(x.content) <= MaxTotal
<1>1. CASE Skipped(sources, row)
    BY <1>1 DEF AddRow, Skipped
<1>2. CASE ~Skipped(sources, row)
    <2> DEFINE remaining == MaxTotal - Used(sources)
               content == ContentOf[row.id]
               cut == Cut(content, remaining)
               x == [ref |-> Len(sources) + 1, id |-> row.id, kind |-> KindOf(row),
                     content |-> cut, truncated |-> Len(content) > Len(cut)]
    <2>1. row.id \in DOMAIN ContentOf /\ KindOf(row) \in Kinds
        BY DEF Rows, Items
    <2>2. content \in Contents /\ content # <<>>
        BY <1>2, <2>1, SourcesAssumption DEF Skipped
    <2>3. remaining \in Nat \ {0} /\ Used(sources) + remaining = MaxTotal
          /\ Used(sources) \in Nat
        BY <1>2, UsedType, SourcesAssumption DEF Skipped
    <2>4. AddRow(sources, row) = Append(sources, x)
        BY <1>2 DEF AddRow, Skipped
    <2> HIDE DEF remaining, content
    <2>5. cut \in Seq(Chars) /\ Len(cut) \in 1..MaxPerSource /\ Len(cut) <= remaining
        BY <2>2, <2>3, CutFacts
    <2> HIDE DEF cut
    <2>6. (Len(content) > Len(cut)) \in BOOLEAN /\ Len(sources) + 1 \in Nat
        OBVIOUS
    <2>7. x \in SourceType
        BY <2>1, <2>5, <2>6 DEF SourceType
    <2>8. /\ x.ref = Len(sources) + 1 /\ x.id = row.id /\ x.kind = KindOf(row)
          /\ x.content = cut
        OBVIOUS
    <2> HIDE DEF x
    <2>9. Len(x.content) \in 1..MaxPerSource /\ Used(sources) + Len(x.content) <= MaxTotal
        BY <2>3, <2>5, <2>8, SourcesAssumption
    <2> QED
        BY <1>2, <2>4, <2>7, <2>8, <2>9
<1> QED
    BY <1>1, <1>2

LEMMA AddRowType ==
    ASSUME NEW sources \in Seq(SourceType), NEW row \in Rows
    PROVE  AddRow(sources, row) \in Seq(SourceType)
<1>1. \A x \in SourceType : Append(sources, x) \in Seq(SourceType)
    OBVIOUS
<1> QED
    BY <1>1, AddRowFacts

BuiltRun(b, rows) ==
    /\ b \in [0..Len(rows) -> Seq(SourceType)]
    /\ b[Len(rows)] = Built(rows)
    /\ b[0] = <<>>
    /\ \A n \in 1..Len(rows) : b[n] = AddRow(b[n - 1], rows[n])

LEMMA BuiltDef ==
    ASSUME NEW rows \in Seq(Rows)
    PROVE  \E b : BuiltRun(b, rows)
<1> DEFINE N == Len(rows)
           base == <<>>
           Goes(v, n) == AddRow(v, rows[n])
           V == Seq(SourceType)
           Is(k) == k = [n \in 0..N |-> IF n = 0 THEN base ELSE Goes(k[n - 1], n)]
           rule == [p \in (1..N) \X V |-> Goes(p[2], p[1])]
           K == CHOOSE k : Is(k)
<1>1. N \in Nat /\ base \in V
    OBVIOUS
<1>2. ASSUME NEW n \in 1..N, NEW v \in V
      PROVE  Goes(v, n) \in V
    <2>1. rows[n] \in Rows
        OBVIOUS
    <2> QED
        BY <2>1, AddRowType
<1>3. Built(rows) = K[N]
    BY DEF Built
<1> HIDE DEF N, base, Goes, V
<1>4. \A n \in 1..N : \A v \in V : rule[<<n, v>>] = Goes(v, n)
    OBVIOUS
<1> HIDE DEF rule
<1>5. StepsIn(rule, N, V)
    BY <1>2, <1>4 DEF StepsIn
<1>6. PICK f : Recurs(f, N, V, base, rule)
    BY <1>1, <1>5, RecursionExists
<1>7. f \in [0..N -> V] /\ f[0] = base
      /\ \A n \in 1..N : f[n] = Goes(f[n - 1], n)
    <2>1. \A n \in 1..N : n - 1 \in 0..N
        BY <1>1
    <2> QED
        BY <1>4, <1>6, <2>1 DEF Recurs
<1>8. Is(f)
    BY <1>1, <1>7
<1>9. Is(K)
    <2> HIDE DEF Is
    <2> QED
        BY <1>8, Zenon
<1> HIDE DEF K
<1>10. K[0] = base /\ \A n \in 1..N : K[n] = Goes(K[n - 1], n)
    BY <1>1, <1>9
<1>11. \A n \in 0..N : K[n] \in V
    <2> DEFINE Good == {n \in 0..N : K[n] \in V}
    <2> HIDE DEF Is
    <2>1. 0 \in Good
        BY <1>1, <1>10
    <2>2. \A k \in 1..N : k - 1 \in Good => k \in Good
        BY <1>1, <1>2, <1>10
    <2> HIDE DEF Good
    <2>3. \A n \in 0..N : n \in Good
        BY <1>1, <2>1, <2>2, Climb
    <2> QED
        BY <2>3 DEF Good
<1>12. K \in [0..N -> Seq(SourceType)]
    BY <1>9, <1>11 DEF V
<1>13. BuiltRun(K, rows)
    BY <1>3, <1>10, <1>12 DEF BuiltRun, N, base, Goes
<1> QED
    BY <1>13

\* The sources are of the first n rows.
Origins(sources, rows, n) ==
    \A j \in 1..Len(sources) : \E i \in 1..n :
        sources[j].id = rows[i].id /\ sources[j].kind = KindOf(rows[i])

\* A row that says something is in, or came when the budget was spent.
NoneLeftOut(sources, rows, n) ==
    \A p \in 1..n : ContentOf[rows[p].id] # <<>> =>
        \/ \E j \in 1..Len(sources) : sources[j].id = rows[p].id
        \/ Used(sources) >= MaxTotal /\ Origins(sources, rows, p)

\* Sources built from the first n rows, within the budget.
Fits(sources, rows, n) ==
    /\ Len(sources) <= n
    /\ Used(sources) <= MaxTotal
    /\ \A j \in 1..Len(sources) :
          sources[j].ref = j /\ Len(sources[j].content) \in 1..MaxPerSource
    /\ OneEach(sources)
    /\ Origins(sources, rows, n)
    /\ NoneLeftOut(sources, rows, n)

LEMMA AddRowFits ==
    ASSUME NEW rows \in Seq(Rows), OneEach(rows), NEW n \in 1..Len(rows),
           NEW sources \in Seq(SourceType), Fits(sources, rows, n - 1)
    PROVE  Fits(AddRow(sources, rows[n]), rows, n)
<1>1. rows[n] \in Rows /\ Len(rows) \in Nat
    OBVIOUS
<1>2. /\ Len(sources) <= n - 1 /\ Used(sources) <= MaxTotal
      /\ \A j \in 1..Len(sources) :
            sources[j].ref = j /\ Len(sources[j].content) \in 1..MaxPerSource
      /\ OneEach(sources)
    BY DEF Fits
<1>3. \A i \in 1..(n - 1) : i \in 1..n
    OBVIOUS
<1>4. Origins(sources, rows, n)
    BY <1>3 DEF Fits, Origins
<1>5. \A p \in 1..n : p = n \/ p \in 1..(n - 1)
    OBVIOUS
<1>6. CASE Skipped(sources, rows[n])
    <2>1. AddRow(sources, rows[n]) = sources
        BY <1>1, <1>6, AddRowFacts
    <2>2. NoneLeftOut(sources, rows, n)
        BY <1>4, <1>5, <1>6 DEF Fits, NoneLeftOut, Skipped
    <2>3. Len(sources) <= n
        BY <1>2
    <2> QED
        BY <1>2, <1>4, <2>1, <2>2, <2>3 DEF Fits
<1>7. CASE ~Skipped(sources, rows[n])
    <2>1. PICK x \in SourceType :
              /\ AddRow(sources, rows[n]) = Append(sources, x)
              /\ x.ref = Len(sources) + 1 /\ x.id = rows[n].id
              /\ x.kind = KindOf(rows[n])
              /\ Len(x.content) \in 1..MaxPerSource
              /\ Used(sources) + Len(x.content) <= MaxTotal
        BY <1>1, <1>7, AddRowFacts
    <2> DEFINE more == Append(sources, x)
    <2>2. Used(more) <= MaxTotal
        BY <2>1, UsedAppend
    <2>3. /\ Len(sources) \in Nat /\ Len(more) = Len(sources) + 1
          /\ more[Len(sources) + 1] = x
          /\ \A j \in 1..Len(sources) : more[j] = sources[j]
        OBVIOUS
    <2> HIDE DEF more
    <2>4. \A j \in 1..Len(more) : j = Len(sources) + 1 \/ j \in 1..Len(sources)
        BY <2>3
    <2>5. Len(more) <= n
        BY <1>2, <2>3
    <2>6. \A j \in 1..Len(more) :
              more[j].ref = j /\ Len(more[j].content) \in 1..MaxPerSource
        BY <1>2, <2>1, <2>3, <2>4
    <2>7. \A j \in 1..Len(sources) : sources[j].id # x.id
        <3> SUFFICES ASSUME NEW j \in 1..Len(sources), sources[j].id = x.id
                     PROVE  FALSE
            OBVIOUS
        <3>1. PICK i \in 1..(n - 1) : sources[j].id = rows[i].id
            BY DEF Fits, Origins
        <3>2. i \in 1..Len(rows) /\ i # n /\ rows[i].id = rows[n].id
            BY <2>1, <3>1
        <3> QED
            BY <3>2 DEF OneEach
    <2>8. OneEach(more)
        BY <1>2, <2>3, <2>4, <2>7 DEF OneEach
    <2>9. Origins(more, rows, n)
        <3> SUFFICES ASSUME NEW j \in 1..Len(more)
                     PROVE  \E i \in 1..n : /\ more[j].id = rows[i].id
                                            /\ more[j].kind = KindOf(rows[i])
            BY DEF Origins
        <3>1. CASE j = Len(sources) + 1
            BY <1>1, <2>1, <2>3, <3>1
        <3>2. CASE j \in 1..Len(sources)
            BY <1>4, <2>3, <3>2 DEF Origins
        <3> QED
            BY <2>4, <3>1, <3>2
    <2>10. NoneLeftOut(more, rows, n)
        <3> SUFFICES ASSUME NEW p \in 1..n, ContentOf[rows[p].id] # <<>>
                     PROVE  \E j \in 1..Len(more) : more[j].id = rows[p].id
            BY DEF NoneLeftOut
        <3>1. CASE p = n
            <4>1. Len(sources) + 1 \in 1..Len(more)
                BY <2>3
            <4> QED
                BY <2>1, <2>3, <3>1, <4>1
        <3>2. CASE p \in 1..(n - 1)
            <4>1. PICK j \in 1..Len(sources) : sources[j].id = rows[p].id
                BY <1>7, <3>2 DEF Fits, NoneLeftOut, Skipped
            <4>2. j \in 1..Len(more) /\ more[j] = sources[j]
                BY <2>3
            <4> QED
                BY <4>1, <4>2
        <3> QED
            BY <1>5, <3>1, <3>2
    <2> QED
        BY <2>1, <2>2, <2>5, <2>6, <2>8, <2>9, <2>10 DEF Fits, more
<1> QED
    BY <1>6, <1>7

LEMMA BuiltFits ==
    ASSUME NEW rows \in Seq(Rows), OneEach(rows)
    PROVE  Built(rows) \in Seq(SourceType) /\ Fits(Built(rows), rows, Len(rows))
<1> DEFINE N == Len(rows)
<1>1. N \in Nat
    OBVIOUS
<1>2. PICK b : BuiltRun(b, rows)
    BY BuiltDef
<1> DEFINE Good == {n \in 0..N : Fits(b[n], rows, n)}
<1>3. 0 \in Good
    <2>1. b[0] = <<>> /\ Len(b[0]) = 0 /\ b[0] \in Seq(SourceType)
        BY <1>2 DEF BuiltRun
    <2>2. Used(b[0]) = 0 /\ 0 <= MaxTotal
        <3>1. Used(b[0]) = 0
            BY <2>1, UsedType
        <3>2. MaxTotal \in Nat
            BY SourcesAssumption
        <3> QED
            BY <3>1, <3>2
    <2>3. Fits(b[0], rows, 0)
        BY <2>1, <2>2 DEF Fits, OneEach, Origins, NoneLeftOut
    <2> QED
        BY <1>1, <2>3
<1>4. ASSUME NEW n \in 1..N, n - 1 \in Good
      PROVE  n \in Good
    <2>1. n \in 0..N /\ n - 1 \in 0..N
        BY <1>1
    <2>2. b[n - 1] \in Seq(SourceType) /\ b[n] = AddRow(b[n - 1], rows[n])
        BY <1>2, <2>1 DEF BuiltRun
    <2>3. Fits(b[n - 1], rows, n - 1)
        BY <1>4
    <2>4. Fits(b[n], rows, n)
        BY <2>2, <2>3, AddRowFits
    <2> QED
        BY <2>1, <2>4
<1>5. \A n \in 0..N : n \in Good
    <2> HIDE DEF Good, N
    <2> QED
        BY <1>1, <1>3, <1>4, Climb
<1>6. N \in 0..N
    BY <1>1
<1>7. Fits(b[N], rows, N)
    BY <1>5, <1>6
<1> QED
    BY <1>2, <1>6, <1>7 DEF BuiltRun

-----------------------------------------------------------------------------
(* The sources                                                              *)

\* What is related is a list of items, one of each id.
LEMMA RelatedFacts ==
    ASSUME NEW pages \in Seq(Pages)
    PROVE  Related(pages) \in Seq(Items) /\ OneEach(Related(pages))
<1> DEFINE fetched == Distinct(Listed(pages))
           wanted == {i \in ToSet(fetched) : i.id # Selected.id /\ i.text # Selected.text}
<1>1. fetched \in Seq(Items) /\ OneEach(fetched)
    BY ListedType, DistinctFacts
<1>2. Related(pages) = Kept(fetched, wanted)
    BY DEF Related
<1> HIDE DEF fetched, wanted
<1> QED
    BY <1>1, <1>2, KeptFacts DEF KeptSoFar

\* What the rows are is the first of what is related, in order.
LEMMA ClassifiedFacts ==
    ASSUME NEW pages \in Seq(Pages)
    PROVE  /\ Classified(pages) \in Seq(Rows) /\ OneEach(Classified(pages))
           /\ Len(Classified(pages)) <= MaxSources
           /\ InOrder(Related(pages)) \in Seq(Rows)
           /\ Ascending(InOrder(Related(pages)))
           /\ Len(Classified(pages)) = IF Len(InOrder(Related(pages))) < MaxSources
                                       THEN Len(InOrder(Related(pages))) ELSE MaxSources
           /\ \A p \in 1..Len(Classified(pages)) :
                 /\ p \in 1..Len(InOrder(Related(pages)))
                 /\ Classified(pages)[p] = InOrder(Related(pages))[p]
<1> DEFINE all == InOrder(Related(pages))
           rows == Classified(pages)
<1>1. Ordered(all, Related(pages))
    BY RelatedFacts, InOrderFacts
<1>2. rows = FirstOf(all, MaxSources) /\ MaxSources \in Nat
    BY SourcesAssumption DEF Classified
<1> HIDE DEF all, rows
<1>3. all \in Seq(Rows) /\ OneEach(all) /\ Ascending(all)
    BY <1>1 DEF Ordered
<1>4. /\ rows \in Seq(Rows)
      /\ Len(rows) = IF Len(all) < MaxSources THEN Len(all) ELSE MaxSources
      /\ \A p \in 1..Len(rows) : p \in 1..Len(all) /\ rows[p] = all[p]
    BY <1>2, <1>3, FirstOfFacts
<1>5. OneEach(rows)
    BY <1>3, <1>4 DEF OneEach
<1>6. Len(rows) <= MaxSources
    BY <1>2, <1>3, <1>4
<1> QED
    BY <1>3, <1>4, <1>5, <1>6 DEF all, rows

\* Of any library: the sources fit the budgets of the prompt, each says something,
\* none twice, and its number is its place.
THEOREM SourcesFit ==
    ASSUME listing \in Seq(Pages)
    PROVE  SourcesWithinBudget
<1> DEFINE rows == Classified(listing)
           sources == Sources(listing)
<1>1. rows \in Seq(Rows) /\ OneEach(rows) /\ Len(rows) <= MaxSources
    BY ClassifiedFacts
<1>2. sources = Built(rows)
    BY DEF Sources
<1> HIDE DEF rows, sources
<1>3. sources \in Seq(SourceType) /\ Fits(sources, rows, Len(rows))
    BY <1>1, <1>2, BuiltFits
<1>4. Len(sources) <= MaxSources
    BY <1>1, <1>3, SourcesAssumption DEF Fits
<1>5. DOMAIN sources = 1..Len(sources)
    BY <1>3
<1> QED
    BY <1>3, <1>4, <1>5 DEF SourcesWithinBudget, Fits, OneEach, sources

\* Of any library: what is left out comes after everything that is in, and was
\* left out for a limit.
THEOREM RootsComeFirst ==
    ASSUME listing \in Seq(Pages)
    PROVE  RootComesFirst
<1> DEFINE related == Related(listing)
           all == InOrder(related)
           rows == Classified(listing)
           sources == Sources(listing)
           Left(i) == /\ KindOf(i) # NoKind /\ ContentOf[i.id] # <<>>
                      /\ \A n \in DOMAIN sources : sources[n].id # i.id
<1>1. related \in Seq(Items) /\ OneEach(related)
    BY RelatedFacts
<1>2. \A i \in 1..Len(related) : KindOf(related[i]) \in Kinds =>
          \E l \in 1..Len(all) : all[l] = related[i]
    BY <1>1, InOrderFacts
<1>3. /\ rows \in Seq(Rows) /\ OneEach(rows) /\ Len(rows) <= MaxSources
      /\ all \in Seq(Rows) /\ Ascending(all)
      /\ Len(rows) = IF Len(all) < MaxSources THEN Len(all) ELSE MaxSources
      /\ \A p \in 1..Len(rows) : p \in 1..Len(all) /\ rows[p] = all[p]
    BY ClassifiedFacts
<1>4. sources = Built(rows)
    BY DEF Sources
<1> HIDE DEF related, all, rows, sources
<1>5. sources \in Seq(SourceType) /\ Fits(sources, rows, Len(rows))
    BY <1>3, <1>4, BuiltFits
<1>6. DOMAIN sources = 1..Len(sources) /\ Len(rows) \in Nat /\ Len(all) \in Nat
    BY <1>3, <1>5
<1>7. \A i : KindOf(i) # NoKind => KindOf(i) \in Kinds
    BY DEF KindOf, classify, NoKind, Kinds
<1>8. ASSUME NEW i \in ToSet(related), Left(i)
      PROVE  /\ \A n \in DOMAIN sources : Order[sources[n].kind] <= Order[KindOf(i)]
             /\ Used(sources) = MaxTotal \/ Len(rows) = MaxSources
    <2>1. PICK k \in 1..Len(related) : i = related[k]
        BY <1>1 DEF ToSet
    <2>2. KindOf(related[k]) \in Kinds
        BY <1>7, <1>8, <2>1
    <2>3. PICK p \in 1..Len(all) : all[p] = i
        BY <1>2, <2>1, <2>2
    <2>4. CASE p \in 1..Len(rows)
        <3>1. rows[p] = i /\ ContentOf[rows[p].id] # <<>>
            BY <1>3, <1>8, <2>3, <2>4
        <3>2. ~\E j \in 1..Len(sources) : sources[j].id = rows[p].id
            BY <1>6, <1>8, <3>1
        <3>3. Used(sources) >= MaxTotal /\ Origins(sources, rows, p)
            BY <1>5, <2>4, <3>1, <3>2 DEF Fits, NoneLeftOut
        <3>4. Used(sources) = MaxTotal
            BY <1>5, <3>3, UsedType, SourcesAssumption DEF Fits
        <3>5. ASSUME NEW n \in DOMAIN sources
              PROVE  Order[sources[n].kind] <= Order[KindOf(i)]
            <4>1. PICK q \in 1..p : sources[n].kind = KindOf(rows[q])
                BY <1>6, <3>3 DEF Origins
            <4>2. q \in 1..Len(rows) /\ q \in 1..Len(all) /\ rows[q] = all[q] /\ q <= p
                BY <1>3, <1>6, <2>4
            <4>3. Rank(all[q]) <= Rank(all[p])
                BY <1>3, <4>2 DEF Ascending
            <4> QED
                BY <2>3, <4>1, <4>2, <4>3 DEF Rank
        <3> QED
            BY <3>4, <3>5
    <2>5. CASE p \notin 1..Len(rows)
        <3>1. Len(rows) = MaxSources /\ p > Len(rows)
            BY <1>3, <1>6, <2>5
        <3>2. ASSUME NEW n \in DOMAIN sources
              PROVE  Order[sources[n].kind] <= Order[KindOf(i)]
            <4>1. PICK q \in 1..Len(rows) : sources[n].kind = KindOf(rows[q])
                BY <1>5, <1>6 DEF Fits, Origins
            <4>2. q \in 1..Len(all) /\ rows[q] = all[q] /\ q <= p
                BY <1>3, <1>6, <3>1
            <4>3. Rank(all[q]) <= Rank(all[p])
                BY <1>3, <4>2 DEF Ascending
            <4> QED
                BY <2>3, <4>1, <4>2, <4>3 DEF Rank
        <3> QED
            BY <3>1, <3>2
    <2> QED
        BY <2>4, <2>5
<1> QED
    BY <1>8 DEF RootComesFirst, related, sources, rows
=============================================================================
