----------------------- MODULE PrayerTranslationProofs -----------------------
(***************************************************************************)
(* Proofs about PrayerTranslation for any fleet, traffic and number of      *)
(* edits and faults: type correctness, and that no prayer is forgotten.     *)
(***************************************************************************)
EXTENDS PrayerTranslation, TLAPS

-----------------------------------------------------------------------------
(* The inductive invariant                                                  *)

AllMessages == UNION {Messages(p) : p \in Prayers}

\* What was sent was sent for a text there has been, and only what was sent is
\* in a worker's hand.
SentInv ==
    /\ \A m \in AllMessages : queue[m] # "unsent" => m[2] <= body[m[1]]
    /\ \A w \in Workers : \A m \in InHand(w) : queue[m] # "unsent"

\* The text a handler works on is not older than its message, nor newer than
\* the prayer's: only a prayer has a text.
TextInv ==
    \A w \in Workers : handler[w] # Idle /\ handler[w].stage # "deleting" =>
        /\ handler[w].msg \in AllMessages
        /\ handler[w].stage \in {"translating", "posting"} =>
              /\ handler[w].msg[2] <= handler[w].text
              /\ handler[w].text <= body[handler[w].msg[1]]

\* p needs no message any more.
Settled(p) == p \in gone \/ translated[p] = body[p]

\* Whoever is about to delete the message of the present text may do so.
DeletingInv ==
    \A w \in Workers : handler[w] # Idle /\ handler[w].stage = "deleting" =>
        \A p \in Prayers : handler[w].msg = <<p, body[p]>> => Settled(p)

\* The message of the present text stays until its prayer is settled.
NewestInv ==
    \A p \in Prayers :
        \/ Settled(p)
        \/ /\ body[p] > 0
           /\ queue[<<p, body[p]>>] \in {"visible", "inflight"}

IInv == TypeOK /\ SentInv /\ TextInv /\ DeletingInv /\ NewestInv

-----------------------------------------------------------------------------
(* Messages                                                                 *)

LEMMA MessageFacts ==
    /\ AllMessages \subseteq Msgs
    /\ \A m \in AllMessages :
          /\ m \notin Garbage
          /\ m[1] \in Prayers /\ m[2] \in Nat \ {0}
          /\ m = <<m[1], m[2]>>
          /\ m[2] <= MaxEdits[m[1]]
    /\ \A p \in Prayers : \A n \in Nat \ {0} :
          n <= MaxEdits[p] => <<p, n>> \in AllMessages
    /\ \A m \in Msgs : m \in AllMessages \/ m \in Garbage
<1>1. \A m \in AllMessages : \E p \in Prayers : \E n \in 1..MaxEdits[p] : m = <<p, n>>
      BY DEF AllMessages, Messages
<1>2. \A p \in Prayers : MaxEdits[p] \in Nat
      BY ConstantsAssumption
<1>3. \A p \in Prayers : \A n \in 1..MaxEdits[p] : <<p, n>> \in Messages(p)
      BY DEF Messages
<1>4. \A p \in Prayers : Messages(p) \subseteq AllMessages
      BY DEF AllMessages
<1>5. \A m \in AllMessages : m \notin Garbage
      BY <1>1, ConstantsAssumption
<1>6. \A m \in AllMessages :
         /\ m[1] \in Prayers /\ m[2] \in Nat \ {0}
         /\ m = <<m[1], m[2]>>
         /\ m[2] <= MaxEdits[m[1]]
      BY <1>1, <1>2
<1>7. \A p \in Prayers : \A n \in Nat \ {0} :
         n <= MaxEdits[p] => <<p, n>> \in AllMessages
      BY <1>2, <1>3, <1>4
<1>8. Msgs = AllMessages \cup Garbage
      BY DEF Msgs, AllMessages
<1>9. QED BY <1>5, <1>6, <1>7, <1>8

LEMMA FaultType ==
    ASSUME TypeOK, Healthy \/ Glitch
    PROVE  faults' \in 0..MaxFaults
BY ConstantsAssumption DEF TypeOK, Healthy, Glitch
\* A prayer has a text when somebody names it in a message, and garbage does not.
LEMMA GarbageSettles ==
    ASSUME TypeOK, NEW m \in Garbage, NEW p \in Prayers, m = <<p, body[p]>>
    PROVE  Settled(p)
<1>1. body[p] \in Nat /\ translated[p] \in Nat
      /\ translated[p] <= body[p] /\ body[p] <= MaxEdits[p]
      BY DEF TypeOK
<1>2. body[p] = 0
      BY <1>1, MessageFacts
<1>3. QED BY <1>1, <1>2 DEF Settled

LEMMA StageEffect ==
    ASSUME TypeOK, NEW w \in Workers,
           NEW stage \in {"reading", "translating", "posting", "deleting"},
           NEW m \in Msgs, NEW text \in Nat, Stage(w, stage, m, text)
    PROVE  /\ handler' \in [Workers -> Handlers]
           /\ handler'[w] # Idle
           /\ handler'[w].stage = stage /\ handler'[w].msg = m /\ handler'[w].text = text
           /\ \A v \in Workers \ {w} : handler'[v] = handler[v]
<1>1. [stage |-> stage, msg |-> m, text |-> text] \in Handlers
      BY DEF Handlers
<1>2. [stage |-> stage, msg |-> m, text |-> text] # Idle
      BY DEF Idle
<1>3. QED BY <1>1, <1>2 DEF TypeOK, Stage

LEMMA BusyFacts ==
    ASSUME TypeOK, NEW w \in Workers, handler[w] # Idle
    PROVE  /\ handler[w].stage \in {"reading", "translating", "posting", "deleting"}
           /\ handler[w].msg \in Msgs /\ handler[w].text \in Nat
           /\ phase[w] # "down"
           /\ handler[w].msg \in InHand(w)
BY DEF TypeOK, Handlers, InHand

LEMMA IdleFacts ==
    ASSUME TypeOK, NEW w \in Workers, handler[w].stage # "idle"
    PROVE  handler[w] # Idle
BY DEF Idle

-----------------------------------------------------------------------------
(* Steps of a worker                                                        *)

\* One worker moves, takes nothing new in hand, unsettles no prayer, and deletes
\* no message but the one it was about to delete.
LEMMA WorkerKeeps ==
    ASSUME IInv, NEW w \in Workers,
           UNCHANGED <<body, gone>>,
           faults' \in 0..MaxFaults,
           phase' \in [Workers -> {"up", "stopping", "down"}],
           handler' \in [Workers -> Handlers],
           batch' \in [Workers -> SUBSET Msgs],
           \A v \in Workers \ {w} : /\ phase'[v] = phase[v]
                                    /\ handler'[v] = handler[v]
                                    /\ batch'[v] = batch[v],
           phase'[w] = "down" => handler'[w] = Idle /\ batch'[w] = {},
           batch'[w] \subseteq batch[w],
           handler'[w] # Idle => handler'[w].msg \in InHand(w),
           handler'[w] # Idle /\ handler'[w].stage # "deleting" =>
               /\ handler'[w].msg \in AllMessages
               /\ handler'[w].stage \in {"translating", "posting"} =>
                     /\ handler'[w].msg[2] <= handler'[w].text
                     /\ handler'[w].text <= body[handler'[w].msg[1]],
           handler'[w] # Idle /\ handler'[w].stage = "deleting" =>
               \A p \in Prayers : handler'[w].msg = <<p, body[p]>> => Settled(p)',
           translated' \in [Prayers -> Nat],
           \A p \in Prayers : translated'[p] <= body[p],
           \A p \in Prayers : Settled(p) => Settled(p)',
           \/ queue' = queue
           \/ /\ handler[w] # Idle /\ handler[w].stage = "deleting"
              /\ queue' = [queue EXCEPT ![handler[w].msg] = "deleted"]
    PROVE  IInv'
<1>1. TypeOK /\ SentInv /\ TextInv /\ DeletingInv /\ NewestInv
      BY DEF IInv
<1>2. queue' \in [Msgs -> {"unsent", "visible", "inflight", "deleted"}]
      BY <1>1, BusyFacts DEF TypeOK
<1>3. TypeOK'
      BY <1>1, <1>2 DEF TypeOK
<1>4. \A m \in Msgs : queue'[m] # "unsent" <=> queue[m] # "unsent"
  <2>1. CASE queue' = queue
        BY <2>1
  <2>2. CASE /\ handler[w] # Idle
             /\ queue' = [queue EXCEPT ![handler[w].msg] = "deleted"]
    <3>1. queue[handler[w].msg] # "unsent" /\ handler[w].msg \in Msgs
          BY <1>1, <2>2, BusyFacts DEF SentInv
    <3>2. QED BY <1>1, <2>2, <3>1 DEF TypeOK
  <2>3. QED BY <2>1, <2>2
<1>5. \A v \in Workers : InHand(v)' \subseteq InHand(v) /\ InHand(v) \subseteq Msgs
  <2>1. \A v \in Workers \ {w} : InHand(v)' = InHand(v)
        BY DEF InHand
  <2>2. InHand(w)' \subseteq InHand(w)
        BY DEF InHand
  <2>3. \A v \in Workers : InHand(v) \subseteq Msgs
        BY <1>1, BusyFacts DEF InHand, TypeOK
  <2>4. QED BY <2>1, <2>2, <2>3
<1>6. SentInv'
      BY <1>1, <1>4, <1>5, MessageFacts DEF SentInv
<1>7. TextInv'
      BY <1>1 DEF TextInv
<1>8. DeletingInv'
  <2>1. ASSUME NEW v \in Workers, handler'[v] # Idle, handler'[v].stage = "deleting",
               NEW p \in Prayers, handler'[v].msg = <<p, body[p]>>
        PROVE  Settled(p)'
    <3>1. CASE v = w
          BY <2>1, <3>1
    <3>2. CASE v # w
          BY <1>1, <2>1, <3>2 DEF DeletingInv
    <3>3. QED BY <3>1, <3>2
  <2>2. QED BY <2>1 DEF DeletingInv
<1>9. NewestInv'
  <2>1. ASSUME NEW p \in Prayers, ~Settled(p)'
        PROVE  body[p] > 0 /\ queue'[<<p, body[p]>>] \in {"visible", "inflight"}
    <3>1. ~Settled(p)
          BY <2>1
    <3>2. body[p] > 0 /\ queue[<<p, body[p]>>] \in {"visible", "inflight"}
          BY <1>1, <3>1 DEF NewestInv
    <3>3. <<p, body[p]>> \in Msgs
          BY <1>1, <3>2, MessageFacts DEF TypeOK
    <3>4. CASE queue' = queue
          BY <3>2, <3>4
    <3>5. CASE /\ handler[w] # Idle /\ handler[w].stage = "deleting"
               /\ queue' = [queue EXCEPT ![handler[w].msg] = "deleted"]
      <4>1. handler[w].msg # <<p, body[p]>>
            BY <1>1, <3>1, <3>5 DEF DeletingInv
      <4>2. QED BY <1>1, <3>2, <3>3, <3>5, <4>1 DEF TypeOK
    <3>6. QED BY <3>4, <3>5, <3>2
  <2>2. QED BY <2>1 DEF NewestInv
<1>10. QED BY <1>3, <1>6, <1>7, <1>8, <1>9 DEF IInv

\* What the handler's end does to the loop, by return or by exception.
LEMMA EndEffect ==
    ASSUME TypeOK, NEW w \in Workers, Return(w) \/ Raise(w)
    PROVE  /\ handler' \in [Workers -> Handlers]
           /\ batch' \in [Workers -> SUBSET Msgs]
           /\ handler'[w] = Idle
           /\ batch'[w] \subseteq batch[w]
           /\ Raise(w) => batch'[w] = {}
           /\ \A v \in Workers \ {w} : handler'[v] = handler[v] /\ batch'[v] = batch[v]
BY DEF TypeOK, Return, Raise, Handlers

\* Settled looks at the prayer alone.
LEMMA SettledFrame ==
    ASSUME UNCHANGED backendVars, NEW p \in Prayers
    PROVE  Settled(p)' <=> Settled(p)
BY DEF Settled, backendVars

\* The backend keeps a result or not: no prayer loses a translation it needs.
LEMMA StoredKeeps ==
    ASSUME TypeOK, NEW p \in Prayers, NEW text \in Nat, text <= body[p],
           UNCHANGED <<body, gone>>,
           translated' \in {translated, Stored(p, text)}
    PROVE  /\ translated' \in [Prayers -> Nat]
           /\ \A q \in Prayers : translated'[q] <= body[q]
           /\ \A q \in Prayers : Settled(q) => Settled(q)'
           /\ translated' = Stored(p, text) /\ p \notin Rejected /\ text = body[p]
                => Settled(p)'
<1>1. \A q \in Prayers : translated'[q] = translated[q] \/ translated'[q] = body[q]
      BY DEF Stored, TypeOK
<1>2. translated' \in [Prayers -> Nat]
      BY DEF Stored, TypeOK
<1>3. \A q \in Prayers : translated'[q] <= body[q] /\ (Settled(q) => Settled(q)')
      BY <1>1 DEF Settled, TypeOK
<1>4. ASSUME translated' = Stored(p, text), p \notin Rejected, text = body[p]
      PROVE  Settled(p)'
      BY <1>4 DEF Stored, Settled, TypeOK
<1>5. QED BY <1>2, <1>3, <1>4

\* A step that ends the handler and touches neither the backend nor the queue.
LEMMA GiveUpKeeps ==
    ASSUME IInv, NEW w \in Workers, handler[w] # Idle,
           Return(w) \/ Raise(w),
           UNCHANGED <<body, gone, translated, queue, phase>>,
           faults' \in 0..MaxFaults
    PROVE  IInv'
<1>1. TypeOK
      BY DEF IInv
<1>2. phase' \in [Workers -> {"up", "stopping", "down"}] /\ phase'[w] # "down"
      BY <1>1, BusyFacts DEF TypeOK
<1>3. \A p \in Prayers : Settled(p) => Settled(p)'
      BY SettledFrame DEF backendVars
<1>4. QED BY <1>1, <1>2, <1>3, EndEffect, WorkerKeeps DEF TypeOK

LEMMA GetKeeps ==
    ASSUME IInv, NEW w \in Workers, Get(w)
    PROVE  IInv'
<1> DEFINE m == handler[w].msg
<1>1. /\ TypeOK /\ TextInv /\ SentInv
      /\ handler[w] # Idle /\ handler[w].stage = "reading"
      /\ UNCHANGED <<body, gone, translated, queue, phase>>
      BY IdleFacts DEF IInv, Get, backendVars
<1>2. /\ m \in AllMessages /\ m \in Msgs /\ m \in InHand(w) /\ phase[w] # "down"
      BY <1>1, BusyFacts DEF TextInv
<1>3. m[1] \in Prayers /\ m = <<m[1], m[2]>> /\ m[2] <= body[m[1]] /\ body[m[1]] \in Nat
      BY <1>1, <1>2, MessageFacts DEF SentInv, TypeOK
<1>4. \A p \in Prayers : Settled(p) <=> Settled(p)'
      BY <1>1, SettledFrame DEF backendVars
<1>5. CASE m[1] \in gone /\ Stage(w, "deleting", m, 0) /\ UNCHANGED batch /\ Healthy
  <2>1. \A p \in Prayers : m = <<p, body[p]>> => Settled(p)'
        BY <1>4, <1>5 DEF Settled
  <2>2. QED BY <1>1, <1>2, <1>4, <1>5, <2>1, StageEffect, FaultType, WorkerKeeps DEF TypeOK
<1>6. CASE Stage(w, "translating", m, body[m[1]]) /\ UNCHANGED batch /\ Healthy
      BY <1>1, <1>2, <1>3, <1>4, <1>6, StageEffect, FaultType, WorkerKeeps DEF TypeOK
<1>7. CASE Raise(w) /\ Glitch
      BY <1>1, <1>7, GiveUpKeeps, FaultType
<1>8. QED BY <1>5, <1>6, <1>7 DEF Get

LEMMA TranslateKeeps ==
    ASSUME IInv, NEW w \in Workers, Translate(w)
    PROVE  IInv'
<1>1. /\ TypeOK /\ TextInv
      /\ handler[w] # Idle /\ handler[w].stage = "translating"
      /\ UNCHANGED <<body, gone, translated, queue, phase>>
      BY IdleFacts DEF IInv, Translate, backendVars
<1>2. \A p \in Prayers : Settled(p) => Settled(p)'
      BY <1>1, SettledFrame DEF backendVars
<1>3. CASE /\ Stage(w, "posting", handler[w].msg, handler[w].text)
           /\ UNCHANGED batch /\ Healthy
  <2>1. /\ handler[w].msg \in AllMessages /\ handler[w].msg[2] <= handler[w].text
        /\ handler[w].text <= body[handler[w].msg[1]]
        BY <1>1 DEF TextInv
  <2>2. /\ handler[w].msg \in Msgs /\ handler[w].text \in Nat /\ phase[w] # "down"
        /\ handler[w].msg \in InHand(w)
        BY <1>1, BusyFacts
  <2>3. QED BY <1>1, <1>2, <1>3, <2>1, <2>2, StageEffect, FaultType,
               WorkerKeeps DEF TypeOK
<1>4. CASE Return(w) /\ Glitch
      BY <1>1, <1>4, GiveUpKeeps, FaultType
<1>5. QED BY <1>3, <1>4 DEF Translate

LEMMA PostKeeps ==
    ASSUME IInv, NEW w \in Workers, Post(w)
    PROVE  IInv'
<1>1. /\ TypeOK /\ TextInv
      /\ handler[w] # Idle /\ handler[w].stage = "posting"
      /\ UNCHANGED <<body, gone, queue, phase>>
      BY IdleFacts DEF IInv, Post
<1>2. /\ handler[w].msg \in AllMessages /\ handler[w].msg \in Msgs
      /\ handler[w].msg \in InHand(w) /\ phase[w] # "down"
      /\ handler[w].text \in Nat
      /\ handler[w].msg[2] <= handler[w].text
      /\ handler[w].text <= body[handler[w].msg[1]]
      BY <1>1, BusyFacts DEF TextInv
\* Constants for what is on its way: a primed Settled must not read the handler.
<1>3. PICK p \in Prayers, n \in Nat, text \in Nat :
         /\ handler[w].msg = <<p, n>> /\ handler[w].text = text
         /\ n <= text /\ text <= body[p]
      BY <1>2, MessageFacts
<1>4. body[p] \in Nat
      BY <1>1 DEF TypeOK
<1>5. translated' \in {translated, Stored(p, text)}
      BY <1>3 DEF Post
<1>6. /\ translated' \in [Prayers -> Nat]
      /\ \A q \in Prayers : translated'[q] <= body[q]
      /\ \A q \in Prayers : Settled(q) => Settled(q)'
      /\ translated' = Stored(p, text) /\ p \notin Rejected /\ text = body[p]
            => Settled(p)'
      BY <1>1, <1>3, <1>5, StoredKeeps
<1>7. CASE /\ p \notin Rejected /\ translated' = Stored(p, text)
           /\ Stage(w, "deleting", <<p, n>>, 0) /\ UNCHANGED batch /\ Healthy
  <2>1. \A q \in Prayers : <<p, n>> = <<q, body[q]>> => Settled(q)'
    <3>1. ASSUME NEW q \in Prayers, <<p, n>> = <<q, body[q]>>
          PROVE  q = p /\ n = body[p]
          BY <3>1
    <3>2. n = body[p] => text = body[p]
          BY <1>3, <1>4
    <3>3. QED BY <1>6, <1>7, <3>1, <3>2
  <2>2. /\ handler' \in [Workers -> Handlers]
        /\ handler'[w] # Idle
        /\ handler'[w].stage = "deleting" /\ handler'[w].msg = <<p, n>>
        /\ \A v \in Workers \ {w} : handler'[v] = handler[v]
        BY <1>1, <1>2, <1>3, <1>7, StageEffect
  <2>3. handler'[w].msg \in InHand(w)
        BY <1>2, <1>3, <2>2
  <2>4. \A q \in Prayers : handler'[w].msg = <<q, body[q]>> => Settled(q)'
        BY <2>1, <2>2
  <2>5. faults' \in 0..MaxFaults
        BY <1>1, <1>7, FaultType
  <2>6. QED BY <1>1, <1>2, <1>6, <1>7, <2>2, <2>3, <2>4, <2>5, WorkerKeeps DEF TypeOK
<1>8. CASE Raise(w) /\ (Healthy \/ Glitch)
      BY <1>1, <1>2, <1>6, <1>8, EndEffect, FaultType, WorkerKeeps DEF TypeOK
<1>9. QED BY <1>3, <1>7, <1>8 DEF Post

LEMMA DeleteKeeps ==
    ASSUME IInv, NEW w \in Workers, Delete(w)
    PROVE  IInv'
<1>1. /\ TypeOK
      /\ handler[w] # Idle /\ handler[w].stage = "deleting"
      /\ UNCHANGED <<body, gone, translated, phase>>
      /\ Return(w)
      BY IdleFacts DEF IInv, Delete, backendVars
<1>2. \/ queue' = [queue EXCEPT ![handler[w].msg] = "deleted"] /\ Healthy
      \/ queue' = queue /\ Glitch
      BY DEF Delete
<1>3. \A p \in Prayers : Settled(p) => Settled(p)'
      BY <1>1, SettledFrame DEF backendVars
<1>4. QED BY <1>1, <1>2, <1>3, EndEffect, BusyFacts, FaultType, WorkerKeeps DEF TypeOK

\* The stop event, and a start after the end.
LEMMA PhaseKeeps ==
    ASSUME IInv, NEW w \in Workers, Stop(w) \/ Leave(w) \/ Start(w)
    PROVE  IInv'
<1>1. /\ TypeOK /\ UNCHANGED <<body, gone, translated, queue, handler>>
      /\ \A p \in Prayers : Settled(p) <=> Settled(p)'
      BY SettledFrame DEF IInv, Stop, Leave, Start, backendVars
<1>2. faults' \in 0..MaxFaults
      BY <1>1, FaultType DEF Stop, Leave, Start, TypeOK
<1>3. /\ phase' \in [Workers -> {"up", "stopping", "down"}]
      /\ batch' \in [Workers -> SUBSET Msgs]
      /\ \A v \in Workers \ {w} : phase'[v] = phase[v] /\ batch'[v] = batch[v]
      /\ batch'[w] \subseteq batch[w]
      /\ phase'[w] = "down" => handler[w] = Idle /\ batch'[w] = {}
      BY <1>1 DEF Stop, Leave, Start, TypeOK
<1>4. handler[w] # Idle => handler[w].msg \in InHand(w)
      BY <1>1, BusyFacts
<1>5. TextInv /\ DeletingInv
      BY DEF IInv
<1>6. handler[w] # Idle /\ handler[w].stage # "deleting" =>
               /\ handler[w].msg \in AllMessages
               /\ handler[w].stage \in {"translating", "posting"} =>
                     /\ handler[w].msg[2] <= handler[w].text
                     /\ handler[w].text <= body[handler[w].msg[1]]
      BY <1>5 DEF TextInv
<1>7. handler[w] # Idle /\ handler[w].stage = "deleting" =>
               \A p \in Prayers : handler[w].msg = <<p, body[p]>> => Settled(p)'
      BY <1>1, <1>5 DEF DeletingInv
<1>8. QED BY <1>1, <1>2, <1>3, <1>4, <1>6, <1>7, WorkerKeeps DEF TypeOK

LEMMA CancelKeeps ==
    ASSUME IInv, NEW w \in Workers, Cancel(w)
    PROVE  IInv'
<1> DEFINE m    == handler[w].msg
           text == handler[w].text
<1>1. /\ TypeOK /\ TextInv
      /\ handler[w] # Idle
      /\ UNCHANGED <<body, gone>>
      /\ Raise(w)
      /\ phase' = [phase EXCEPT ![w] = "down"]
      /\ Healthy \/ Glitch
      BY DEF IInv, Cancel
<1>2. /\ phase' \in [Workers -> {"up", "stopping", "down"}]
      /\ \A v \in Workers \ {w} : phase'[v] = phase[v]
      BY <1>1 DEF TypeOK
<1>3. /\ translated' \in [Prayers -> Nat]
      /\ \A q \in Prayers : translated'[q] <= body[q]
      /\ \A q \in Prayers : Settled(q) => Settled(q)'
  <2>1. CASE translated' = translated
        BY <1>1, <2>1, SettledFrame DEF TypeOK, backendVars
  <2>2. CASE /\ handler[w].stage = "posting"
             /\ translated' = Stored(m[1], text)
    <3>1. m \in AllMessages /\ text <= body[m[1]] /\ text \in Nat
          BY <1>1, <2>2, BusyFacts DEF TextInv
    <3>2. QED BY <1>1, <2>2, <3>1, MessageFacts, StoredKeeps
  <2>3. QED BY <2>1, <2>2 DEF Cancel
<1>4. \/ queue' = queue
      \/ handler[w].stage = "deleting" /\ queue' = [queue EXCEPT ![m] = "deleted"]
      BY DEF Cancel
<1>5. QED BY <1>1, <1>2, <1>3, <1>4, EndEffect, FaultType, WorkerKeeps DEF TypeOK

-----------------------------------------------------------------------------
(* Steps that take messages in hand                                         *)

\* What Begin does: a message of a prayer is read for, garbage settles nobody.
LEMMA BeginEffect ==
    ASSUME TypeOK, NEW w \in Workers, NEW m \in Msgs, Begin(w, m),
           UNCHANGED backendVars
    PROVE  /\ handler' \in [Workers -> Handlers]
           /\ handler'[w] # Idle /\ handler'[w].msg = m
           /\ handler'[w].stage \in {"reading", "deleting"}
           /\ handler'[w].stage # "deleting" => m \in AllMessages
           /\ handler'[w].stage = "deleting" =>
                 \A p \in Prayers : m = <<p, body[p]>> => Settled(p)'
           /\ \A v \in Workers \ {w} : handler'[v] = handler[v]
<1>1. CASE m \in Garbage /\ Stage(w, "deleting", m, 0)
  <2>1. \A p \in Prayers : m = <<p, body[p]>> => Settled(p)'
        BY <1>1, GarbageSettles, SettledFrame
  <2>2. QED BY <1>1, <2>1, StageEffect
<1>2. CASE m \notin Garbage /\ Stage(w, "reading", m, 0)
      BY <1>2, StageEffect, MessageFacts
<1>3. QED BY <1>1, <1>2 DEF Begin

LEMMA ContinueKeeps ==
    ASSUME IInv, NEW w \in Workers, NEW m \in batch[w], Continue(w, m)
    PROVE  IInv'
<1>1. /\ TypeOK /\ UNCHANGED <<body, gone, translated, queue, phase, faults>>
      /\ phase[w] = "up" /\ Begin(w, m)
      /\ batch' = [batch EXCEPT ![w] = @ \ {m}]
      /\ m \in Msgs /\ m \in InHand(w)
      BY DEF IInv, TypeOK, Continue, InHand, backendVars
<1>2. \A p \in Prayers : Settled(p) => Settled(p)'
      BY <1>1, SettledFrame DEF backendVars
<1>3. /\ batch' \in [Workers -> SUBSET Msgs]
      /\ \A v \in Workers \ {w} : batch'[v] = batch[v]
      /\ batch'[w] \subseteq batch[w]
      BY <1>1 DEF TypeOK
<1>4. /\ handler' \in [Workers -> Handlers]
      /\ handler'[w] # Idle /\ handler'[w].msg = m
      /\ handler'[w].stage \in {"reading", "deleting"}
      /\ handler'[w].stage # "deleting" => m \in AllMessages
      /\ handler'[w].stage = "deleting" =>
            \A p \in Prayers : m = <<p, body[p]>> => Settled(p)'
      /\ \A v \in Workers \ {w} : handler'[v] = handler[v]
      BY <1>1, BeginEffect DEF backendVars
<1>5. QED BY <1>1, <1>2, <1>3, <1>4, WorkerKeeps DEF TypeOK

LEMMA ReceiveKeeps ==
    ASSUME IInv, NEW w \in Workers, NEW m \in Visible,
           NEW S \in SUBSET (Visible \ {m}), Receive(w, m, S)
    PROVE  IInv'
<1>1. /\ TypeOK /\ SentInv /\ TextInv /\ DeletingInv /\ NewestInv
      /\ UNCHANGED <<body, gone, translated, phase, faults>>
      /\ phase[w] = "up" /\ Begin(w, m)
      /\ queue' = [n \in Msgs |-> IF n \in S \cup {m} THEN "inflight" ELSE queue[n]]
      /\ batch' = [batch EXCEPT ![w] = S]
      /\ m \in Msgs /\ S \subseteq Msgs
      /\ \A n \in S \cup {m} : queue[n] = "visible"
      BY DEF IInv, Receive, Visible, backendVars
<1>2. \A p \in Prayers : Settled(p)' <=> Settled(p)
      BY <1>1, SettledFrame DEF backendVars
<1>3. /\ queue' \in [Msgs -> {"unsent", "visible", "inflight", "deleted"}]
      /\ \A n \in Msgs : queue'[n] # "unsent" <=> queue[n] # "unsent"
      /\ \A n \in Msgs : queue[n] \in {"visible", "inflight"}
            => queue'[n] \in {"visible", "inflight"}
      BY <1>1 DEF TypeOK
<1>4. /\ handler' \in [Workers -> Handlers]
      /\ handler'[w] # Idle /\ handler'[w].msg = m
      /\ handler'[w].stage \in {"reading", "deleting"}
      /\ handler'[w].stage # "deleting" => m \in AllMessages
      /\ handler'[w].stage = "deleting" =>
            \A p \in Prayers : m = <<p, body[p]>> => Settled(p)'
      /\ \A v \in Workers \ {w} : handler'[v] = handler[v]
      BY <1>1, BeginEffect DEF backendVars
<1>5. TypeOK'
  <2>1. batch' \in [Workers -> SUBSET Msgs]
        BY <1>1 DEF TypeOK
  <2>2. \A v \in Workers : phase'[v] = "down" => handler'[v] = Idle /\ batch'[v] = {}
        BY <1>1, <1>4 DEF TypeOK
  <2>3. QED BY <1>1, <1>3, <1>4, <2>1, <2>2 DEF TypeOK
<1>6. SentInv'
  <2>1. \A v \in Workers : InHand(v)' \subseteq InHand(v) \cup S \cup {m}
    <3>1. \A v \in Workers \ {w} : InHand(v)' = InHand(v)
          BY <1>1, <1>4 DEF InHand, TypeOK
    <3>2. InHand(w)' = S \cup {m}
          BY <1>1, <1>4 DEF InHand, TypeOK
    <3>3. QED BY <3>1, <3>2
  <2>2. \A v \in Workers : InHand(v) \subseteq Msgs
        BY <1>1, BusyFacts DEF InHand, TypeOK
  <2>3. \A v \in Workers : \A n \in InHand(v)' : queue'[n] # "unsent"
        BY <1>1, <1>3, <2>1, <2>2 DEF SentInv
  <2>4. QED BY <1>1, <1>3, <2>3, MessageFacts DEF SentInv
<1>7. TextInv'
      BY <1>1, <1>4 DEF TextInv
<1>8. DeletingInv'
  <2>1. ASSUME NEW v \in Workers, handler'[v] # Idle, handler'[v].stage = "deleting",
               NEW p \in Prayers, handler'[v].msg = <<p, body[p]>>
        PROVE  Settled(p)'
    <3>1. CASE v = w
          BY <1>4, <2>1, <3>1
    <3>2. CASE v # w
          BY <1>1, <1>2, <1>4, <2>1, <3>2 DEF DeletingInv
    <3>3. QED BY <3>1, <3>2
  <2>2. QED BY <1>1, <2>1 DEF DeletingInv
<1>9. NewestInv'
  <2>1. ASSUME NEW p \in Prayers, ~Settled(p)'
        PROVE  body[p] > 0 /\ queue'[<<p, body[p]>>] \in {"visible", "inflight"}
    <3>1. body[p] > 0 /\ queue[<<p, body[p]>>] \in {"visible", "inflight"}
          BY <1>1, <1>2, <2>1 DEF NewestInv
    <3>2. <<p, body[p]>> \in Msgs
          BY <1>1, <3>1, MessageFacts DEF TypeOK
    <3>3. QED BY <1>3, <3>1, <3>2
  <2>2. QED BY <1>1, <2>1 DEF NewestInv
<1>10. QED BY <1>5, <1>6, <1>7, <1>8, <1>9 DEF IInv

-----------------------------------------------------------------------------
(* The backend and the queue                                                *)

\* The new text's message was never sent: nobody has it in hand, and every other
\* prayer is as settled as it was.
LEMMA EditKeeps ==
    ASSUME IInv, NEW p \in Prayers, Edit(p)
    PROVE  IInv'
<1> DEFINE new == <<p, body[p] + 1>>
<1>1. /\ TypeOK /\ SentInv /\ TextInv /\ DeletingInv /\ NewestInv
      /\ UNCHANGED <<gone, translated, phase, batch, handler, faults>>
      /\ p \notin gone /\ body[p] < MaxEdits[p]
      /\ body' = [body EXCEPT ![p] = @ + 1]
      /\ queue' = [queue EXCEPT ![new] = "visible"]
      BY DEF IInv, Edit
<1>2. /\ MaxEdits[p] \in Nat
      /\ \A q \in Prayers : body[q] \in Nat /\ body'[q] \in Nat /\ body[q] <= body'[q]
                            /\ (q # p => body'[q] = body[q])
      /\ body'[p] = body[p] + 1 /\ body'[p] <= MaxEdits[p]
  <2>1. MaxEdits[p] \in Nat
        BY ConstantsAssumption
  <2>2. body[p] \in Nat /\ body'[p] = body[p] + 1
        BY <1>1 DEF TypeOK
  <2>3. \A q \in Prayers : body[q] \in Nat /\ (q # p => body'[q] = body[q])
        BY <1>1 DEF TypeOK
  <2>4. body'[p] \in Nat /\ body[p] <= body'[p] /\ body'[p] <= MaxEdits[p]
        BY <1>1, <2>1, <2>2
  <2>5. ASSUME NEW q \in Prayers
        PROVE  body'[q] \in Nat /\ body[q] <= body'[q]
        BY <2>3, <2>4
  <2>6. QED BY <2>1, <2>2, <2>3, <2>4, <2>5
<1>3. new \in AllMessages /\ new \in Msgs
      BY <1>2, MessageFacts
<1>4. /\ queue' \in [Msgs -> {"unsent", "visible", "inflight", "deleted"}]
      /\ queue'[new] = "visible"
      /\ \A m \in Msgs : m # new => queue'[m] = queue[m]
      BY <1>1, <1>3 DEF TypeOK
<1>5. queue[new] = "unsent"
      BY <1>1, <1>2, <1>3 DEF SentInv
<1>6. \A v \in Workers : new \notin InHand(v) /\ InHand(v)' = InHand(v)
                         /\ InHand(v) \subseteq Msgs
      BY <1>1, <1>5, BusyFacts DEF SentInv, InHand, TypeOK
<1>7. \A q \in Prayers : q # p => (Settled(q)' <=> Settled(q))
      BY <1>1, <1>2 DEF Settled
<1>8. TypeOK'
  <2>1. \A q \in Prayers : translated'[q] <= body'[q] /\ body'[q] <= MaxEdits[q]
        BY <1>1, <1>2 DEF TypeOK
  <2>2. body' \in [Prayers -> Nat]
        BY <1>1, <1>2 DEF TypeOK
  <2>3. QED BY <1>1, <1>4, <2>1, <2>2 DEF TypeOK
<1>9. SentInv'
  <2>1. ASSUME NEW m \in AllMessages, queue'[m] # "unsent"
        PROVE  m[2] <= body'[m[1]]
    <3>1. CASE m = new
          BY <1>2, <3>1
    <3>2. CASE m # new
      <4>1. m[2] <= body[m[1]] /\ m[2] \in Nat /\ m[1] \in Prayers
            BY <1>1, <1>4, <2>1, <3>2, MessageFacts DEF SentInv
      <4>2. QED BY <1>2, <4>1
    <3>3. QED BY <3>1, <3>2
  <2>2. \A v \in Workers : \A m \in InHand(v)' : queue'[m] # "unsent"
        BY <1>1, <1>4, <1>6 DEF SentInv
  <2>3. QED BY <2>1, <2>2 DEF SentInv
<1>10. TextInv'
  <2>1. ASSUME NEW v \in Workers, handler[v] # Idle, handler[v].stage # "deleting"
        PROVE  /\ handler[v].msg \in AllMessages
               /\ handler[v].stage \in {"translating", "posting"} =>
                     /\ handler[v].msg[2] <= handler[v].text
                     /\ handler[v].text <= body'[handler[v].msg[1]]
    <3>1. handler[v].msg \in AllMessages /\ handler[v].text \in Nat
          BY <1>1, <2>1, BusyFacts DEF TextInv
    <3>2. handler[v].msg[1] \in Prayers
          BY <3>1, MessageFacts
    <3>3. body[handler[v].msg[1]] <= body'[handler[v].msg[1]]
          /\ body[handler[v].msg[1]] \in Nat /\ body'[handler[v].msg[1]] \in Nat
          BY <1>2, <3>2
    <3>4. QED BY <1>1, <2>1, <3>1, <3>3 DEF TextInv
  <2>2. QED BY <1>1, <2>1 DEF TextInv
<1>11. DeletingInv'
  <2>1. ASSUME NEW v \in Workers, handler[v] # Idle, handler[v].stage = "deleting",
               NEW q \in Prayers, handler[v].msg = <<q, body'[q]>>
        PROVE  Settled(q)'
    <3>1. q # p
          BY <1>1, <1>2, <1>6, <2>1, BusyFacts
    <3>2. QED BY <1>1, <1>2, <1>7, <2>1, <3>1 DEF DeletingInv
  <2>2. QED BY <1>1, <2>1 DEF DeletingInv
<1>12. NewestInv'
  <2>1. ASSUME NEW q \in Prayers, ~Settled(q)'
        PROVE  body'[q] > 0 /\ queue'[<<q, body'[q]>>] \in {"visible", "inflight"}
    <3>1. CASE q = p
          BY <1>2, <1>4, <3>1
    <3>2. CASE q # p
      <4>1. body[q] > 0 /\ queue[<<q, body[q]>>] \in {"visible", "inflight"}
            BY <1>1, <1>7, <2>1, <3>2 DEF NewestInv
      <4>2. <<q, body[q]>> \in Msgs /\ <<q, body[q]>> # new
            BY <1>1, <3>2, <4>1, MessageFacts DEF TypeOK
      <4>3. QED BY <1>2, <1>4, <3>2, <4>1, <4>2
    <3>3. QED BY <3>1, <3>2
  <2>2. QED BY <2>1 DEF NewestInv
<1>13. QED BY <1>8, <1>9, <1>10, <1>11, <1>12 DEF IInv

\* A prayer that goes is settled, and no other is touched.
LEMMA RemoveKeeps ==
    ASSUME IInv, NEW p \in Prayers, Remove(p)
    PROVE  IInv'
<1>1. /\ TypeOK /\ SentInv /\ TextInv /\ DeletingInv /\ NewestInv
      /\ UNCHANGED <<body, translated, queue, phase, batch, handler, faults>>
      /\ gone' = gone \cup {p}
      BY DEF IInv, Remove
<1>2. /\ \A q \in Prayers : Settled(q) => Settled(q)'
      /\ \A v \in Workers : InHand(v)' = InHand(v)
      BY <1>1 DEF Settled, InHand
<1>3. TypeOK'
      BY <1>1 DEF TypeOK
<1>4. SentInv'
      BY <1>1, <1>2 DEF SentInv
<1>5. TextInv'
      BY <1>1 DEF TextInv
<1>6. DeletingInv'
      BY <1>1, <1>2 DEF DeletingInv
<1>7. NewestInv'
      BY <1>1, <1>2 DEF NewestInv
<1>8. QED BY <1>3, <1>4, <1>5, <1>6, <1>7 DEF IInv

LEMMA VisibilityEndsKeeps ==
    ASSUME IInv, NEW m \in Msgs, VisibilityEnds(m)
    PROVE  IInv'
<1>1. /\ TypeOK /\ SentInv /\ TextInv /\ DeletingInv /\ NewestInv
      /\ UNCHANGED <<body, gone, translated, phase, batch, handler>>
      /\ queue[m] = "inflight" /\ queue' = [queue EXCEPT ![m] = "visible"]
      /\ Healthy \/ Glitch
      BY DEF IInv, VisibilityEnds, backendVars
<1>2. /\ \A q \in Prayers : Settled(q) <=> Settled(q)'
      /\ \A v \in Workers : InHand(v)' = InHand(v) /\ InHand(v) \subseteq Msgs
      BY <1>1, BusyFacts DEF Settled, InHand, TypeOK
<1>3. /\ queue' \in [Msgs -> {"unsent", "visible", "inflight", "deleted"}]
      /\ \A n \in Msgs : queue'[n] # "unsent" <=> queue[n] # "unsent"
      /\ \A n \in Msgs : queue[n] \in {"visible", "inflight"}
            => queue'[n] \in {"visible", "inflight"}
      BY <1>1 DEF TypeOK
<1>4. TypeOK'
      BY <1>1, <1>3, FaultType DEF TypeOK
<1>5. SentInv'
      BY <1>1, <1>2, <1>3, MessageFacts DEF SentInv
<1>6. TextInv'
      BY <1>1 DEF TextInv
<1>7. DeletingInv'
      BY <1>1, <1>2 DEF DeletingInv
<1>8. NewestInv'
  <2>1. ASSUME NEW p \in Prayers, ~Settled(p)'
        PROVE  body[p] > 0 /\ queue'[<<p, body[p]>>] \in {"visible", "inflight"}
    <3>1. body[p] > 0 /\ queue[<<p, body[p]>>] \in {"visible", "inflight"}
          BY <1>1, <1>2, <2>1 DEF NewestInv
    <3>2. <<p, body[p]>> \in Msgs
          BY <1>1, <3>1, MessageFacts DEF TypeOK
    <3>3. QED BY <1>3, <3>1, <3>2
  <2>2. QED BY <1>1, <2>1 DEF NewestInv
<1>9. QED BY <1>4, <1>5, <1>6, <1>7, <1>8 DEF IInv

-----------------------------------------------------------------------------
(* The specification                                                        *)

LEMMA InitHolds == ASSUME Init PROVE IInv
<1>1. PICK T \in Traffics :
         /\ gone = Prayers \ T
         /\ queue = [m \in Msgs |->
                       IF m \in Garbage \cap T THEN "visible" ELSE "unsent"]
      BY DEF Init
<1>2. TypeOK
  <2>1. queue \in [Msgs -> {"unsent", "visible", "inflight", "deleted"}]
        /\ gone \subseteq Prayers
        BY <1>1
  <2>2. \A p \in Prayers : MaxEdits[p] \in Nat
        BY ConstantsAssumption
  <2>3. \A p \in Prayers : translated[p] <= body[p] /\ body[p] <= MaxEdits[p]
        BY <2>2 DEF Init
  <2>4. Idle \in Handlers /\ faults \in 0..MaxFaults
        BY ConstantsAssumption DEF Init, Handlers
  <2>5. QED BY <2>1, <2>3, <2>4 DEF Init, TypeOK
<1>3. \A w \in Workers : handler[w] = Idle /\ InHand(w) = {}
      BY DEF Init, InHand
<1>4. SentInv
      BY <1>1, <1>3, MessageFacts DEF SentInv
<1>5. TextInv /\ DeletingInv
      BY <1>3 DEF TextInv, DeletingInv
<1>6. NewestInv
      BY DEF Init, NewestInv, Settled
<1>7. QED BY <1>2, <1>4, <1>5, <1>6 DEF IInv

LEMMA StutterKeeps == ASSUME IInv, UNCHANGED vars PROVE IInv'
<1>1. /\ UNCHANGED <<body, gone, translated, queue, phase, batch, handler, faults>>
      /\ \A q \in Prayers : Settled(q)' <=> Settled(q)
      /\ \A v \in Workers : InHand(v)' = InHand(v)
      BY DEF vars, backendVars, Settled, InHand
<1>2. TypeOK' /\ SentInv' /\ TextInv'
      BY <1>1 DEF IInv, TypeOK, SentInv, TextInv
<1>3. DeletingInv' /\ NewestInv'
      BY <1>1 DEF IInv, DeletingInv, NewestInv
<1>4. QED BY <1>2, <1>3 DEF IInv

LEMMA StepKeeps == ASSUME IInv, [Next]_vars PROVE IInv'
<1>1. ASSUME NEW p \in Prayers, Edit(p) \/ Remove(p)
      PROVE  IInv'
      BY <1>1, EditKeeps, RemoveKeeps
<1>2. ASSUME NEW w \in Workers, Process(w)
      PROVE  IInv'
      BY <1>2, GetKeeps, TranslateKeeps, PostKeeps, DeleteKeeps DEF Process
<1>3. ASSUME NEW w \in Workers, Stop(w) \/ Leave(w) \/ Cancel(w) \/ Start(w)
      PROVE  IInv'
      BY <1>3, PhaseKeeps, CancelKeeps
<1>4. ASSUME NEW w \in Workers,
             \/ \E m \in Visible : \E S \in SUBSET (Visible \ {m}) : Receive(w, m, S)
             \/ \E m \in batch[w] : Continue(w, m)
      PROVE  IInv'
      BY <1>4, ReceiveKeeps, ContinueKeeps
<1>5. QED BY <1>1, <1>2, <1>3, <1>4, VisibilityEndsKeeps, StutterKeeps DEF Next

\* The invariant that does induct: IInv, of which the others are parts.
THEOREM InvariantHolds == Spec => []IInv
BY InitHolds, StepKeeps, PTL DEF Spec

\* The state of the prayer translation is well-typed: a translation is of a text
\* the prayer has had, and a worker that is down has nothing in hand
\* (run_prayer_translation_sqs_consumer).
THEOREM TypeCorrect == Spec => []TypeOK
<1>1. IInv => TypeOK
      BY DEF IInv
<1>2. QED BY <1>1, InvariantHolds, PTL

\* A prayer without translations of its present text has a message
\* (_process_message), whatever the fleet, the edits and the failures.
THEOREM NoPrayerIsForgotten == Spec => []NoPrayerForgotten
<1>1. IInv => NoPrayerForgotten
  <2>1. ASSUME IInv, NEW p \in Prayers, ~Settled(p)
        PROVE  \E m \in Messages(p) : queue[m] \in {"visible", "inflight"}
    <3>1. body[p] > 0 /\ queue[<<p, body[p]>>] \in {"visible", "inflight"}
          BY <2>1 DEF IInv, NewestInv
    <3>2. body[p] \in 1..MaxEdits[p]
          BY <2>1, <3>1, ConstantsAssumption DEF IInv, TypeOK
    <3>3. QED BY <3>1, <3>2 DEF Messages
  <2>2. QED BY <2>1 DEF NoPrayerForgotten, Settled
<1>2. QED BY <1>1, InvariantHolds, PTL
=============================================================================
