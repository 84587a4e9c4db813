-------------------------- MODULE DeliveryContract --------------------------
(***************************************************************************)
(* What every notification consumer of the worker promises, whatever its   *)
(* queue, event type or idempotency key: a message leaves its queue only   *)
(* when every device it was meant for is settled (told, or out of reach    *)
(* for good) or when it is withdrawn because there is nothing to tell; a   *)
(* settled device stays settled, and a message that left stays away.       *)
(* Nothing is promised about how often a device is told: SQS, Redis and    *)
(* FCM together deliver at least once.                                     *)
(***************************************************************************)

CONSTANTS Messages,   \* the messages the backend publishes
          Recipients, \* the devices a push can be addressed to
          Audience    \* [Messages -> SUBSET Recipients]: whom a message is for

VARIABLES open,       \* the messages still on the queue
          settled,    \* the <<message, device>> pairs that need no more work
          withdrawn   \* the messages dropped without being delivered

contractVars == <<open, settled, withdrawn>>

Init ==
    /\ open = Messages
    /\ settled \in SUBSET (Messages \X Recipients)
    /\ withdrawn = {}

\* Work on one device.  It may settle several pairs at once, because copies of
\* one notification share an idempotency key.
Settle ==
    /\ settled' \in SUBSET (Messages \X Recipients)
    /\ settled \subseteq settled'
    /\ UNCHANGED <<open, withdrawn>>

\* The consumer has nothing left to do for the message and deletes it.
Close(m) ==
    /\ m \in open
    /\ \A d \in Audience[m] : <<m, d>> \in settled
    /\ open' = open \ {m}
    /\ UNCHANGED <<settled, withdrawn>>

\* The message says nothing deliverable and is deleted unread.
Withdraw(m) ==
    /\ m \in open
    /\ open' = open \ {m}
    /\ withdrawn' = withdrawn \cup {m}
    /\ UNCHANGED settled

Next ==
    \/ Settle
    \/ \E m \in Messages : Close(m) \/ Withdraw(m)

Spec == Init /\ [][Next]_contractVars
=============================================================================
