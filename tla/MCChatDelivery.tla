--------------------------- MODULE MCChatDelivery ---------------------------
(***************************************************************************)
(* Small instances of ChatDelivery.  In the first, a prayer request is on   *)
(* the chat and on the prayer queue of one worker, or a join request is     *)
(* made and then decided.  In the second, a worker has a slow message,      *)
(* another behind it, and one whose id is no UUID, or group posts with one  *)
(* such id, or a join request and its decision.                             *)
(***************************************************************************)
EXTENDS ChatDelivery, TLC

CONSTANTS m1, m2, m3, m4, m5, d1, d2, d3

Readable   == [m \in Msgs |-> "readable"]
OneAtATime == [c \in Channels |-> 1]
Decisions  == "asked" :> "decided"

\* m1 and m2 are copies of one request; m3 and m4 a join request and its
\* decision, for the moderators and for the requester.
CopiesTraffics == {{m1, m2}, {m3, m4}}
CopiesChannel  == m1 :> "chat" @@ m2 :> "prayer" @@ m3 :> "join" @@ m4 :> "join"
CopiesNotice   == m1 :> "prayer" @@ m2 :> "prayer"
                      @@ m3 :> "asked" @@ m4 :> "decided"
CopiesTargets  == "prayer" :> {d1, d2} @@ "asked" :> {d1, d2} @@ "decided" :> {d3}

\* The fan-out of m1 need not end; m2 and m3 come after it.
SlowTraffics == {{m1, m2, m3}, {m4, m5}}
SlowSlots    == [c \in Channels |-> IF c = "chat" THEN 3 ELSE 1]
SlowChannel  == [m \in Msgs |-> IF m \in {m4, m5} THEN "post" ELSE "chat"]
SlowForm     == [m \in Msgs |-> IF m \in {m3, m5} THEN "bad_id" ELSE "readable"]
SlowNotice   == m1 :> "prayer" @@ m2 :> "hello" @@ m3 :> "bad"
                    @@ m4 :> "post" @@ m5 :> "bad"
SlowTargets  == [n \in Notices |-> {d1}]
NoVerdict    == [n \in {} |-> n]

Symmetry == Permutations(Gathers) \cup Permutations({d1, d2})
=============================================================================
