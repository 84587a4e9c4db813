---------------------------- MODULE MCRecRefresh ----------------------------
(* Two workers, two users in batches of one.  For Scoring: me and one other,  *)
(* three spaces and two plans of which one has left the catalog, and every    *)
(* membership of mine and theirs.                                             *)
EXTENDS RecRefresh, Scoring, TLC

CONSTANTS w1, w2, u1, u2, me, other, s1, s2, s3, p1, p2, t

MCWorkers == {w1, w2}
MCUsers   == {u1, u2}

MCPeople     == {me, other}
MCSpaces     == {s1, s2, s3}
MCPlans      == {p1, p2}
MCTraditions == {t}
MCLive       == {s1, s2, s3, p1}
MCGroup      == (p1 :> s1) @@ (p2 :> s2)
MCTraditionOf ==
    (s1 :> t) @@ (s2 :> None) @@ (s3 :> None) @@ (p1 :> t) @@ (p2 :> None)
MCTagsOf     == (p1 :> {"tag"}) @@ (p2 :> {"tag"})
MCFreshness  == (s1 :> 0) @@ (s2 :> 1) @@ (s3 :> 0) @@ (p1 :> 0) @@ (p2 :> 1)
MCPosition   == (s1 :> 1) @@ (p1 :> 2) @@ (s2 :> 3) @@ (p2 :> 4) @@ (s3 :> 5)
MCWeight ==
    ("CO" :> 5) @@ ("FROM_JOINED_SPACE" :> 4) @@ ("TRADITION_MATCH" :> 3)
        @@ ("TAG_AFFINITY" :> 2) @@ ("TRENDING" :> 2) @@ ("POPULAR" :> 1)
        @@ ("NEW" :> 3) @@ ("IGNORED" :> 3)

Joined(u, S) == {u} \X S

\* Another's memberships are the recent ones; I may have dismissed s1, and been
\* shown s2 without clicking it.
Queries ==
    {[rows |-> [member |-> Joined(me, mine) \cup Joined(other, theirs),
        recent |-> Joined(other, theirs),
        dismissed |-> Joined(me, gone),
        ignored |-> [v \in MCPeople |-> [i \in MCSpaces \cup MCPlans |->
                        IF v = me /\ i = s2 THEN seen ELSE 0]]],
      user |-> me] :
     mine \in SUBSET {s1, s2, s3, p2, t}, theirs \in SUBSET {s1, s2, s3, p1},
     gone \in {{}, {s1}}, seen \in {0, 2, 4}}

\* The theorems on Scoring speak of such rows and users.
ASSUME QueriesAreOfRows == \A q \in Queries : q.rows \in Rows /\ q.user \in People

\* A behaviour is one of RecRefresh, or a query.
MCInit == Init /\ query \in Queries \cup {NoQuery}
MCNext ==
    \/ query = NoQuery /\ Next /\ UNCHANGED query
    \/ query # NoQuery /\ UNCHANGED <<vars, query>>
MCSpec == MCInit /\ [][MCNext]_<<vars, query>> /\ Fairness
=============================================================================
