------------------------------- MODULE Scoring -------------------------------
(***************************************************************************)
(* Which spaces and plans a user is suggested, and why (scoring.py): every   *)
(* signal adds to an item's score, the strongest one becomes the reason     *)
(* shown, and the best of each type are kept.  These are functions of the    *)
(* rows; RecRefresh says when they are computed.                             *)
(*                                                                          *)
(* Amounts are integers: of log1p only that it is zero at zero and grows     *)
(* matters here, so a count stands for its logarithm.                        *)
(***************************************************************************)
EXTENDS Integers, FiniteSets

CONSTANTS
    People,                     \* users with rows
    Spaces, Plans, Traditions,  \* what one can be a member of
    Live,                       \* the spaces and plans in rec_items
    Group,                      \* [Plans -> Spaces]: rec_items.group_id
    TraditionOf,                \* [Spaces \cup Plans -> Traditions]
    TagsOf,                     \* [Plans -> sets of tags]
    Freshness,                  \* [Spaces \cup Plans -> Nat], 0 when not new
    Weight,                     \* [Reasons -> Nat]: RECOMMENDATION_WEIGHT_*
    FreeImpressions,            \* RECOMMENDATION_IGNORED_IMPRESSIONS_FREE
    MaxPerType,                 \* RECOMMENDATION_MAX_PER_TYPE
    Position                    \* [Items -> Nat]: the order of scores.total

VARIABLE query  \* the rows and the user they are scored for, or NoQuery

NoQuery == <<>>

Items == Spaces \cup Plans

Reasons == {"CO", "FROM_JOINED_SPACE", "TRADITION_MATCH", "TAG_AFFINITY",
            "TRENDING", "POPULAR", "NEW", "IGNORED"}

ASSUME ScoringAssumption ==
    /\ IsFiniteSet(People) /\ IsFiniteSet(Spaces) /\ IsFiniteSet(Plans)
    /\ Spaces \cap Plans = {}
    /\ \A p \in Plans : IsFiniteSet(TagsOf[p])
    /\ Freshness \in [Items -> Nat]
    /\ Weight \in [Reasons -> Int]
    /\ FreeImpressions \in Int
    /\ MaxPerType \in Nat \ {0}
    /\ Position \in [Items -> Nat]
    /\ \A i, j \in Items : Position[i] = Position[j] => i = j

\* The rows of all users: who is a member of what, and who recently; what each
\* dismissed; and how often each saw an item without clicking it.
Rows == [member : SUBSET (People \X (Items \cup Traditions)),
         recent : SUBSET (People \X Items),
         dismissed : SUBSET (People \X Items),
         ignored : [People -> [Items -> Int]]]

-----------------------------------------------------------------------------
(* The signals                                                              *)

Own(r, u) == {i \in Items \cup Traditions : <<u, i>> \in r.member}

Members(pairs, i) == {v \in People : <<v, i>> \in pairs}

\* Mutant: one per shared item, without DISTINCT.
CoCountsRows(r, u, T, i) ==
    Cardinality({pair \in Members(r.member, i) \X (Own(r, u) \cap T) :
                    pair[1] # u /\ pair \in r.member})

\* _co_counts: how many others who share one of u's items of type T have i.
CoCounts(r, u, T, i) ==
    Cardinality({v \in Members(r.member, i) \ {u} :
                    \E j \in Own(r, u) \cap T : <<v, j>> \in r.member})

OwnTags(r, u) == UNION {TagsOf[p] : p \in Own(r, u) \cap Plans \cap Live}

Evidence(reason, count) == [reason |-> reason, count |-> count,
                            amount |-> Weight[reason] * count]

\* What speaks for i, in the order score_user adds it, and the penalty for
\* being ignored, which never is a reason.  The first two do not look at the
\* catalog's other columns; the rest is only for items it has.
SignalsFor(r, u, i) ==
    LET T == IF i \in Spaces THEN Spaces ELSE Plans
        Count(condition) == IF condition THEN 1 ELSE 0
        Listed(count)    == IF i \in Live THEN count ELSE 0
        extra == r.ignored[u][i] - FreeImpressions
    IN  <<Evidence("CO", IF i \in Own(r, u) THEN 0 ELSE CoCounts(r, u, T, i)),
          Evidence("FROM_JOINED_SPACE",
                   Count(i \in Plans \cap Live /\ Group[i] \in Own(r, u))),
          Evidence("TRADITION_MATCH",
                   Count(i \in Live /\ TraditionOf[i] \in Own(r, u))),
          Evidence("TAG_AFFINITY", IF i \in Plans
                   THEN Listed(Cardinality(TagsOf[i] \cap OwnTags(r, u))) ELSE 0),
          Evidence("TRENDING", Listed(Cardinality(Members(r.recent, i)))),
          Evidence("POPULAR", Listed(Cardinality(Members(r.member, i)))),
          Evidence("NEW", Listed(Freshness[i])),
          Evidence("IGNORED", Listed(IF extra > 0 THEN -extra ELSE 0))>>

-----------------------------------------------------------------------------
(* The running score: _Scores                                               *)

None   == [reason |-> "none", count |-> 0, amount |-> 0]
Start0 == [total |-> 0, best |-> None]

\* Mutant: the last positive signal is the reason.
AddLast(s, x) ==
    [total |-> s.total + x.amount, best |-> IF x.amount > 0 THEN x ELSE s.best]

\* add: sum the amount, and remember the first of the largest positive ones.  An
\* amount of zero changes nothing.
Add(s, x) ==
    [total |-> s.total + x.amount,
     best |-> IF x.amount > 0 /\ x.amount > s.best.amount THEN x ELSE s.best]

Score(r, u, i) ==
    LET x     == SignalsFor(r, u, i)
        first == Add(Add(Add(Add(Start0, x[1]), x[2]), x[3]), x[4])
    IN  Add(Add(Add(Add(first, x[5]), x[6]), x[7]), x[8])

-----------------------------------------------------------------------------
(* The ranking: score_user                                                  *)

Excluded(r, u) == Own(r, u) \cup {i \in Items : <<u, i>> \in r.dismissed}

\* What may be suggested: a live item some positive signal vouches for.
Eligible(r, u, i) ==
    /\ i \notin Excluded(r, u)
    /\ i \in Live
    /\ Score(r, u, i).best # None
    /\ Score(r, u, i).total > 0

\* By score, highest first; a stable sort of scores.total, whose order excluding
\* an item does not change.
Before(r, u, i, j) ==
    \/ Score(r, u, i).total > Score(r, u, j).total
    \/ Score(r, u, i).total = Score(r, u, j).total /\ Position[i] < Position[j]

\* Mutant: the limit is applied before the exclusions.
RankedOfFirst(r, u, T) ==
    {i \in T : /\ Eligible(r, u, i)
               /\ Cardinality({j \in T : Before(r, u, j, i)}) < MaxPerType}

Ahead(r, u, T, i) == {j \in T : Eligible(r, u, j) /\ Before(r, u, j, i)}

\* ranked[T]: skip what is not eligible, stop at the limit.
Ranked(r, u, T) ==
    {i \in T : Eligible(r, u, i) /\ Cardinality(Ahead(r, u, T, i)) < MaxPerType}

SuggestedItems(r, u) == Ranked(r, u, Spaces) \cup Ranked(r, u, Plans)

\* score_user: spaces, then plans, each with its place among its kind and its
\* reason.
Suggested(r, u) ==
    {[item |-> i,
      place |-> 1 + Cardinality(Ahead(r, u, IF i \in Spaces THEN Spaces ELSE Plans, i)),
      score |-> Score(r, u, i).total,
      reason |-> Score(r, u, i).best] : i \in SuggestedItems(r, u)}

-----------------------------------------------------------------------------
(* Properties                                                               *)

\* The reason shown with a suggestion is the signal that added the most to its
\* score (the module docstring of scoring.py), and where it says how many people
\* are meant, they are that many different other people (_co_counts).
ReasonsHold ==
    query # NoQuery => \A s \in Suggested(query.rows, query.user) :
        LET r   == query.rows
            u   == query.user
            all == {SignalsFor(r, u, s.item)[n] : n \in 1..8}
        IN  /\ s.reason \in all /\ s.reason.amount > 0
            /\ \A x \in all : x.amount <= s.reason.amount
            /\ s.reason.reason = "CO" =>
                  s.reason.count <= Cardinality(Members(r.member, s.item) \ {u})

\* What a user owns, has dismissed or cannot open any more takes no place of
\* the limited list: dismissing an item makes room for the next and moves none
\* of the others out.
DismissingMakesRoom ==
    query # NoQuery => \A i \in SuggestedItems(query.rows, query.user) :
        LET r       == query.rows
            u       == query.user
            without == SuggestedItems([r EXCEPT !.dismissed = @ \cup {<<u, i>>}], u)
            others  == SuggestedItems(r, u) \ {i}
            T       == IF i \in Spaces THEN Spaces ELSE Plans
        IN  /\ i \notin without
            /\ others \subseteq without
            /\ Cardinality(without) < Cardinality(SuggestedItems(r, u)) =>
                  \A j \in T \ (without \cup {i}) : ~Eligible(r, u, j)
=============================================================================
