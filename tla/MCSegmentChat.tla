---------------------------- MODULE MCSegmentChat ----------------------------
(* Two questions of one client, about one segment.  For SegmentSources: the   *)
(* selected text, the root it translates, a translation, a commentary and a   *)
(* text that cannot be read, and every listing of up to two segments a page.  *)
EXTENDS SegmentChat, SegmentSources, TLC

CONSTANTS r1, r2, c1, own, root, other, comment, broken

MCRequests == {r1, r2}
MCClients  == {c1}
MCClientOf == [r \in MCRequests |-> c1]

Text(translates, comments) ==
    [translation_of |-> translates, commentary_of |-> comments, read |-> TRUE]

MCSelected == [id |-> "selected", text |-> own]
MCTextOf   == (own :> Text(root, Nobody)) @@ (root :> Text(Nobody, Nobody))
                @@ (other :> Text(root, Nobody))
                @@ (comment :> Text(Nobody, root)) @@ (broken :> Unread)

Segments ==
    {[id |-> "own", text |-> own], [id |-> "root", text |-> root],
     [id |-> "other", text |-> other], [id |-> "blank", text |-> other],
     [id |-> "comment", text |-> comment], [id |-> "broken", text |-> broken]}

MCContentOf == [own |-> <<"x">>, root |-> <<"x", " ", "x", "x">>,
                other |-> <<"x", "x", "x">>, blank |-> <<>>,
                comment |-> <<"x", " ", " ", "x">>, broken |-> <<"x">>]

Page(items, more) == [items |-> items, has_more |-> more]
OnePage           == BoundedSeq(Segments, 2)

Listings ==
    {<<Page(first, TRUE), Page(second, more), Page(<<>>, FALSE)>> :
        first \in OnePage, second \in OnePage, more \in BOOLEAN}
    \cup {<<Page(<<s>> \o first, FALSE)>> : s \in Segments, first \in OnePage}

\* A behaviour is one of SegmentChat, or a listing.
MCInit == Init /\ listing \in Listings \cup {<<>>}
MCNext ==
    \/ listing = <<>> /\ Next /\ UNCHANGED listing
    \/ listing # <<>> /\ UNCHANGED <<vars, listing>>
MCSpec == MCInit /\ [][MCNext]_<<vars, listing>> /\ Fairness
=============================================================================
