------------------------- MODULE MCPrayerTranslation -------------------------
(* Two workers and a prayer that may be edited once: alone, or in company of *)
(* one whose results are refused, or of a message that cannot be read.       *)
EXTENDS PrayerTranslation

CONSTANTS w1, w2, p1, p2, g

MCWorkers  == {w1, w2}
MCPrayers  == {p1, p2}
MCGarbage  == {g}
MCRejected == {p2}
MCTraffics == {{p1}, {p1, p2}, {p1, g}}
MCEdits    == [p \in MCPrayers |-> IF p = p1 THEN 2 ELSE 1]

\* Two misfortunes, a stop and a redelivery for one, meet the prayer that comes
\* alone; in company there is one.
Alone  == queue[g] = "unsent" /\ p2 \in gone /\ body[p2] = 0
MCNext == Next /\ (faults' > 1 => Alone)
MCSpec == Init /\ [][MCNext]_vars /\ Fairness
=============================================================================
