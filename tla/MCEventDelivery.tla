-------------------------- MODULE MCEventDelivery --------------------------
(***************************************************************************)
(* Small instances of EventDelivery: the reminders of two consecutive days *)
(* of one event, sent by a fleet of two workers; and a single worker that  *)
(* is replaced in mid-flight by the release that knows fire_at.            *)
(***************************************************************************)
EXTENDS EventDelivery, TLC

CONSTANTS m1, m2, m3, d1, d2

Reminder(day) == [type |-> "EVENT_REMINDER", event |-> "retreat",
                  reminder |-> "T_ZERO", fireAt |-> day]
Announcement == [type |-> "EVENT_ANNOUNCEMENT", event |-> "retreat",
                 announcement |-> "note"]
Created == [type |-> "EVENT_CREATED", event |-> "retreat"]

\* Two days of one event share event_id and reminder_type; only the first
\* device is in both audiences.
DaysBody     == (m1 :> Reminder("day1")) @@ (m2 :> Reminder("day2"))
DaysOccasion == (m1 :> "day1") @@ (m2 :> "day2")
DaysTargets  == (m1 :> {d1, d2}) @@ (m2 :> {d1})
DaysShape    == [m \in Msgs |-> "readable"]

\* One day-one reminder, an unreadable message and one whose event_id is no
\* UUID, which no worker ever gets rid of.
DeployBody     == (m1 :> Reminder("day1")) @@ (m2 :> Created) @@ (m3 :> Created)
DeployOccasion == (m1 :> "day1") @@ (m2 :> "created") @@ (m3 :> "created")
DeployTargets  == (m1 :> {d1, d2}) @@ (m2 :> {}) @@ (m3 :> {d1})
DeployShape    == (m1 :> "readable") @@ (m2 :> "unreadable")
                  @@ (m3 :> "bad_event_id")

Symmetry == Permutations(Workers) \cup Permutations(Gathers)
=============================================================================
