------------------------------ MODULE MCAudioDays ------------------------------
(* The first instance of MCAudioJob.  For AudioTimeline: days of up to three  *)
(* subtasks at six bytes to a millisecond, with recordings that end within    *)
(* one, and one of a length the float quotient falls short of.                *)
EXTENDS MCAudioJob, AudioTimeline, SequencesExt

Recordings == {<<>>, <<5>>, <<13>>, <<6, 7>>}
Days == BoundedSeq([id : {1, 2}, text : BOOLEAN, stored : {<<>>, <<11>>},
                    speech : Recordings], 3)

\* A behaviour is one of AudioJob, or a day to be timed.
MCInit ==
    /\ Init
    /\ plan_day \in Days
    /\ plan_day # <<>> => \A j \in Jobs : job[j] = "pending"
MCNext == plan_day = <<>> /\ Next /\ UNCHANGED plan_day
MCSpec == MCInit /\ [][MCNext]_<<vars, plan_day>>
=============================================================================
