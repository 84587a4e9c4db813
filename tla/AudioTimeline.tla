---------------------------- MODULE AudioTimeline ----------------------------
(***************************************************************************)
(* The audio of a plan day and the timeline that goes with it               *)
(* (audio_generate_service.py): the parts that are read aloud are joined to  *)
(* one recording, and each is told where it starts and ends in it, in whole  *)
(* milliseconds.  Of a recording only its length in bytes is kept.           *)
(***************************************************************************)
EXTENDS Naturals, Sequences

CONSTANTS
    SamplesPerMs,   \* SAMPLE_RATE \div 1000
    BytesPerSample, \* BYTES_PER_SAMPLE
    Inexact         \* whole milliseconds that the float quotient falls short of

ASSUME TimelineAssumption ==
    /\ SamplesPerMs \in Nat \ {0}
    /\ BytesPerSample \in Nat \ {0}
    /\ Inexact \subseteq Nat \ {0}

VARIABLE plan_day   \* the day's subtasks, a sequence

\* A subtask: whether its content is text, what its audio_url holds, <<>> without
\* one, and what speech makes of its content: a recording for every chunk, and
\* none for empty content.
Subtasks == [id : Nat, text : BOOLEAN, stored : Seq(Nat), speech : Seq(Nat)]

\* Bytes joined: after each of the pieces, and in all.
Totals(lengths) ==
    LET total[n \in 0..Len(lengths)] ==
            IF n = 0 THEN 0 ELSE total[n - 1] + lengths[n]
    IN  total
Sum(lengths) == Totals(lengths)[Len(lengths)]

\* generate_monlam_tts_audio: the chunks' recordings without their headers, one
\* after the other, without the silence between them.
Recording(subtask) ==
    Sum(IF subtask.stored # <<>> THEN subtask.stored ELSE subtask.speech)

\* _generate_audio_segments: what is not text is left out.
Spoken(day) ==
    LET kept[n \in 0..Len(day)] ==
            IF n = 0 THEN <<>>
            ELSE IF day[n].text THEN Append(kept[n - 1], day[n]) ELSE kept[n - 1]
    IN  kept[Len(day)]

Segments(day) == [n \in DOMAIN Spoken(day) |-> Recording(Spoken(day)[n])]

\* Empty content raises, and nothing is made of the day.
Speakable(day) ==
    \A n \in DOMAIN Spoken(day) :
        Spoken(day)[n].stored # <<>> \/ Spoken(day)[n].speech # <<>>

\* Mutant: bytes are taken for samples.
DurationOfBytes(bytes) == bytes \div SamplesPerMs

\* int((samples / rate) * 1000): rounded down, and for some whole milliseconds
\* one too far (24024 samples at 24 kHz, 1001 ms, come out as 1000).
Duration(bytes) ==
    LET samples == bytes \div BytesPerSample
        ms      == samples \div SamplesPerMs
    IN  IF samples = ms * SamplesPerMs /\ ms \in Inexact THEN ms - 1 ELSE ms

\* _build_subtask_timestamps: one more segment, from where the last one ended.
Extend(timed, subtask) ==
    LET to == timed.offset + Duration(Recording(subtask))
    IN  [offset |-> to,
         marks |-> Append(timed.marks,
                          [id |-> subtask.id, from |-> timed.offset, to |-> to])]

Timed(day) ==
    LET timed[n \in 0..Len(Spoken(day))] ==
            IF n = 0 THEN [offset |-> 0, marks |-> <<>>]
            ELSE Extend(timed[n - 1], Spoken(day)[n])
    IN  timed[Len(Spoken(day))]

Timeline(day) == Timed(day).marks

\* What is reported as the length of the day's audio, and its bytes.
DayDuration(day) == Timed(day).offset
DayBytes(day)    == Sum(Segments(day))

\* The timeline keeps to the recording: it has the spoken subtasks in their
\* order and without gaps, and where a subtask ends in it is never later than in
\* the recording, and earlier by at most a millisecond and a sample for every
\* subtask so far: rounding adds up, but no further.
TimelineKeepsToAudio ==
    Speakable(plan_day) =>
        LET spoken      == Spoken(plan_day)
            marks       == Timeline(plan_day)
            BytesBefore == Totals(Segments(plan_day))
            BytesPerMs  == SamplesPerMs * BytesPerSample
        IN  /\ Len(marks) = Len(spoken)
            /\ \A n \in DOMAIN marks :
                  /\ marks[n].id = spoken[n].id
                  /\ marks[n].from = IF n = 1 THEN 0 ELSE marks[n - 1].to
                  /\ marks[n].to * BytesPerMs <= BytesBefore[n]
                  /\ BytesBefore[n] <= marks[n].to * BytesPerMs
                                         + n * (BytesPerMs + BytesPerSample - 1)
            /\ DayDuration(plan_day) * BytesPerMs <= DayBytes(plan_day)
=============================================================================
