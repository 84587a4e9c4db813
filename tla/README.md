# webuddhist-worker: TLA+ specifications

The worker is one FastAPI process, run in several copies. Its lifespan
(`db/lifespan.py`) starts nine asyncio tasks: consumers that poll SQS queues
and a loop that refreshes recommendations. Around them it serves a few HTTP
endpoints: internal triggers for dispatches, reminders, and a chat stream. The
source of truth is a backend behind HTTP. The worker adds Redis (idempotency
markers, a lock, a rate limit), a database (reminders, devices, recommendation
signals), Firebase for pushes, and speech and language models.

What is hard in it is not any single function but what happens between the
awaits: SQS delivers at least once, the visibility timeout may run out under a
worker, a process dies at any await (the lifespan cancels its tasks five seconds
after a stop), Redis, FCM and the backend fail or do what was asked and lose the
answer, and two copies of the worker do the same at the same time.

## Inventory

| part | state it keeps | operations | talks to | what makes it correct |
|---|---|---|---|---|
| event notification consumer | Redis markers `event:notif:sent:...`, in-flight gathers | poll, process message, fetch targets, send to device, mark, deactivate, delete | SQS, backend, FCM, Redis | no recipient lost with a message; nobody skipped for a push meant for another day; repeats only where a lost marker or answer explains them |
| chat, prayer and verse-comment consumers | the same markers under one prefix for chat and prayer | the same, one task per message behind a semaphore (chat) | SQS, backend, FCM, Redis | as above; a chat message on both queues |
| join-request and group-post consumers | markers of their own | as above, devices in the message or fetched | SQS, backend, FCM, Redis | as above |
| audio job consumer | job row and audio at the backend | poll, look up, claim, generate, apply, verdict, delete | SQS, backend, speech services, S3 | one generation per job; complete only with audio; a claimed job is not forgotten |
| audio generation | WAV segments, timestamps | synthesize, combine, upload, apply | Monlam or Gemini TTS, S3, backend | the timestamps stay with the recording however many subtasks are rounded |
| prayer translation consumer | none; the translation is the backend's | poll, read, translate, post, delete | SQS, Gemini, backend | a prayer without translations of its present text keeps a message; what an error abandons comes back |
| recommendation signals | memberships, changes, exposures, dismissals, processed ids | apply a batch of events; replace by a snapshot | database, SQS, backend | counts exact; memberships converge; nothing older undoes something newer |
| recommendation refresh and recompute | Redis lock, suggestions at the backend | refresh loop, rescore, push | Redis, backend | a lock stays with its holder; a fresh install retries soon; suggestions end up scored from the rows as they are |
| recommendation scoring | none | score a user, rank | database | the reason shown is the strongest signal; dismissed items take no place of the limit |
| reminders and scheduled dispatch | scheduled notifications, enrolments | enroll, update, cancel, dispatch due | database, FCM | an enrolment keeps a reminder to come; each rings once; a second one, or one after a cancellation, takes a race; a due one rings |
| routine and verse-of-day dispatch | nothing of its own | fan a day's push out | backend, FCM | each device once per call |
| segment chat | Redis counters, cached contexts | rate limit, gather context, stream | Redis, library service, model | the limit is released; a stale context does not last; sources fit the budget, the root first |
| lifespan | the tasks and their stop event | start, stop, cancel | all of them | every consumer can be stopped anywhere |

`PROJECT.json` lists every part with its source files, also those left out, and
under `hazards` the places where this code is hard to test.

## Modules

### DeliveryContract

What a notification consumer promises whatever its queue and key: a message
leaves the queue when every device it was for is settled, or withdrawn because
it says nothing deliverable; what is settled stays so. It promises nothing about
repeats: SQS, Redis and FCM together deliver at least once.

### EventDelivery

`event_notification_consumer.py` with its SQS client, target fetch and FCM calls.
Workers receive batches; a message is discarded, left, found without targets or
fanned out in a gather; each device has a coroutine that waits for the
semaphore, checks the marker, sends, and marks; the gather's end deletes the
message or leaves it.

| variable | code |
|---|---|
| `queue`, `batch` | the SQS queue; `messages` of the loop in `run_event_notification_sqs_consumer` |
| `gather`, `task` | the `asyncio.gather` of a message; one `_send_to_device` coroutine per device |
| `markers` | the keys set by `_mark_sent`, as a pair of key and device |
| `inactive` | devices that `deactivate_push_device` switched off |
| `release` | which deployment a worker runs: before or after `fire_at` joined the key |
| `pushes`, `refused`, `dropped` | history: what FCM accepted or refused, messages that left undelivered |
| `faults`, `slips` | the misfortunes of the behaviour; those of them that explain a repeat |

An action goes from one await to the next. The check of the marker and the start
of the send are one step since nothing awaits between them. A Redis error in the
check escapes the coroutine (`CheckFails`): `gather` has no `return_exceptions`,
so the message is given up while its other coroutines run on; `abandoned` is
that state. `MarkSent` swallows Redis errors, as the code does. "done" stands
for sent, skipped and permanent_failed, which the code treats alike.

Left out: the polling switch; a failing receive (no state changes); the
notification's text; the pages of the target list (one step); a device listed
twice in one answer; reactivation of a device.

### ChatDelivery

`chat_notification_consumer.py`, `prayer_notification_consumer.py`,
`join_request_notification_consumer.py`, `group_post_notification_consumer.py`
and the two services the first two share, `prayer_notification_service.py` and
`verse_of_day_comment_notification_service.py`. The state is that of
EventDelivery, with a queue, a batch and slots for each consumer, and a marker
that is a pair of notice and device: a chat message, a prayer, a comment window,
a join request, a decision, a group post. A prayer request may be on two queues,
and both copies ask for the same markers.

Chat and prayer messages are tasks. One gives its slot back when its handler
returns or an exception ends it, so an abandoned gather holds no slot while its
coroutines still send (`InSlots` counts open gathers only). The other two loops
await each message (`Waiting`, one slot), and an id that is no UUID raises before
the dispatch switch is read and abandons the batch. A join request's notice is
the one the backend answers with, so a message about a request that was decided
meanwhile (`Decide`) delivers the decision. Before the gather a handler is one
step, since its one await, the target fetch, is the only thing it waits for
and nothing it read before is used after. A failing marker write is a transient
failure after an accepted push and escapes after a refused one (`MarkFails`);
the event consumer swallows both.

Left out: what EventDelivery leaves out; `message_id` missing behind a body that
has one (`parse_..._message_body` rejects it first).

### AudioJob

`audio_job_consumer.py`: `step` is the await a worker is at, `holds` the message
it works on, `job` and `audio` what the backend has. Each HTTP call succeeds,
fails before it took effect, or takes effect and loses its answer. The backend
is not in this repository. The model takes from the worker's code and tests that
a claim of a pending job succeeds, one of a job in process gets a 409, and one
of a finished job gets its status; for a verdict on a finished job it allows
both that the first stands and that the last one does. Not modelled: a call
that takes effect after its client timed out.

### AudioTimeline

`_generate_audio_segments` and `_build_subtask_timestamps` of
`audio_generate_service.py`, with the joining of chunks in
`monlam_tts_service.py`, as operators on recordings of which only the length in
bytes is kept. The duration of a recording is a float quotient times 1000, cut
to an integer: `Inexact` holds the whole numbers it falls short of (at 24 kHz the
first is 1001 ms). Left out: the header, other sample rates than the one
`_build_combined_wav` writes, and what the chunker does to the text.

### RecSignals

`signal_service.py`, `sync_service.py` and the batch of `consumer.py`. A worker
receives a batch of messages, begins a transaction (with the advisory lock if a
membership event is among them), and commits or rolls back; a refresher takes
the time, fetches page by page while the backend changes, and applies the
snapshot under the same lock.

| variable | code |
|---|---|
| `truth`, `clock`, `log` | the backend's memberships, its clock and what it sent |
| `local`, `change` | `rec_memberships`; `changed_at` of `rec_membership_changes` |
| `exposure`, `dismissed`, `processed` | `rec_exposures`, `rec_dismissals`, `rec_processed_events` |
| `work` | a worker's batch and, in an open transaction, the rows it saw |
| `sync` | a refresh's `snapshot_at` and the pages it has |

A transaction sees rows when it begins and its inserts meet a unique key when it
commits (`Conflict`); under READ COMMITTED a statement may see rows committed
later, which is what the same transaction would have done had it begun later.
Messages that cannot be read are deleted before the transaction begins (`Discard`),
whatever becomes of the rest of the batch.
Left out: the second and third item type (they share nothing but the lock),
messages with several events or none, `joined_at`, clicks (they are counted like
impressions), the purge of processed ids after 15 days, the catalog and the
rescore.

### RecRefresh

The second half of `consumer.py` and `recompute_service.py`: the rescore after a
stored batch, the refresh loop, the lock between the refresh loops, and the pushes.
A user's rows are a version number here (RecSignals has what is in them), and the
suggestions at the backend are the version they were scored from.

| variable | code |
|---|---|
| `catalog` | whether `rec_items` has rows, which `catalog_is_empty` asks at start |
| `signals`, `member` | the rows of a user in the four tables of `_all_user_ids`; one in `rec_memberships` |
| `suggestions`, `late` | what the last PUT replaced at the backend; PUTs their client gave up on |
| `lock` | the Redis key; its token is the owner's, or one whose attempt is over (`Orphan`) |
| `refresh` | a refresh loop: its await, the users to do, `locked`, `wait_seconds`, `retry_seconds` |
| `rescore` | the same for the consumer's batch |
| `orphans` | history: the misfortunes that left a lock to its TTL |

`lapsed` is history too: this refresh outlasted its lock. Waits are counted in
`_REFRESH_RETRY_SECONDS`, and when a wait ends is left open, so a wait is a
number the loop chose, not time that passes. A batch of pushes ends in any
order. Left out: a user deleted at the backend (404 counts as pushed), the
number of pushes at once, an expired lock whose TTL a misconfiguration makes
shorter than a request.

### Scoring

`scoring.py` as operators on small tables: the signals of an item in the order
`score_user` adds them, the running score, the exclusions, the order and the
limit. Counts stand for their logarithms and weights are integers: of `log1p`
the properties need only that it grows. Equal scores keep the order of the
dictionary in the code, which dismissals do not change; here that is `Position`.
The list of a kind is the set of its items with their places: an item has a place
when it is eligible and fewer than the limit are ahead of it.

### ReminderDispatch

`dispatch_service.py`, `reminder_enroll_service.py` and the statements of
`reminder_repository.py`. A dispatch is one transaction: it locks the oldest due
rows (`SKIP LOCKED`), awaits their pushes one after the other, and commits all
of them with their successors. A request reads the pending rows of an enrolment
without a lock, then writes them and inserts a new one; the write waits for a
row that a dispatch holds. The endpoints are `async` and their database calls
are not, so a request that waits blocks its event loop, and with it the dispatch
of its own process (`LoopFree`).

| variable | code |
|---|---|
| `row`, `due` | committed rows of `upcoming_reminders`; the order of `trigger_at` among the due ones |
| `dispatch` | per process, the transaction of `dispatch_due_notifications_service` and how far it is with each row it holds |
| `request` | the request that has the event loop of a process and the rows it read |
| `markers` | keys set by `_mark_dispatched` |
| `pushes`, `enrolled`, `races` | history: pushes per row; enrolments not cancelled; requests whose rows had changed when they wrote them |

Rows are a few ids: a row that was sent or cancelled and that no request has
read stands for a new one. The commit chooses the successors' ids, which
`create_reminder` draws before; nobody else sees them in between.

Left out: the dispatch switch; platforms without credentials (sent without a
push); two dispatches in one process; a token that is dead for ever, whose row
stays pending at the head of every batch; the next time's computation, and with it
an error of `compute_next_trigger_at` between `mark_sent` and the successor
(`dispatch_service.py:49`), which would be swallowed and commit a sent row
without one: a row is stored only after the same computation succeeded for its
configuration, and then it succeeds at any time.

### SegmentChat

`is_rate_limited` and `get_segment_context` with what they ask of Redis and the
library. A request counts itself (INCR, then EXPIRE if it is the first), looks
into the cache, gathers segment, texts and contents in three steps, writes the
cache and streams.

| variable | code |
|---|---|
| `counter`, `ttl` | the rate limit keys and which of them have a TTL |
| `lost` | history: clients of whom an INCR that made a key, or its EXPIRE, was lost |
| `library` | the version of what the library says |
| `cache` | the context in Redis: the library's version when it was begun, and whether all of it could be read |
| `request` | each question's await and its context |

A text or a content that cannot be read after the client's retries is `None` and
its source is left out; the context is cached all the same. Counts above the
limit are one number. redis-py repeats a command whose connection broke: an INCR
that had taken effect counts twice, and the first request of a window then sees 2
and sets no TTL (`CountRepeats`). In `RecRefresh` a repeated SET NX finds its own
lock and takes it for another's (`Wake`). Left out: a limit of 0 (nothing is
counted), the retries within a library call, the answer and its events.

### SegmentSources

The same module's pure part: pages and duplicates (`_fetch_related_items`),
`classify`, the stable sort by kind, the two limits (`_build_sources`). Contents
are sequences of characters of which only blanks are told apart, for the strip.
`SourcesAssumption` takes the limits as the settings have them, not negative and at
least a character for each source, and contents without blanks at their ends, as
`clean_content` leaves them.

### PrayerTranslation

`prayer_translation_consumer.py` with its SQS, backend and Gemini clients. A
worker awaits one message at a time; an error of the backend escapes the handler
and abandons the batch, one of Gemini leaves the message. `phase` is what the
lifespan does with the consumer: the stop event, seen between two messages, the
cancellation five seconds later at any await, and the start.

| variable | code |
|---|---|
| `body`, `gone`, `translated` | the backend's prayer, as a number of its text; prayers without one; the text its translations are of |
| `queue`, `batch`, `handler` | the SQS queue; the rest of `messages`; the await of `process_prayer_translation_message` |
| `phase` | up, stopping or down |

The backend is not in this repository. That the worker posts `body_at_dispatch`
shows that a result for another text than the present one is not kept; the model
takes it, and allows both that such a result is refused and that it is ignored.
That each edit publishes a message is taken too. Left out: the switches, the
words of the translation.

## Runs

| run | instance | what it shows |
|---|---|---|
| `event_days` | 2 workers, 2 messages (two days of one event), 2 devices, 2 faults | safety and the contract: `SettledBeforeDelete`, `MarkersSpeakTrue`, `RepeatsNeedSlips`, `ImplementsContract` |
| `event_deploy` | a worker replaced by the new release, a reminder, an unreadable and a malformed message, 2 faults | the bridge of the keys keeps a retry from ringing again, and each usable message leaves |
| `chat_copies` | 1 worker, 2 devices, 2 faults; 2 queues of one slot and a prayer request on both, or a join request that is decided at any time | safety and the contract: `SettledBeforeDelete`, `RepeatsNeedSlips`, `ImplementsContract` |
| `chat_slow` | 1 worker, 1 fault; a queue of 3 slots, a message that need not end, one behind it, one malformed; or a group post beside a malformed message | `SlowHoldsNobodyBack` |
| `audio_batch` | 2 workers, 2 messages for one job, one incomplete, one unreadable, jobs known or lost, 2 faults; days of up to 3 subtasks | `GeneratedOnce`, `CompletedHasAudio`, `StrandsAccountedFor`; `TimelineKeepsToAudio` |
| `audio_ends` | 2 workers, batches of 2; a job known or lost, a message that breaks its batch, an unreadable one, 3 faults | `EveryJobEnds` |
| `rec_sync` | 2 workers, a refresher with a clock behind, 2 events, readable or not, 1 silent change, 3 moments, 1 fault | `CountsExact`, `StoredBeforeDelete`, `EveryEventStored`, `Converged`, `ChangesGoForward` |
| `rec_refresh` | 2 workers, 2 users in batches of 1, an interval of two retries, 2 changes, 1 fault; scoring over 2 people, 3 spaces, 2 plans and every membership of both | `HoldersHold`, `FreshInstallRetriesSoon`, `SuggestionsCatchUp`; `ReasonsHold`, `DismissingMakesRoom` |
| `reminder_races` | 2 workers that dispatch and serve, 1 enrolment, 3 row ids, batches of 2, 2 requests, 1 fault | `EnrolledHasReminder`, `RingsOnce`, `ExtrasNeedRaces`, `DueRingsUnlessHung` |
| `reminder_hang` | 1 worker, the same enrolment, no idempotency, no faults | expected violation, see below |
| `segment_chat` | 2 questions of one client, a limit of 2, 2 changes of the library, 3 faults; listings of up to 2 segments on 2 pages | `LockoutsAccountedFor`, `WaitingHelps`, `StaleContextsFade`; `SourcesWithinBudget`, `RootComesFirst` |
| `prayer_translation` | 2 workers, batches of 2; a prayer with 2 texts alone with 2 faults, or with 1 beside one always refused or an unreadable message | `NoPrayerForgotten`, `EveryMessageLeaves` |

Bounds: the interesting cases need two actors on one message or one row, and one
or two misfortunes (a redelivery and a crash; a lost answer and a retry), which
is what the instances have. Two days share one device so that a marker of one
day could be taken for the other. Two events are a count that two workers insert
at once and, after the conflict, one updates; two events and a
snapshot, three moments, are a join and a leave out of order around a resync that
overlaps them. Two questions of one client are an INCR and an EXPIRE with another INCR
between them, and a slow builder that caches over a faster one; three faults are
a lost EXPIRE beside two unreadable parts. Two texts are an edit between read and
post, with two consumers on one message; alone, the prayer meets a stop in an await
and a redelivery in one behaviour. Two workers and one fault are a lock that
expires under one refresh while the next takes it, or is orphaned while the other
waits. The properties of `Scoring`, `SegmentSources` and `AudioTimeline` are about
functions: TLC evaluates them once over the inputs of the MC module, which hold
ties, duplicates, blanks at a cut, exhausted budgets and unreadable texts.
Three rows are two pending ones, which a race leaves, and a successor.
`MaxFaults`, `MaxClock`, `MaxSilent`, `MaxMessages`, `MaxRequests`, `MaxSignals`,
`MaxChanges` and `MaxEdits` are the only bounds on counters.
`CHECK_DEADLOCK FALSE` is set where an instance ends when its messages are gone and
its budget is spent; `rec_refresh` and `segment_chat` go on for ever and check it.

Fairness: worker loops never return before the stop event, every awaited call
has a timeout (httpx, boto3) or ends, and a database lock is granted in the end,
hence weak fairness of what a worker does next. SQS hands a visible message out
again and again though any single poll may hold other messages: strong fairness
of receiving it. Nothing makes a fault happen. In `chat_slow` the coroutines of
the slow message have no fairness at all. Three slots are what the comment at
`chat_notification_consumer.py:306` needs: each redelivery of the slow message
takes one more, and with as many redeliveries as slots the loop does wait.

A prayer message is received again and again, and not for ever behind another one
of its batch (strong fairness of a receive that has it first), and so is an audio
message (strong fairness of its turn in a batch): SQS has no fixed order. With
the default `AUDIO_SQS_MAX_MESSAGES` of 1 no audio message is behind another; the
run has batches of two. Gemini refuses a prayer finitely often; one it refuses for
ever is received for ever, and `EveryMessageLeaves` says nothing of it. A waiting refresh loop wakes, an orphaned lock and a Redis key with a TTL
expire, and a PUT that its client gave up on arrives soon or never. Nobody has to
ask a question, and no change has to happen.

A reminder rings in the end if the scheduler goes on calling for dispatches, FCM
accepts a live token once it was asked often enough (strong fairness: any single
send may fail), markers expire, and the database grants a lock to who waits for
it (strong fairness: dispatches take and release it). Nothing breaks a wait for
a lock: `db/database.py` sets no timeout.

One run is expected to fail, for a sentence of the repository:

* `reminder_hang`. A request for a reminder under dispatch waits for the
  dispatch's row lock and blocks the event loop the dispatch needs to give it
  back. If both are in one process, neither ends, and the database sees only an
  idle transaction. `DueRingsUnlessHung` says that nothing else keeps a due
  reminder from ringing; with two processes two may hang on each other (`Hung`).

Some behaviours the runs allow are worth knowing:

* A cancellation that overlaps a dispatch of the reminder in another process
  waits for it, then cancels the row it read, and leaves the successor that the
  dispatch created: the user is rung again. `ExtrasNeedRaces` counts such requests
  as races and shows that nothing else leaves an enrolment with too many reminders.
* After a crash or a lost answer, the 409 that a redelivered audio message meets is
  of the worker's own claim; the message is deleted and the job stays in process.
  `StrandsAccountedFor` says that this takes one such misfortune for each job.
* `replace_memberships` does not record a membership it found right, so an event
  older than the snapshot still changes it, until the newer event arrives:
  `Converged` holds none the less.
* A refresh that runs without the lock, or outlasts it, may push suggestions from
  older rows over newer ones, and they stand until the next refresh: the comment at
  `consumer.py:127` ("a duplicate rescore costs time, never correctness") is true of
  what stays (`SuggestionsCatchUp`), not of every moment. `computed_at` is taken
  after the rows were read and does not order two pushes.
* A lost EXPIRE leaves a rate limit key without an end. Its client is told to wait a
  minute (`segment_chat_views.py:55`) and stays locked out until someone deletes the
  key; `WaitingHelps` and `LockoutsAccountedFor` say that it takes such a loss.
* A library that cannot be read part way does not give the 502 that
  `segment_chat_views.py:58` speaks of, but an answer from fewer sources, and the
  partial context is served until its TTL ends (`StaleContextsFade`).
* A worker that dies in the first refresh of a fresh install leaves its lock; the
  others skip theirs and wait a whole interval. `FreshInstallRetriesSoon` therefore
  holds without orphaned locks only; with them, `SuggestionsCatchUp` says that the
  refresh comes in the end.
* The timestamps of a day fall behind its recording by up to a millisecond and a
  sample for each subtask (`TimelineKeepsToAudio`).

## Proofs

Proved for every value of the constants that meets `ConstantsAssumption`.

`EventDeliveryProofs`: `TypeCorrect`; `NoRecipientLost` (`SettledBeforeDelete`);
`NobodySkippedWrongly` (`MarkersSpeakTrue`); `Refinement` (`ImplementsContract`).
The last three have the hypothesis `KeysTellOccasions`: two messages share a key
only if they are about the same occasion. It is a statement about constants.
`CurrentKeysTellOccasions` proves it for the current release alone; with the
bridge on, a second day of one reminder on the queue breaks it. The
inductive invariant `IInv` adds to the type invariant that a task past FCM's
answer has its device handled, that a task is "done" only on a settled device,
that every marker speaks of a handled occasion, that a free gather has no tasks,
and that withdrawn messages are gone. `SettledBeforeDelete` is not inductive
without them: the step that deletes looks only at the tasks' results.

`RepeatsAreAccountedFor` (`RepeatsNeedSlips`) rests on `CountInv`, which counts the
chances that a message still has to push to a device: a visible message, a worker
that has it in its batch, a coroutine that waits, one that has asked FCM. Pushes and
chances are at most two more than the slips while a marker stands between them, one
more otherwise, and a push that nobody remembers is paid for. A retry without a slip
thus has a marker to find or no push to repeat. Two hypotheses:
`OneMessageEach`, because two messages for one notification, received by two workers
at once, push twice without a misfortune; and `ReleasesShareMarkers`, because with
several workers and the bridge an old worker does not find what a new one wrote.
They hold of both instances that check the property. The theorem does not need
`KeysTellOccasions`: keys that are shared too widely hide pushes, and repeat none.

`AudioJobProofs`: `TypeCorrect`, `NoSecondGeneration` (`GeneratedOnce`),
`CompleteMeansAudio` (`CompletedHasAudio`) and `StrandedJobsAreCounted`
(`StrandsAccountedFor`). `IInv` says who may own a claim: at
most one worker, only of a job that was started once, with the audio count its
step implies; a job nobody claimed has neither a start nor audio. For the last,
`StrandsInv` adds that the stranded jobs are finitely many, whatever `Jobs` is: a
step strands no job, or its own and is counted.

The same module proves `TimelinesKeepToAudio` (`TimelineKeepsToAudio`) for every day,
sampling rate and set of inexact durations. The loops over a day are recursive
functions of `AudioTimeline`: `RecursionExists` builds a function from its start and
its rule, so that what the `CHOOSE` of such a definition picks satisfies it, and
`Climb` is the induction, on a set instead of a predicate, from the
well-foundedness of `<`. `DurationBounds` bounds what one duration loses,
`ExtendKeeps` adds one segment.

`ReminderDispatchProofs`: `TypeCorrect`, `HabitNeverEndsUnnoticed`
(`EnrolledHasReminder`), `NoReminderRingsTwice` (`RingsOnce`) and
`ExtraRemindersNeedRaces` (`ExtrasNeedRaces`), the latter for a finite set of
row ids. All rest on `LocksInv`: a row a dispatch holds is pending and held by
no other, which `SKIP LOCKED` and the wait of the requests give. `ReadsInv`
(a request writes rows of its own enrolment only) keeps one enrolment's request
from taking another's reminder. `RingsOnce` alone is not inductive: `PushesInv`
adds that a row nobody has rung, and that has no marker, has at most as many
pushes as there were slips. `ExtrasNeedRaces` counts: successors are at most as
many as the rows they succeed.

`SegmentChatProofs`: `TypeCorrect` and `LockoutsNeedLosses`
(`LockoutsAccountedFor`). `FirstsInv` is the strengthening: the request whose
INCR found no counter is the only one that will set the TTL, and it is known by
the counter it made; a counter without a TTL has such a request or one of the
losses counted.

The same module proves `SourcesFit` (`SourcesWithinBudget`) and `RootsComeFirst`
(`RootComesFirst`) for every listing, with the same two lemmas on loops.
`KeptFacts` says what a filter keeps, `JoinFacts` that rows of lower kinds before
rows of higher ones stay in order and distinct, `CutFacts` that a cut content still
says something. `Fits` is the invariant of the loop over the rows: besides the
budgets it says that a row that was left out came when the budget was spent, and
that all sources are from rows up to it.

`PrayerTranslationProofs`: `TypeCorrect` and `NoPrayerIsForgotten`
(`NoPrayerForgotten`). The property alone is not inductive: it is content with any
message of the prayer, so a delete could take the last one. `NewestInv` says which
one stays, the message of the present text. `DeletingInv` says that whoever is
about to delete that message may do so; it needs `TextInv` (a handler's text lies
between its message's and the prayer's, so a result for the message of the
present text is a result for the present text) and `SentInv` (an edit's message is
new, so nobody can be about to delete it).

`ChatDeliveryProofs`: `TypeCorrect`, `NoRecipientLost` (`SettledBeforeDelete`),
`RepeatsAreAccountedFor` (`RepeatsNeedSlips`) and `Refinement` (`ImplementsContract`). The argument is that of `EventDeliveryProofs`
and needs no hypothesis on keys: a marker names the notice itself, so
`MarkersInv` is only that a marker speaks of a handled push. `GatherInv` says which
notice a gather may announce, the message's own or, for a decided join request, its
verdict; `TaskInv` that a coroutine is "done" only on a settled device. For the
refinement `DroppedAreGone` is needed too; the devices of a request decided meanwhile
map to settled ones once the whole audience of the decision is. `CountInv` counts
chances as in `EventDeliveryProofs`, for each message, notice and device, so that it
needs no hypothesis: what copies on another queue push is theirs, a join request's
message that is still unsent counts as one that is to come, and a marker of any copy
serves all. The property bounds the pushes of each message: copies of a prayer
request on two queues may each push one device when they are delivered side by side,
without a misfortune. What the runs and `NoRecipientLost` show of such copies is that
neither deletes its message on what the other only began.

`RecRefreshProofs`: `LockStaysWithHolder` (`HoldersHold`) and `SomebodyRetriesSoon`
(`FreshInstallRetriesSoon`), from an assumption that there is a worker. The lock is
the key of `_release_refresh_lock`'s compare-and-delete: `TokenInv` says that a
token is in Redis only while its refresh runs and knows that it has it, so nobody
deletes another's lock. The fresh install counts on `RetryInv`: while the catalog
is empty and no lock was orphaned, some worker runs or sleeps less than an
interval; `CatalogInv` (past the sync there is a catalog) and `OrphanInv` (an
orphaned lock was counted) carry it over the steps that skip or fail. The
type invariant's bound on versions is not proved: it needs a sum over a function.

The same module proves `ReasonsAreStrongest` (`ReasonsHold`) and `DismissedMakeRoom`
(`DismissingMakesRoom`) for every query of the rows' type, from finitely many
people, spaces and plans, integer weights and positions that differ. `Kept` is the
invariant of the running score: what it remembers is a signal it has added and none
of those added was larger; eight uses of `AddKeeps` make it hold of the score.
`RankedIsTop` says that a list is the n first of the eligible items in a strict
total order, and `TopWithout` is a lemma on such orders: without one of the n first,
the others are still among them, and if there are fewer than before nothing was left
out. It needs that the first of the items left out exists (`FirstExists`, by the
well-foundedness of the number of items ahead).

`RecSignalsProofs`: `TypeCorrect`, `NoEventLost` (`StoredBeforeDelete`, of messages
that can be read),
`ImpressionsCountedOnce` (`CountsExact`), `MembershipsGoForward`
(`ChangesGoForward`) and `MembershipsConverge` (`Converged`), for a finite set of
events, `MembershipsGoForward` for clocks that are not
behind the start of time (`ClocksRun`: the model writes "no row" as a moment before
it). `TransactionInv` is the core: what a transaction saw as processed is, so after
the check of the unique key its fresh events are new and the counts add up;
`SentInv` and `ReceivedInv` keep an event's record from changing after it was
counted. That the newest of several membership events exists is shown by the
well-foundedness of their ages. `MembershipsConverge` has a hypothesis of its own,
`ClocksNotAhead`: a refresher whose clock is ahead stamps its snapshot in the future,
and an event sent meanwhile looks older than the rows it should change.
`ConvergeInv` compares the last event of a membership with what the copy has heard:
`TruthInv` (it tells the backend's membership), `FoldedInv` (a processed event is not
later than the copy's record), `CopyInv` (a copy whose record has reached it is
right) and `PageInv` (so is a page of a snapshot begun after it). When everything is
processed, the record has reached it.

Only model-checked: liveness under fairness. The type invariants of `RecSignals`,
`ChatDelivery` and `SegmentChat` are proved and are no property of a run, that of
`RecRefresh` is stated for the reader.

## Not modelled

- `routine_dispatch_service.py` and `verse_of_day_dispatch_service.py`: they send
  what a timer asks for with the calls `ReminderDispatch` has, to a list of users
  read once, and keep no row from one call to the next.
- HTTP views, request and response schemas, configuration and middleware: they
  parse, validate and log, and call what is modelled.
- The building of push payloads, templates and APNs headers; of `fcm_client.py`,
  the fan-out, its verdicts on tokens and its deactivations are in
  `EventDelivery`, and credentials and HTTP are not.
- Speech services, the chunking of Tibetan text, WAV coding and S3: their outcome
  is a success with a length, or a failure (`Generate`, `GenerateFails`).
- The prompt, the model's words and the event stream of the segment chat.
- Migrations and scripts: no part of the running system.

## Plan

1. Done: `DeliveryContract`, `EventDelivery`, `AudioJob`, `ReminderDispatch`,
   `SegmentChat`, `PrayerTranslation`, `ChatDelivery`, `RecRefresh` and `RecSignals`
   with runs and proofs, and so the operators of `Scoring`, `SegmentSources` and
   `AudioTimeline`.
2. Left: every safety property that a run checks is proved; what remains is
   liveness, see above.
