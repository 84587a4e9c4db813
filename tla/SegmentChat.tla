----------------------------- MODULE SegmentChat -----------------------------
(***************************************************************************)
(* Questions about one segment (segment_chat): each is counted against its   *)
(* client's minute in Redis, gathers the segment's sources from the cache or *)
(* the library, and streams an answer.  Redis is optional and the library    *)
(* may fail part way, so what is served can be partial or out of date.       *)
(*                                                                          *)
(* Of a context only two things are kept: the library's version when the     *)
(* first of it was read, and whether everything was readable.  Which sources *)
(* it is made of is SegmentSources' subject.                                 *)
(***************************************************************************)
EXTENDS Naturals

CONSTANTS
    Requests,    \* questions that may be under way at once
    Clients,     \* those asking: _client_key
    ClientOf,    \* [Requests -> Clients]
    Limit,       \* SEGMENT_CHAT_RATE_LIMIT_PER_MINUTE; at 0 nothing is counted
    UseCache,    \* SEGMENT_CHAT_CONTEXT_CACHE_TTL_SECONDS > 0
    MaxChanges,  \* bound: changes of the library
    MaxFaults    \* bound: the misfortunes of one behaviour

ASSUME ConstantsAssumption ==
    /\ ClientOf \in [Requests -> Clients]
    /\ Limit \in Nat \ {0}
    /\ UseCache \in BOOLEAN
    /\ MaxChanges \in Nat
    /\ MaxFaults \in Nat

VARIABLES
    counter,  \* [Clients -> Nat]: the rate limit keys, 0 for none; counts above
              \* the limit are all alike and count as one above it
    ttl,      \* clients whose key has a TTL
    lost,     \* clients of whom an INCR that made a key, or its EXPIRE, got lost
    library,  \* the library's version
    cache,    \* the context in Redis, or NoContext
    request,  \* [Requests -> their stage and context]
    faults    \* misfortunes so far

rateVars == <<counter, ttl, lost>>
vars == <<counter, ttl, lost, library, cache, request, faults>>

NoContext == [since |-> 0, whole |-> FALSE, made |-> FALSE]
Contexts  == [since : 0..MaxChanges, whole : BOOLEAN, made : BOOLEAN]

Stages == {"idle", "counted", "admitted", "building", "texts", "contents",
           "writing", "streaming"}

Healthy == UNCHANGED faults
Glitch  == faults < MaxFaults /\ faults' = faults + 1

Enter(r, stage, context) ==
    request' = [request EXCEPT ![r] = [stage |-> stage, context |-> context]]
Done(r) == Enter(r, "idle", NoContext)

-----------------------------------------------------------------------------
(* is_rate_limited                                                          *)

\* Mutant: every count above the limit sets the TTL, and no other.
FirstOfWindowLast(count) == count > Limit

\* Mutant: the count before this request, as GET would have it.
FirstOfWindowBefore(count) == count = 0

FirstOfWindow(count) == count = 1

More(n) == IF n > Limit THEN n ELSE n + 1

Counted(c) == More(counter[c])

\* INCR.  The first of a window goes on to EXPIRE; one above the limit gets 429.
Count(r) ==
    LET c == ClientOf[r] IN
    /\ counter' = [counter EXCEPT ![c] = Counted(c)]
    /\ IF FirstOfWindow(Counted(c)) THEN Enter(r, "counted", NoContext)
       ELSE IF Counted(c) > Limit THEN Done(r)
       ELSE Enter(r, "admitted", NoContext)
    /\ Healthy
    /\ UNCHANGED <<ttl, lost>>

\* INCR raises, maybe after it was done: the request is allowed, and nobody
\* sets the TTL of a key this INCR made.
CountFails(r) ==
    LET c == ClientOf[r] IN
    /\ Enter(r, "admitted", NoContext)
    /\ \/ UNCHANGED <<counter, lost>>
       \/ /\ counter' = [counter EXCEPT ![c] = Counted(c)]
          /\ lost' = IF FirstOfWindow(Counted(c)) THEN lost \cup {c} ELSE lost
    /\ Glitch
    /\ UNCHANGED ttl

\* The client library repeats an INCR whose answer was lost: it counts twice,
\* and the count that comes back is never the first.
CountRepeats(r) ==
    LET c == ClientOf[r]
        twice == More(Counted(c))
    IN
    /\ counter' = [counter EXCEPT ![c] = twice]
    /\ lost' = IF FirstOfWindow(Counted(c)) THEN lost \cup {c} ELSE lost
    /\ IF twice > Limit THEN Done(r) ELSE Enter(r, "admitted", NoContext)
    /\ Glitch
    /\ UNCHANGED ttl

Ask(r) ==
    /\ request[r].stage = "idle"
    /\ Count(r) \/ CountFails(r) \/ CountRepeats(r)
    /\ UNCHANGED <<library, cache>>

\* EXPIRE, 60.  If it raises the request is allowed.
SetExpiry(r) ==
    LET c == ClientOf[r] IN
    /\ request[r].stage = "counted"
    /\ Enter(r, "admitted", NoContext)
    /\ \/ ttl' = ttl \cup {c} /\ UNCHANGED lost /\ Healthy
       \/ lost' = lost \cup {c} /\ UNCHANGED ttl /\ Glitch
    /\ UNCHANGED <<counter, library, cache>>

\* The minute is over.
WindowEnds(c) ==
    /\ c \in ttl
    /\ counter' = [counter EXCEPT ![c] = 0]
    /\ ttl' = ttl \ {c}
    /\ UNCHANGED <<lost, library, cache, request, faults>>

-----------------------------------------------------------------------------
(* get_segment_context                                                      *)

\* Mutant: a hit is written back, to keep the segment in the cache.
LookRefreshes(r) ==
    /\ request[r].stage = "admitted"
    /\ \/ UseCache /\ cache.made /\ Enter(r, "writing", cache) /\ Healthy
       \/ ~(UseCache /\ cache.made) /\ Enter(r, "building", NoContext) /\ Healthy
       \/ UseCache /\ Enter(r, "building", NoContext) /\ Glitch
    /\ UNCHANGED <<rateVars, library, cache>>

\* _read_cache: a hit is served as it is; a miss, and a Redis error, build anew.
Look(r) ==
    /\ request[r].stage = "admitted"
    /\ \/ UseCache /\ cache.made /\ Enter(r, "streaming", cache) /\ Healthy
       \/ ~(UseCache /\ cache.made) /\ Enter(r, "building", NoContext) /\ Healthy
       \/ UseCache /\ Enter(r, "building", NoContext) /\ Glitch
    /\ UNCHANGED <<rateVars, library, cache>>

\* The first gather: the segment and its related segments, or an HTTP error;
\* its own content may be unreadable.
ReadSegment(r) ==
    /\ request[r].stage = "building"
    /\ \/ \E whole \in BOOLEAN :
             /\ Enter(r, "texts", [since |-> library, whole |-> whole, made |-> TRUE])
             /\ IF whole THEN Healthy ELSE Glitch
       \/ Done(r) /\ Glitch
    /\ UNCHANGED <<rateVars, library, cache>>

\* A text or a content that cannot be read after the retries is None, and its
\* source is left out.
Read(r, from, to) ==
    LET context == request[r].context IN
    /\ request[r].stage = from
    /\ \/ Enter(r, to, context) /\ Healthy
       \/ Enter(r, to, [context EXCEPT !.whole = FALSE]) /\ Glitch
    /\ UNCHANGED <<rateVars, library, cache>>

ReadTexts(r)    == Read(r, "texts", "contents")
ReadContents(r) == Read(r, "contents", IF UseCache THEN "writing" ELSE "streaming")

\* _write_cache: whatever was built, a Redis error notwithstanding.
Write(r) ==
    /\ request[r].stage = "writing"
    /\ Enter(r, "streaming", request[r].context)
    /\ \/ cache' = request[r].context /\ Healthy
       \/ UNCHANGED cache /\ Glitch
    /\ UNCHANGED <<rateVars, library>>

CacheExpires ==
    /\ cache.made
    /\ cache' = NoContext
    /\ UNCHANGED <<rateVars, library, request, faults>>

\* stream_segment_chat: done, an error event, or the reader has left.
Stream(r) ==
    /\ request[r].stage = "streaming"
    /\ Done(r)
    /\ Healthy
    /\ UNCHANGED <<rateVars, library, cache>>

-----------------------------------------------------------------------------
(* Surroundings                                                             *)

\* The process stops before the answer, at worst between INCR and EXPIRE.
Abandon(r) ==
    /\ request[r].stage \notin {"idle", "streaming"}
    /\ Done(r)
    /\ lost' = IF request[r].stage = "counted" THEN lost \cup {ClientOf[r]}
               ELSE lost
    /\ Glitch
    /\ UNCHANGED <<counter, ttl, library, cache>>

LibraryChanges ==
    /\ library < MaxChanges
    /\ library' = library + 1
    /\ UNCHANGED <<rateVars, cache, request, faults>>

-----------------------------------------------------------------------------

Init ==
    /\ counter = [c \in Clients |-> 0]
    /\ ttl = {}
    /\ lost = {}
    /\ library = 0
    /\ cache = NoContext
    /\ request = [r \in Requests |-> [stage |-> "idle", context |-> NoContext]]
    /\ faults = 0

Proceed(r) ==
    \/ SetExpiry(r)
    \/ Look(r)
    \/ ReadSegment(r)
    \/ ReadTexts(r)
    \/ ReadContents(r)
    \/ Write(r)
    \/ Stream(r)

Next ==
    \/ \E r \in Requests : Ask(r) \/ Proceed(r) \/ Abandon(r)
    \/ \E c \in Clients : WindowEnds(c)
    \/ CacheExpires
    \/ LibraryChanges

Spec == Init /\ [][Next]_vars

\* What a request awaits ends or times out, and Redis drops keys at their TTL.
\* Nobody has to ask.
Fairness ==
    /\ \A r \in Requests : WF_vars(Proceed(r))
    /\ \A c \in Clients : WF_vars(WindowEnds(c))
    /\ WF_vars(CacheExpires)

FairSpec == Spec /\ Fairness

-----------------------------------------------------------------------------
(* Properties                                                               *)

TypeOK ==
    /\ counter \in [Clients -> 0..Limit + 1]
    /\ ttl \subseteq {c \in Clients : counter[c] > 0}
    /\ lost \subseteq Clients
    /\ library \in 0..MaxChanges
    /\ cache \in Contexts
    /\ request \in [Requests -> [stage : Stages, context : Contexts]]
    /\ \A r \in Requests : request[r].context.made
          <=> request[r].stage \in {"texts", "contents", "writing", "streaming"}
    /\ faults \in 0..MaxFaults

\* A counter that nobody will reset, which locks its client out for good, comes
\* only of an INCR or EXPIRE that was lost, by Redis or by a process that
\* stopped between the two: no interleaving of a client's requests with each
\* other or with the end of a window makes one.
LockoutsAccountedFor ==
    \A c \in Clients :
        counter[c] > 0 /\ c \notin ttl
          => \/ c \in lost
             \/ \E r \in Requests : ClientOf[r] = c /\ request[r].stage = "counted"

\* "Please wait a minute and try again": a client above its limit is let in
\* again sooner or later, unless its EXPIRE got lost.
WaitingHelps ==
    \A c \in Clients : counter[c] > Limit ~> (counter[c] = 0 \/ c \in lost)

Current(context) == context.whole /\ context.since = library

\* Once the library is at rest and can be read, what is cached and what is
\* served are whole and current, for good: a partial context, or one that a
\* slow request built from an older library and cached over a newer one, does
\* not outlive its TTL.
StaleContextsFade ==
    <>[](/\ cache.made => Current(cache)
         /\ \A r \in Requests : request[r].stage = "streaming"
                                  => Current(request[r].context))
=============================================================================
