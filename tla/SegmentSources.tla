--------------------------- MODULE SegmentSources ---------------------------
(***************************************************************************)
(* Which sources an answer is built from (segment_context_service.py): the   *)
(* library's related segments, page by page, classified by how their text    *)
(* relates to the selected one's, ordered, and cut to the prompt's budget.   *)
(*                                                                          *)
(* Contents are sequences of characters of which only blanks are told apart. *)
(***************************************************************************)
EXTENDS Naturals, SequencesExt

CONSTANTS
    Selected,      \* the selected segment: [id, text]
    TextOf,        \* id of a text |-> [translation_of, commentary_of] or Unread
    ContentOf,     \* id of a segment |-> its cleaned content, <<>> if unread
    MaxPages,      \* SEGMENT_CHAT_MAX_RELATED_PAGES
    MaxSources,    \* SEGMENT_CHAT_MAX_SOURCES
    MaxTotal,      \* SEGMENT_CHAT_MAX_CONTEXT_CHARS
    MaxPerSource   \* SEGMENT_CHAT_MAX_SOURCE_CHARS

VARIABLE listing   \* the library's answer: a sequence of pages

Nobody == "none"
Unread == [translation_of |-> Nobody, commentary_of |-> Nobody, read |-> FALSE]
Blank  == " "

\* A content has no blanks at its ends: clean_content strips it.
Contents == {c \in Seq({Blank, "x"}) :
                c # <<>> => c[1] # Blank /\ c[Len(c)] # Blank}

ASSUME SourcesAssumption ==
    /\ MaxPages \in Nat /\ MaxSources \in Nat /\ MaxTotal \in Nat
    /\ MaxPerSource \in Nat \ {0}
    /\ \A id \in DOMAIN ContentOf : ContentOf[id] \in Contents

Items == [id : DOMAIN ContentOf, text : DOMAIN TextOf]
Pages == [items : Seq(Items), has_more : BOOLEAN]

-----------------------------------------------------------------------------
(* Related segments: _fetch_related_items and the filter after it           *)

\* Of a list, what is in a set, in the list's order.
Kept(items, wanted) ==
    LET kept[n \in 0..Len(items)] ==
            IF n = 0 THEN <<>>
            ELSE IF items[n] \in wanted THEN Append(kept[n - 1], items[n])
            ELSE kept[n - 1]
    IN  kept[Len(items)]

\* The pages read, joined: up to the first that has no more, at most MaxPages.
Listed(pages) ==
    LET listed[n \in 0..MaxPages] ==
            IF n = 0 THEN <<>>
            ELSE IF n \in DOMAIN pages /\ \A k \in 1..n - 1 : pages[k].has_more
            THEN listed[n - 1] \o pages[n].items
            ELSE listed[n - 1]
    IN  listed[MaxPages]

\* setdefault: the first of an id stays where it is.
Remember(items, item) ==
    IF \E n \in DOMAIN items : items[n].id = item.id THEN items
    ELSE Append(items, item)

Distinct(items) ==
    LET known[n \in 0..Len(items)] ==
            IF n = 0 THEN <<>> ELSE Remember(known[n - 1], items[n])
    IN  known[Len(items)]

Related(pages) ==
    LET fetched == Distinct(Listed(pages))
    IN  Kept(fetched, {i \in ToSet(fetched) :
                          i.id # Selected.id /\ i.text # Selected.text})

-----------------------------------------------------------------------------
(* Kinds and order: classify, _TYPE_ORDER                                   *)

Order == [root |-> 0, translation |-> 1, commentary |-> 2]
NoKind == "none"

classify(text, selected) ==
    LET related == TextOf[text]
    IN  IF ~related.read THEN NoKind
        ELSE IF related.translation_of # Nobody THEN "translation"
        ELSE IF related.commentary_of # Nobody THEN "commentary"
        ELSE IF text \in {selected.translation_of, selected.commentary_of}
             THEN "root" ELSE NoKind

KindOf(item) == classify(item.text, TextOf[Selected.text])
OfKind(items, kind) == Kept(items, {i \in ToSet(items) : KindOf(i) = kind})

FirstOf(s, n) == SubSeq(s, 1, IF Len(s) < n THEN Len(s) ELSE n)

\* A stable sort by kind; what has none is left out.
InOrder(items) ==
    OfKind(items, "root") \o OfKind(items, "translation") \o OfKind(items, "commentary")

\* Mutant: the number of sources is cut before they are put in order.
ClassifiedCutFirst(pages) == InOrder(FirstOf(Related(pages), MaxSources))

Classified(pages) == FirstOf(InOrder(Related(pages)), MaxSources)

-----------------------------------------------------------------------------
(* The budget: _build_sources                                               *)

Rstrip(s) ==
    FirstOf(s, CHOOSE n \in 0..Len(s) :
                  /\ \A k \in n + 1..Len(s) : s[k] = Blank
                  /\ n = 0 \/ s[n] # Blank)

\* Mutant: only the budget of a source is looked at.
CutPerSource(content, remaining) == Rstrip(FirstOf(content, MaxPerSource))

\* What of a content fits into the remaining budget.
Cut(content, remaining) ==
    LET limit == IF MaxPerSource < remaining THEN MaxPerSource ELSE remaining
    IN  IF Len(content) > limit THEN Rstrip(FirstOf(content, limit)) ELSE content

Used(sources) ==
    LET used[n \in 0..Len(sources)] ==
            IF n = 0 THEN 0 ELSE used[n - 1] + Len(sources[n].content)
    IN  used[Len(sources)]

\* One row: skipped without content, or when the budget is spent.
AddRow(sources, row) ==
    LET remaining == MaxTotal - Used(sources)
        content   == ContentOf[row.id]
        cut       == Cut(content, remaining)
    IN  IF content = <<>> \/ Used(sources) >= MaxTotal THEN sources
        ELSE Append(sources, [ref |-> Len(sources) + 1, id |-> row.id,
                              kind |-> KindOf(row),
                              content |-> cut,
                              truncated |-> Len(content) > Len(cut)])

Built(rows) ==
    LET sources[n \in 0..Len(rows)] ==
            IF n = 0 THEN <<>> ELSE AddRow(sources[n - 1], rows[n])
    IN  sources[Len(rows)]

Sources(pages) == Built(Classified(pages))

-----------------------------------------------------------------------------
(* Properties                                                               *)

\* The sources fit the budgets, whatever was cut and stripped; each says
\* something, none twice, and its number, which the answer cites, is its place.
SourcesWithinBudget ==
    LET sources == Sources(listing)
    IN  /\ Len(sources) <= MaxSources /\ Used(sources) <= MaxTotal
        /\ \A n \in DOMAIN sources :
              /\ sources[n].ref = n
              /\ Len(sources[n].content) \in 1..MaxPerSource
              /\ \A m \in DOMAIN sources : sources[m].id = sources[n].id => m = n

\* "The root text anchors what is being commented on": a source is never left
\* out for one of a later kind.  What is left out, with a text and a content
\* that could be read on the pages read, comes after everything that is in, and
\* only once one of the limits is reached.
RootComesFirst ==
    LET sources == Sources(listing)
        left    == {i \in ToSet(Related(listing)) :
                      /\ KindOf(i) # NoKind /\ ContentOf[i.id] # <<>>
                      /\ \A n \in DOMAIN sources : sources[n].id # i.id}
    IN  \A i \in left :
           /\ \A n \in DOMAIN sources : Order[sources[n].kind] <= Order[KindOf(i)]
           /\ Used(sources) = MaxTotal \/ Len(Classified(listing)) = MaxSources
=============================================================================
