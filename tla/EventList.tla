------------------------------ MODULE EventList -----------------------------
(* The list of events, newest first, asked for page by page while events go   *)
(* on arriving, late ones among them: by page number, counting anew each      *)
(* time, or by a cursor that is the last event shown. A range that ends now   *)
(* moves on from page to page. The export streams the whole list.             *)
EXTENDS Integers, Sequences, FiniteSets, FiniteSetsExt, SequencesExt

CONSTANTS ListTimes,       \* times of events
          ListKinds,       \* kinds of events: [key, model, auth, failed]
          ListFilters,     \* what a request narrows the list to
          ListPageSizes,   \* sizes of a page
          MaxListedRows    \* bound: number of events

ASSUME ListAssumption ==
    /\ ListTimes \subseteq Nat /\ ListTimes # {} /\ ListPageSizes \subseteq Nat \ {0}
    /\ MaxListedRows \in Nat

Unfiltered == ""
FirstPage == [at |-> 0, id |-> 0]
NotCounted == -1

VARIABLES listedRows,    \* committed events, the index is the id
          listFrom,      \* the range of the request begins here
          browse         \* one reader going through the pages

listVars == <<listedRows, listFrom, browse>>

ListInit ==
    /\ listedRows = <<>> /\ listFrom = Min(ListTimes)
    /\ browse = [pc |-> "idle", cursorMode |-> FALSE, skipCount |-> FALSE, filter |-> <<>>, size |-> 0,
                 page |-> 1, total |-> NotCounted, cursor |-> FirstPage, shown |-> <<>>,
                 known |-> 0, counted |-> 0]

-----------------------------------------------------------------------------
Matches(id, filter) ==
    LET e == listedRows[id]
        is(wanted, value) == wanted \in {Unfiltered, value}
    IN /\ e.at >= listFrom
       /\ is(filter.key, e.kind.key) /\ is(filter.model, e.kind.model)
       /\ is(filter.auth, e.kind.auth)
       /\ is(filter.result, IF e.kind.failed THEN "failed" ELSE "success")

NewerThan(a, b) ==
    \/ listedRows[a].at > listedRows[b].at
    \/ listedRows[a].at = listedRows[b].at /\ a > b

NewestFirst(ids) ==
    CHOOSE s \in [1 .. Cardinality(ids) -> ids] : \A i, j \in DOMAIN s : i < j => NewerThan(s[i], s[j])

MatchingIds(filter) == {id \in DOMAIN listedRows : Matches(id, filter)}
EventsOf(filter) == NewestFirst(MatchingIds(filter))

(* the models an event was seen of, to choose from *)
ModelOptions == {listedRows[id].kind.model : id \in DOMAIN listedRows} \ {Unfiltered}

(* Mutant: of the events at the time of the cursor none is left to show. *)
AtCursorLost(cursor, id) == listedRows[id].at < cursor.at

BeyondCursor(cursor, id) ==
    \/ listedRows[id].at < cursor.at
    \/ listedRows[id].at = cursor.at /\ id < cursor.id

(* a page by its cursor, and one event more to know whether it is the last *)
CursorRows(b) ==
    LET rows == IF b.cursor = FirstPage THEN EventsOf(b.filter)
                ELSE NewestFirst({id \in MatchingIds(b.filter) : BeyondCursor(b.cursor, id)})
    IN [rows |-> SubSeq(rows, 1, Min({Len(rows), b.size})), hasMore |-> Len(rows) > b.size]

TotalPages(b) == IF b.total > 0 THEN (b.total + b.size - 1) \div b.size ELSE 0

PageRows(b) ==
    LET rows == EventsOf(b.filter)
        offset == (b.page - 1) * b.size
    IN [rows |-> SubSeq(rows, offset + 1, Min({Len(rows), offset + b.size})),
        hasMore |-> b.page < TotalPages(b)]

-----------------------------------------------------------------------------
StoreListed ==
    /\ Len(listedRows) < MaxListedRows
    /\ \E at \in ListTimes, kind \in ListKinds :
        listedRows' = Append(listedRows, [at |-> at, kind |-> kind])
    /\ UNCHANGED <<listFrom, browse>>

RangeMovesOn ==
    /\ browse.pc # "idle" /\ listFrom < Max(ListTimes) /\ listFrom' = listFrom + 1
    /\ UNCHANGED <<listedRows, browse>>

(* a page of a credential, by its cursor, is not counted at all *)
BeginBrowse ==
    /\ browse.pc = "idle"
    /\ \E filter \in ListFilters, size \in ListPageSizes, cursorMode \in BOOLEAN :
        browse' = [browse EXCEPT !.pc = "count", !.filter = filter, !.size = size,
                                 !.cursorMode = cursorMode,
                                 !.skipCount = cursorMode /\ filter.auth # Unfiltered,
                                 !.known = Len(listedRows)]
    /\ UNCHANGED <<listedRows, listFrom>>

(* counted and read by two queries *)
CountListed ==
    /\ browse.pc = "count"
    /\ browse' = [browse EXCEPT
            !.pc = "read", !.counted = Len(listedRows),
            !.total = IF browse.skipCount \/ (browse.cursorMode /\ browse.cursor # FirstPage)
                      THEN NotCounted ELSE Cardinality(MatchingIds(browse.filter))]
    /\ UNCHANGED <<listedRows, listFrom>>

ReadListed ==
    /\ browse.pc = "read"
    /\ LET answer == IF browse.cursorMode THEN CursorRows(browse) ELSE PageRows(browse)
           last == Last(answer.rows)
       IN browse' = [browse EXCEPT
            !.pc = IF answer.hasMore THEN "count" ELSE "done",
            !.page = IF browse.cursorMode THEN 1 ELSE @ + 1,
            !.shown = @ \o answer.rows,
            !.cursor = IF browse.cursorMode /\ answer.hasMore
                       THEN [at |-> listedRows[last].at, id |-> last] ELSE @]
    /\ UNCHANGED <<listedRows, listFrom>>

(* on to the next page, by the next cursor or the next number *)
ListNext == StoreListed \/ RangeMovesOn \/ BeginBrowse \/ CountListed \/ ReadListed

ListSpec == ListInit /\ [][ListNext]_listVars

(* the stream of the export, its filter held for one query *)
ExportOf(filter) == EventsOf(filter)

-----------------------------------------------------------------------------
(* Who goes through all pages misses no event that was there when it began    *)
(* and is still in the range: by the cursor none, and none is shown twice; by *)
(* page number at most as many as were stored between the count and the rows  *)
(* of the last page. With nothing stored meanwhile the pages are the export.  *)
ListSkipsNothing ==
    LET b == browse
        there == {id \in 1 .. b.known : Matches(id, b.filter)}
        missed == there \ ToSet(b.shown)
    IN b.pc = "done" =>
        /\ IF b.cursorMode THEN missed = {}
           ELSE Cardinality(missed) <= Len(listedRows) - b.counted
        /\ b.cursorMode => \A i, j \in DOMAIN b.shown :
                              i < j => NewerThan(b.shown[i], b.shown[j])
        /\ (b.known = Len(listedRows) /\ listFrom = Min(ListTimes)) =>
              b.shown = ExportOf(b.filter)
        /\ \A id \in ToSet(b.shown) : b.filter.model \in {Unfiltered, listedRows[id].kind.model}
        /\ b.filter.model \notin ModelOptions \cup {Unfiltered} => b.shown = <<>>
=============================================================================
