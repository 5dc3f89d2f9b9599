------------------------------ MODULE Listing ------------------------------
(***************************************************************************)
(* A page that shows a list the API filters and divides into pages:        *)
(* QuestionBankPage.jsx, the list of UserManagementPage.jsx and            *)
(* ProblemListPage.jsx.  Every change of the query sends a request, none   *)
(* of which is ever taken back, and answers are shown as they come in.     *)
(*                                                                         *)
(* A filter is the set of the records it lets through.  Nobody but the     *)
(* page changes the records while it is open: the question bank by         *)
(* deleting one, the list of the users by importing some on its other tab, *)
(* where the list and its controls are hidden.                             *)
(***************************************************************************)
EXTENDS Integers, Sequences, FiniteSets, SequencesExt

CONSTANTS
    Record,      \* of numbers: their order is that of the list
    Filters,     \* the first one is that of a page just opened
    PageSize,
    MaxFetches,  \* bound: requests under way
    MaxPage      \* bound

ASSUME ListingAssumption ==
    /\ IsFiniteSet(Record) /\ Record \subseteq Nat \ {0}
    /\ Filters \in Seq(SUBSET Record) /\ Len(Filters) > 0
    /\ PageSize \in Nat \ {0}

VARIABLES
    kind,      \* "questions", "users" or "problems": which page it is
    records,
    query,     \* the filter and the page that the controls show
    list,      \* what is shown: the records, how many there are, and how many pages
    loading,
    fetches,   \* the requests under way, in the order they were sent
    tab,       \* "list", or the "bulk" import of the users
    errand,    \* a deletion or an import under way, with the query of its click
    luck       \* history: "crossed" by a call that was overtaken, lost or late, or "strayed"
               \* to a page that need not be there

listing == <<kind, records, query, list, loading, fetches, tab, errand, luck>>

NoErrand == [on |-> FALSE, ids |-> {}, query |-> query, done |-> FALSE]
OnErrand == errand.on

\* Ids ascending: position in the filtered list.
Rank(filter, r) == Cardinality({x \in records \cap filter : x <= r})

\* The answer to a request (listQuestions, listUsers, listProblems).  Nothing asks for
\* another page of problems than the first, or is told that there are more.
reply(q) ==
    LET found == records \cap q.filter
        shown == {r \in found : /\ (q.page - 1) * PageSize < Rank(q.filter, r)
                                /\ Rank(q.filter, r) <= q.page * PageSize}
        last  == (Cardinality(found) + PageSize - 1) \div PageSize
    IN  IF kind = "problems" THEN [items |-> shown, total |-> Cardinality(shown), pages |-> 1]
        ELSE [items |-> shown, total |-> Cardinality(found),
              pages |-> IF kind = "questions" /\ last = 0 THEN 1 ELSE last]

Fetch(q) == [query |-> q, answered |-> FALSE, reply |-> list]

InitListing ==
    /\ kind \in {"questions", "users", "problems"}
    /\ records \in IF kind = "users" THEN SUBSET Record ELSE {Record}
    /\ query = [filter |-> Filters[1], page |-> 1]
    /\ list = [items |-> {}, total |-> 0, pages |-> 1]
    /\ loading = TRUE
    /\ fetches = <<Fetch(query)>>
    /\ tab = "list"
    /\ errand = NoErrand
    /\ luck = {}

\* Nothing is under way.  What is asked for then is shown, whatever happened before; but by
\* the pages of an old list one may turn past the last page, until the filter changes.
Quiet == fetches = <<>> /\ ~OnErrand

\* The effect on [fetchQuestions]: a query that changes is sent.
queries(q, rest) ==
    /\ query' = q
    /\ fetches' = IF q = query THEN rest ELSE Append(rest, Fetch(q))

-----------------------------------------------------------------------------

\* Defect: the page stays where it is.
changeFilterOnly ==
    /\ tab = "list" /\ Len(fetches) < MaxFetches
    /\ \E filter \in ToSet(Filters) \ {query.filter} :
          queries([query EXCEPT !.filter = filter], fetches)
    /\ loading' = TRUE
    /\ luck' = IF Quiet THEN {} ELSE luck \cup (IF OnErrand THEN {"crossed"} ELSE {})
    /\ UNCHANGED <<kind, records, list, tab, errand>>

\* Typing into the search box, and choosing a tag or a role.
changeFilter ==
    /\ tab = "list" /\ Len(fetches) < MaxFetches
    /\ \E filter \in ToSet(Filters) \ {query.filter} :
          queries([filter |-> filter, page |-> 1], fetches)
    /\ loading' = TRUE
    /\ luck' = IF Quiet THEN {} ELSE luck \cup (IF OnErrand THEN {"crossed"} ELSE {})
    /\ UNCHANGED <<kind, records, list, tab, errand>>

\* The buttons: those of the question bank are there while nothing is loading, those of
\* the users while there is more than one page, and Next is off on the last page only.
turnPage ==
    /\ tab = "list" /\ Len(fetches) < MaxFetches
    /\ \/ kind = "questions" /\ ~loading /\ query.page < list.pages
          /\ queries([query EXCEPT !.page = @ + 1], fetches)
       \/ kind = "users" /\ list.pages > 1 /\ query.page # list.pages /\ query.page < MaxPage
          /\ queries([query EXCEPT !.page = @ + 1], fetches)
       \/ /\ \/ kind = "questions" /\ ~loading
             \/ kind = "users" /\ list.pages > 1
          /\ query.page > 1
          /\ queries([query EXCEPT !.page = @ - 1], fetches)
    /\ loading' = TRUE
    /\ luck' = IF Quiet THEN IF luck = {} THEN {} ELSE {"strayed"}
               ELSE luck \cup (IF fetches = <<>> THEN {} ELSE {"strayed"})
                         \cup (IF OnErrand THEN {"crossed"} ELSE {})
    /\ UNCHANGED <<kind, records, list, tab, errand>>

\* The tabs of the users: the effect on [activeTab, fetchUsers] asks again for a list that
\* comes back.
showTab ==
    /\ kind = "users"
    /\ \/ tab = "list" /\ tab' = "bulk" /\ UNCHANGED <<fetches, loading, luck>>
       \/ /\ tab = "bulk" /\ tab' = "list"
          /\ Len(fetches) < MaxFetches
          /\ fetches' = Append(fetches, Fetch(query))
          /\ loading' = TRUE
          /\ luck' = IF Quiet THEN IF luck = {} THEN {} ELSE {"strayed"} ELSE luck
    /\ UNCHANGED <<kind, records, query, list, errand>>

\* Both go on with the fetch of their click, whatever the controls show by then.  Bound:
\* one of them at a time.
handleDelete ==
    /\ kind = "questions" /\ ~loading /\ ~OnErrand
    /\ \E r \in list.items : errand' = [on |-> TRUE, ids |-> {r}, query |-> query, done |-> FALSE]
    /\ UNCHANGED <<kind, records, query, list, loading, fetches, tab, luck>>

importUsers ==
    /\ kind = "users" /\ tab = "bulk" /\ ~loading /\ ~OnErrand
    /\ \E ids \in SUBSET (Record \ records) :
          errand' = [on |-> TRUE, ids |-> ids, query |-> query, done |-> FALSE]
    /\ loading' = TRUE
    /\ UNCHANGED <<kind, records, query, list, fetches, tab, luck>>

\* The API deletes the question, or creates the accounts.
runErrand ==
    /\ OnErrand /\ ~errand.done
    /\ errand' = [errand EXCEPT !.done = TRUE]
    /\ \/ kind = "questions" /\ records' = records \ errand.ids /\ luck' = luck \cup {"strayed"}
       \/ kind = "users" /\ records' = records \cup errand.ids /\ UNCHANGED luck
    /\ UNCHANGED <<kind, query, list, loading, fetches, tab>>

\* fetchQuestions() or fetchUsers(), the ones of the click; the import goes on to its
\* finally while the list is on its way.
errandAnswered ==
    /\ OnErrand /\ errand.done /\ Len(fetches) < MaxFetches
    /\ errand' = NoErrand
    /\ fetches' = Append(fetches, Fetch(errand.query))
    /\ loading' = (kind = "questions")
    /\ UNCHANGED <<kind, records, query, list, tab, luck>>

\* A call that is refused, or whose answer is lost, is only reported.
errandFails ==
    /\ OnErrand
    /\ errand' = NoErrand
    /\ loading' = (loading /\ kind = "questions")
    /\ luck' = IF errand.done THEN luck \cup {"crossed"} ELSE luck
    /\ UNCHANGED <<kind, records, query, list, fetches, tab>>

-----------------------------------------------------------------------------

answerFetch ==
    /\ \E i \in DOMAIN fetches :
          /\ ~fetches[i].answered
          /\ fetches' = [fetches EXCEPT ![i].answered = TRUE, ![i].reply = reply(fetches[i].query)]
    /\ UNCHANGED <<kind, records, query, list, loading, tab, errand, luck>>

\* The question bank goes to the page the answer is about, which may be another query.
showAnswer ==
    /\ \E i \in DOMAIN fetches :
          LET fetch == fetches[i]
              page  == IF kind = "questions" THEN fetch.query.page ELSE query.page
          IN  /\ fetch.answered
              /\ list' = fetch.reply
              /\ queries([query EXCEPT !.page = page], RemoveAt(fetches, i))
              /\ loading' = (page # query.page)
              /\ luck' = luck \cup (IF i = 1 THEN {} ELSE {"crossed"})
    /\ UNCHANGED <<kind, records, tab, errand>>

fetchFails ==
    /\ \E i \in DOMAIN fetches : fetches' = RemoveAt(fetches, i)
    /\ loading' = FALSE
    /\ luck' = luck \cup {"crossed"}
    /\ UNCHANGED <<kind, records, query, list, tab, errand>>

ListingNext ==
    \/ changeFilter \/ turnPage \/ showTab
    \/ handleDelete \/ importUsers \/ runErrand \/ errandAnswered \/ errandFails
    \/ answerFetch \/ showAnswer \/ fetchFails

ListingSpec == InitListing /\ [][ListingNext]_listing

-----------------------------------------------------------------------------

\* When nothing is under way, the list is that of the query on the screen, and empty only if
\* there is nothing to be found: no order of typing, paging, tabs, deletions, imports and
\* answers leaves an old list there, unless an answer was overtaken by a later one, a call
\* failed, or the query changed while a deletion or an import was under way, which goes on
\* with the query it began with.  A page past the last one needs a deletion, or a click while
\* a list was still loading (setPage(1) in every control, fetchQuestions, fetchUsers, the
\* effects on them, handleDelete and handleBulkImport).
ListMatches ==
    Quiet /\ "crossed" \notin luck =>
        /\ list = reply(query)
        /\ luck = {} /\ list.total > 0 => list.items # {}
=============================================================================
