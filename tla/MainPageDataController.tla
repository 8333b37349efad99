----------------------- MODULE MainPageDataController -----------------------
(***************************************************************************)
(* The StateNotifier behind the main page (lib/controllers/                *)
(* main_page_data_controller.dart), the state it owns (MainPageData) and   *)
(* the calls of fetchMoviesOrTVShows it has running.                       *)
(*                                                                         *)
(* A fetch is two atomic steps, because Dart runs on one thread and        *)
(* yields only at an await.  The first step runs in the caller: it reads   *)
(* the state, picks a method of MovieService and sends its request.  The   *)
(* second runs when the awaited Future completes: it appends the results   *)
(* to the state AS IT IS THEN, or swallows the exception.  Between the     *)
(* two, the user may change the category or the text, scroll again, or     *)
(* the answer of another fetch may arrive.                                 *)
(*                                                                         *)
(* Callers are unrestricted here; module MainPage adds the one caller the  *)
(* app has.                                                                *)
(***************************************************************************)
EXTENDS Naturals, Sequences, SearchCategory

CONSTANTS
  Fetches,   \* identities of the fetches that may run at the same time (bound)
  Offered,   \* the categories that callers pass
  Texts,     \* the non-empty search texts that callers pass
  PageSize,  \* bound: most results one answer holds
  MaxPage    \* bound: no further page is asked for once state.page is here

ASSUME FetchesAssumption  == Fetches # {}
ASSUME OfferedAssumption  == popular \in Offered /\ Offered \subseteq Categories
ASSUME TextsAssumption    == NoText \notin Texts /\ Texts \subseteq STRING
ASSUME PageSizeAssumption == PageSize \in Nat \ {0}
ASSUME MaxPageAssumption  == MaxPage \in Nat

VARIABLES
  state,  \* the MainPageData held by the notifier
  calls,  \* calls[f]: the request fetch f awaits, NoRequest when f is not running
  \* History variables: no action reads them to decide anything.
  stale,  \* the running fetches that began before the last reset of the lists
  log,    \* the answers appended since the last reset, oldest first
  raced   \* since the last reset, did a fetch or the reset begin during another fetch

vars == <<state, calls, stale, log, raced>>

-----------------------------------------------------------------------------
(* Requests and results. *)

\* What a search field may hold.
SearchTexts == Texts \cup {NoText}

\* What a call of MovieService sends.  getLatestMovie sends no page.
Requests == [method : Methods, query : SearchTexts, page : Nat]

NoRequest == [method |-> "none", query |-> NoText, page |-> 0]

RequestFor(category, text, page) ==
  [method |-> MethodFor(category, text),
   query  |-> text,
   page   |-> IF MethodFor(category, text) = "getLatestMovie" THEN 0 ELSE page]

\* The request a fetch that begins in state d sends.
RequestOf(d) == RequestFor(d.searchCategory, d.searchText, d.page)

\* A movie or a TV show, known by the answer it came in and its place there.
Items == [req : Requests, idx : Nat]

Results(req, n) == [i \in 1..n |-> [req |-> req, idx |-> i]]

\* How many results an answer may hold: the latest movie is always one.
ResultCounts(req) == IF req.method = "getLatestMovie" THEN {1} ELSE 0..PageSize

-----------------------------------------------------------------------------
(* MainPageData. *)

MainPageData ==
  [movies : Seq(Items), tvShows : Seq(Items), page : Nat \ {0},
   searchCategory : Offered, searchText : SearchTexts]

initial ==
  [movies |-> <<>>, tvShows |-> <<>>, page |-> 1,
   searchCategory |-> popular, searchText |-> NoText]

\* Faulty variant of Reset: pages counted from zero.
ResetToPageZero(category, text) ==
  [movies |-> <<>>, tvShows |-> <<>>, page |-> 0,
   searchCategory |-> category, searchText |-> text]

\* Faulty variant of Reset: the TV shows of the old selection stay.
ResetKeepingTVShows(category, text) ==
  [movies |-> <<>>, tvShows |-> state.tvShows, page |-> 1,
   searchCategory |-> category, searchText |-> text]

\* copyWith(page: 1, movies: [], tvShows: [], searchCategory:, searchText:).
\* An empty list or text is not null, so it replaces the old one.
Reset(category, text) ==
  [movies |-> <<>>, tvShows |-> <<>>, page |-> 1,
   searchCategory |-> category, searchText |-> text]

\* Faulty variant of copyWithAppended: the answer replaces the list.
copyWithReplaced(d, req, results) ==
  [d EXCEPT !.movies  = IF req.method \in TVMethods THEN @ ELSE results,
            !.tvShows = IF req.method \in TVMethods THEN results ELSE @,
            !.page    = @ + 1]

\* copyWith(movies: [...movies, ...], tvShows: [...tvShows, ...], page: page + 1):
\* a method fills one of the two local lists, the other stays empty.
copyWithAppended(d, req, results) ==
  [d EXCEPT !.movies  = IF req.method \in TVMethods THEN @ ELSE @ \o results,
            !.tvShows = IF req.method \in TVMethods THEN @ \o results ELSE @,
            !.page    = @ + 1]

-----------------------------------------------------------------------------

Running == {f \in Fetches : calls[f] # NoRequest}

\* The synchronous half of fetchMoviesOrTVShows, run by fetch f in state d.
BeginFetch(f, d) ==
  /\ f \notin Running
  /\ calls' = [calls EXCEPT ![f] = RequestOf(d)]

\* The constructor: the initial state, and the first fetch already begun.
Init ==
  /\ state = initial
  /\ \E f \in Fetches :
       calls = [g \in Fetches |-> IF g = f THEN RequestOf(initial) ELSE NoRequest]
  /\ stale = {}
  /\ log = <<>>
  /\ raced = FALSE

\* fetchMoviesOrTVShows called from outside, for the next page.
fetchMoviesOrTVShows(f) ==
  /\ state.page < MaxPage
  /\ BeginFetch(f, state)
  /\ raced' = (raced \/ Running # {})
  /\ UNCHANGED <<state, stale, log>>

\* Faulty variant of ResetAndFetch: nothing is fetched for the new selection.
ResetOnly(f, category, text) ==
  /\ f \notin Running
  /\ state' = Reset(category, text)
  /\ stale' = Running
  /\ log' = <<>>
  /\ raced' = (Running # {})
  /\ UNCHANGED calls

\* The lists are emptied for a new selection and its first page is fetched.
\* Nothing cancels the fetches that are running.
ResetAndFetch(f, category, text) ==
  /\ state' = Reset(category, text)
  /\ BeginFetch(f, state')
  /\ stale' = Running
  /\ log' = <<>>
  /\ raced' = (Running # {})

updateSearchCategory(f, category) == ResetAndFetch(f, category, NoText)

\* Clearing the field falls back to browsing the current category.
updateSearchText(f, text) ==
  IF text = NoText
    THEN updateSearchCategory(f, state.searchCategory)
    ELSE ResetAndFetch(f, state.searchCategory, text)

\* The awaited call returned n results: the rest of fetchMoviesOrTVShows.
FetchReturns(f, n) ==
  /\ f \in Running
  /\ n \in ResultCounts(calls[f])
  /\ state' = copyWithAppended(state, calls[f], Results(calls[f], n))
  /\ log' = Append(log, [req |-> calls[f], fresh |-> f \notin stale, count |-> n])
  /\ calls' = [calls EXCEPT ![f] = NoRequest]
  /\ stale' = stale \ {f}
  /\ UNCHANGED raced

\* Faulty variant of FetchThrows: the page moves on although nothing came.
FetchThrowsAndSkips(f) ==
  /\ f \in Running
  /\ state' = [state EXCEPT !.page = @ + 1]
  /\ calls' = [calls EXCEPT ![f] = NoRequest]
  /\ stale' = stale \ {f}
  /\ UNCHANGED <<log, raced>>

\* The awaited call threw: the catch block of fetchMoviesOrTVShows is empty.
FetchThrows(f) ==
  /\ f \in Running
  /\ calls' = [calls EXCEPT ![f] = NoRequest]
  /\ stale' = stale \ {f}
  /\ UNCHANGED <<state, log, raced>>

Answer(f) == FetchThrows(f) \/ \E n \in 0..PageSize : FetchReturns(f, n)

Next ==
  \E f \in Fetches :
    \/ fetchMoviesOrTVShows(f)
    \/ \E category \in Offered : updateSearchCategory(f, category)
    \/ \E text \in SearchTexts : updateSearchText(f, text)
    \/ Answer(f)

Spec == Init /\ [][Next]_vars

-----------------------------------------------------------------------------
(* Properties. *)

\* Type invariant of the notifier's state, the running fetches and the history.
TypeOK ==
  /\ state \in MainPageData
  /\ calls \in [Fetches -> Requests \cup {NoRequest}]
  /\ stale \subseteq Running
  /\ log \in Seq([req : Requests, fresh : BOOLEAN, count : Nat])
  /\ raced \in BOOLEAN

\* The request is one that this selection sends, for some page.
Asks(req, d) == req = RequestFor(d.searchCategory, d.searchText, req.page)

\* The list the page displays and the one it does not (isTVCategory of the page).
Displayed(d) == IF containsTVShows(d.searchCategory) THEN d.tvShows ELSE d.movies
Hidden(d)    == IF containsTVShows(d.searchCategory) THEN d.movies ELSE d.tvShows

ElementsOf(s) == {s[i] : i \in DOMAIN s}

\* The item is one the selection asks for, in the list the page displays.
Belongs(item, d) == Asks(item.req, d) /\ item \in ElementsOf(Displayed(d))

\* The item came in an answer to a fetch begun before the last reset.
CameLate(item) ==
  \E i \in DOMAIN log : log[i].req = item.req /\ ~log[i].fresh

\* Whatever order answers arrive in, a result that the current category and text
\* do not ask for, or that sits in the list not displayed, is there only because
\* the fetch that awaited it began before the last updateSearchText or
\* updateSearchCategory: fetchMoviesOrTVShows reads the selection and dispatches
\* on it in one step, and it is only the append that uses a newer state.
ForeignResultsCameLate ==
  \A item \in ElementsOf(state.movies) \cup ElementsOf(state.tvShows) :
    Belongs(item, state) \/ CameLate(item)

\* Item a precedes item b: on an earlier page, or earlier on the same page.
Precedes(a, b) ==
  \/ a.req.page < b.req.page
  \/ a.req.page = b.req.page /\ a.idx < b.idx

\* When no fetch and no reset began while another fetch was running, the page
\* shows what pagination promises: the answers are those of pages 1, 2, ... of the
\* current selection, each page once and none skipped even if fetches failed and
\* were repeated, all of them in the displayed list, and nothing is there twice.
\* ("Latest Movies" has no pages: every fetch brings the same movie again.)
SerialFetchesPaginate ==
  ~raced =>
    /\ state.page = Len(log) + 1
    /\ \A i \in DOMAIN log :
         log[i].req = RequestFor(state.searchCategory, state.searchText, i)
    /\ Hidden(state) = <<>>
    /\ MethodFor(state.searchCategory, state.searchText) # "getLatestMovie" =>
         \A i, j \in DOMAIN Displayed(state) :
           i < j => Precedes(Displayed(state)[i], Displayed(state)[j])

\* However fetches overlap, page numbers never run ahead of the answers: an answer
\* for the current selection that is the i-th since the reset holds one of the
\* pages 1..i, and a running fetch asks at most for the page after the last
\* answer.  So a page can be skipped only by as many answers as came twice or late.
PageNeverRunsAhead ==
  /\ \A i \in DOMAIN log : log[i].fresh => log[i].req.page <= i
  /\ \A f \in Running \ stale : calls[f].page <= Len(log) + 1

ExtendsList(new, old) ==
  Len(old) <= Len(new) /\ \A i \in 1..Len(old) : new[i] = old[i]

\* An answer, however late, never drops or reorders what the lists hold and
\* lengthens at most one of them (the append reads the state after the await, so
\* of two fetches that overlap neither overwrites the other); it moves the page
\* on by one and leaves the selection alone.  Only a reset empties the lists.
AnswersOnlyExtend ==
  [][ \/ /\ ExtendsList(state'.movies, state.movies)
         /\ ExtendsList(state'.tvShows, state.tvShows)
         /\ state'.movies = state.movies \/ state'.tvShows = state.tvShows
         /\ state'.page = state.page + 1
         /\ state'.searchCategory = state.searchCategory
         /\ state'.searchText = state.searchText
      \/ /\ state' = Reset(state'.searchCategory, state'.searchText)
         /\ Running' \ Running # {} ]_state

-----------------------------------------------------------------------------
(* The controller under a caller who waits for each fetch to end. *)

PatientNext == Next /\ ~raced'

PatientSpec == Init /\ [][PatientNext]_vars

Selections == [category : Offered, text : SearchTexts]

PageOf(selection, n) == RequestFor(selection.category, selection.text, n)

Feed == INSTANCE PagedFeed WITH
          First     <- [category |-> popular, text |-> NoText],
          selection <- [category |-> state.searchCategory, text |-> state.searchText],
          pages     <- [i \in 1..Len(log) |-> log[i].req]

\* For such a caller the controller implements an ideal paginated feed: a new
\* selection empties it, and it grows by exactly the next page of the selection.
ImplementsFeed == Feed!Spec

=============================================================================
