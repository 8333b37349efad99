--------------------------- MODULE MainPageProofs ---------------------------
(***************************************************************************)
(* Theorems about the main page and its data controller, for any number of *)
(* fetches in flight, any texts, any page size, any bound on the pages and *)
(* any seasons.                                                            *)
(*                                                                         *)
(* The controller first: what its lists may hold however the fetches       *)
(* overlap; and, when they do not, that the lists hold the pages of the    *)
(* current selection in order and the controller implements PagedFeed.     *)
(* Then the page: the copies that it keeps of what the controller knows    *)
(* stay true.                                                              *)
(***************************************************************************)
EXTENDS MainPage, SequenceTheorems, TLAPS

-----------------------------------------------------------------------------
(* The dispatch of a fetch. *)

\* A fetch made under a TV category calls a method that returns TV shows, and any
\* other fetch a method that returns movies, whether it searches or browses.
LEMMA DispatchByKind ==
  ASSUME NEW category \in Categories, NEW text
  PROVE  /\ MethodFor(category, text) \in Methods
         /\ MethodFor(category, text) \in TVMethods <=> containsTVShows(category)
<1>1. /\ BrowseMethod(category) \in Methods
      /\ BrowseMethod(category) \in TVMethods <=> containsTVShows(category)
  <2> USE DEF BrowseMethod, Methods, MovieMethods, TVMethods, containsTVShows,
              TVCategories, popular, upcoming, latest, nowPlaying, topRated,
              tvAiringToday, tvOnTheAir, tvPopular, tvTopRated
  <2>1. CASE category \in MovieCategories
    BY <2>1 DEF MovieCategories
  <2>2. CASE category \in TVCategories
    BY <2>2
  <2>3. QED BY <2>1, <2>2 DEF Categories
<1>2. /\ SearchMethod(category) \in Methods
      /\ SearchMethod(category) \in TVMethods <=> containsTVShows(category)
  BY DEF SearchMethod, Methods, MovieMethods, TVMethods
<1>3. QED BY <1>1, <1>2 DEF MethodFor

\* The requests of the app are well formed and none is NoRequest.
LEMMA RequestForType ==
  ASSUME NEW category \in Offered, NEW text \in SearchTexts, NEW n \in Nat
  PROVE  /\ RequestFor(category, text, n) \in Requests
         /\ RequestFor(category, text, n) # NoRequest
         /\ RequestFor(category, text, n).page <= n
<1>1. MethodFor(category, text) \in Methods
  BY DispatchByKind, OfferedAssumption
<1>2. MethodFor(category, text) # "none"
  BY <1>1 DEF Methods, MovieMethods, TVMethods
<1>3. RequestFor(category, text, n).method # NoRequest.method
  BY <1>2 DEF RequestFor, NoRequest
<1>4. RequestFor(category, text, n) \in Requests
  BY <1>1 DEF RequestFor, Requests
<1>5. RequestFor(category, text, n).page <= n
  BY DEF RequestFor
<1>6. QED BY <1>3, <1>4, <1>5

LEMMA NoRequestIsNone == NoRequest \notin Requests
BY DEF NoRequest, Requests, Methods, MovieMethods, TVMethods

\* An answer is a sequence of items, each known by its request.
LEMMA ResultsType ==
  ASSUME NEW req \in Requests, NEW n \in Nat
  PROVE  /\ Results(req, n) \in Seq(Items)
         /\ Len(Results(req, n)) = n
         /\ \A i \in 1..n : Results(req, n)[i] = [req |-> req, idx |-> i]
<1>1. \A i \in 1..n : [req |-> req, idx |-> i] \in Items
  BY DEF Items
<1>2. QED BY <1>1 DEF Results

-----------------------------------------------------------------------------
(* The steps. *)

\* Both update methods are a reset followed by a fetch, so a step is one of four.
LEMMA StepCases ==
  ASSUME TypeOK, Next
  PROVE  \E f \in Fetches :
           \/ fetchMoviesOrTVShows(f)
           \/ \E category \in Offered, text \in SearchTexts :
                 ResetAndFetch(f, category, text)
           \/ FetchThrows(f)
           \/ \E n \in 0..PageSize : FetchReturns(f, n)
<1>1. PICK f \in Fetches :
        \/ fetchMoviesOrTVShows(f)
        \/ \E category \in Offered : updateSearchCategory(f, category)
        \/ \E text \in SearchTexts : updateSearchText(f, text)
        \/ Answer(f)
  BY DEF Next
<1>2. state.searchCategory \in Offered /\ NoText \in SearchTexts
  BY DEF TypeOK, MainPageData, SearchTexts
<1>3. CASE \E category \in Offered : updateSearchCategory(f, category)
  BY <1>2, <1>3 DEF updateSearchCategory
<1>4. CASE \E text \in SearchTexts : updateSearchText(f, text)
  BY <1>2, <1>4 DEF updateSearchText, updateSearchCategory
<1>5. QED BY <1>1, <1>3, <1>4 DEF Answer

\* A fetch that begins is one more running fetch and changes no other.
LEMMA BeginsOne ==
  ASSUME TypeOK, NEW f \in Fetches, NEW category \in Offered,
         NEW text \in SearchTexts, NEW n \in Nat,
         calls' = [calls EXCEPT ![f] = RequestFor(category, text, n)]
  PROVE  /\ calls' \in [Fetches -> Requests \cup {NoRequest}]
         /\ Running' = Running \cup {f}
         /\ \A g \in Fetches :
              calls'[g] = IF g = f THEN RequestFor(category, text, n) ELSE calls[g]
<1>1. /\ RequestFor(category, text, n) \in Requests
      /\ RequestFor(category, text, n) # NoRequest
  BY RequestForType
<1>2. QED BY <1>1 DEF TypeOK, Running

\* A fetch that ends, with or without results, is one running fetch less.
LEMMA EndsOne ==
  ASSUME TypeOK, NEW f \in Fetches, f \in Running,
         calls' = [calls EXCEPT ![f] = NoRequest]
  PROVE  /\ calls' \in [Fetches -> Requests \cup {NoRequest}]
         /\ Running' = Running \ {f}
         /\ \A g \in Fetches \ {f} : calls'[g] = calls[g]
         /\ calls[f] \in Requests
BY DEF TypeOK, Running

\* Appending a sequence of items keeps what is there and puts the items after it.
LEMMA AppendsItems ==
  ASSUME NEW d \in MainPageData, NEW req \in Requests, NEW results \in Seq(Items)
  PROVE  /\ copyWithAppended(d, req, results) \in MainPageData
         /\ copyWithAppended(d, req, results).movies =
              IF req.method \in TVMethods THEN d.movies ELSE d.movies \o results
         /\ copyWithAppended(d, req, results).tvShows =
              IF req.method \in TVMethods THEN d.tvShows \o results ELSE d.tvShows
         /\ copyWithAppended(d, req, results).page = d.page + 1
         /\ copyWithAppended(d, req, results).searchCategory = d.searchCategory
         /\ copyWithAppended(d, req, results).searchText = d.searchText
<1>1. /\ d.movies \o results \in Seq(Items)
      /\ d.tvShows \o results \in Seq(Items)
  BY DEF MainPageData
<1>2. d.page + 1 \in Nat \ {0}
  BY DEF MainPageData
<1>3. CASE req.method \in TVMethods
  BY <1>1, <1>2, <1>3 DEF copyWithAppended, MainPageData
<1>4. CASE req.method \notin TVMethods
  BY <1>1, <1>2, <1>4 DEF copyWithAppended, MainPageData
<1>5. QED BY <1>3, <1>4

-----------------------------------------------------------------------------
(* Type correctness. *)

LEMMA InitType == Init => TypeOK
<1> SUFFICES ASSUME Init PROVE TypeOK
  OBVIOUS
<1>1. initial \in MainPageData
  BY OfferedAssumption DEF initial, MainPageData, SearchTexts
<1>2. RequestOf(initial) \in Requests
  BY RequestForType, OfferedAssumption DEF RequestOf, initial, SearchTexts
<1>3. calls \in [Fetches -> Requests \cup {NoRequest}]
  BY <1>2 DEF Init
<1>4. log \in Seq([req : Requests, fresh : BOOLEAN, count : Nat])
  BY EmptySeq DEF Init
<1>5. /\ state \in MainPageData
      /\ stale \subseteq Running
      /\ raced \in BOOLEAN
  BY <1>1 DEF Init
<1>6. QED BY <1>3, <1>4, <1>5 DEF TypeOK

LEMMA FetchType ==
  ASSUME TypeOK, NEW f \in Fetches, fetchMoviesOrTVShows(f)
  PROVE  TypeOK'
<1>1. /\ state.searchCategory \in Offered
      /\ state.searchText \in SearchTexts
      /\ state.page \in Nat
  BY DEF TypeOK, MainPageData
<1>2. /\ calls' \in [Fetches -> Requests \cup {NoRequest}]
      /\ Running' = Running \cup {f}
  BY <1>1, BeginsOne DEF fetchMoviesOrTVShows, BeginFetch, RequestOf
<1>3. QED BY <1>2 DEF fetchMoviesOrTVShows, TypeOK

LEMMA ResetType ==
  ASSUME TypeOK, NEW f \in Fetches, NEW category \in Offered,
         NEW text \in SearchTexts, ResetAndFetch(f, category, text)
  PROVE  TypeOK'
<1>1. state' \in MainPageData
  BY DEF ResetAndFetch, Reset, MainPageData
<1>2. calls' = [calls EXCEPT ![f] = RequestFor(category, text, 1)]
  BY DEF ResetAndFetch, Reset, BeginFetch, RequestOf
<1>3. /\ calls' \in [Fetches -> Requests \cup {NoRequest}]
      /\ Running' = Running \cup {f}
  BY <1>2, BeginsOne
<1>4. QED BY <1>1, <1>3 DEF ResetAndFetch, TypeOK

LEMMA ThrowType ==
  ASSUME TypeOK, NEW f \in Fetches, FetchThrows(f)
  PROVE  TypeOK'
<1>1. /\ calls' \in [Fetches -> Requests \cup {NoRequest}]
      /\ Running' = Running \ {f}
  BY EndsOne DEF FetchThrows
<1>2. QED BY <1>1 DEF FetchThrows, TypeOK

LEMMA ReturnType ==
  ASSUME TypeOK, NEW f \in Fetches, NEW n \in 0..PageSize, FetchReturns(f, n)
  PROVE  TypeOK'
<1>1. /\ calls' \in [Fetches -> Requests \cup {NoRequest}]
      /\ Running' = Running \ {f}
      /\ calls[f] \in Requests
  BY EndsOne DEF FetchReturns
<1>2. n \in Nat
  BY PageSizeAssumption
<1>3. state' \in MainPageData
  BY <1>1, <1>2, ResultsType, AppendsItems DEF FetchReturns, TypeOK
<1>4. [req |-> calls[f], fresh |-> f \notin stale, count |-> n]
        \in [req : Requests, fresh : BOOLEAN, count : Nat]
  BY <1>1, <1>2
<1>5. log' \in Seq([req : Requests, fresh : BOOLEAN, count : Nat])
  BY <1>4, AppendProperties DEF FetchReturns, TypeOK
<1>6. QED BY <1>1, <1>3, <1>5 DEF FetchReturns, TypeOK

LEMMA StepType == TypeOK /\ [Next]_vars => TypeOK'
<1> SUFFICES ASSUME TypeOK, [Next]_vars PROVE TypeOK'
  OBVIOUS
<1>1. CASE Next
  BY <1>1, StepCases, FetchType, ResetType, ThrowType, ReturnType
<1>2. CASE UNCHANGED vars
  BY <1>2 DEF vars, TypeOK, Running
<1>3. QED BY <1>1, <1>2

\* The notifier's state, the running fetches and the history keep their types
\* whatever callers and answers do.
THEOREM TypeCorrect == Spec => []TypeOK
BY InitType, StepType, PTL DEF Spec

-----------------------------------------------------------------------------
(* What the safety properties rest on. *)

\* The page counts the answers since the last reset, late ones included.
PageCountsAnswers == state.page = Len(log) + 1

\* A running fetch begun since the last reset asks for the current selection, and
\* for no page beyond the current one.
FreshCallsAsk ==
  \A f \in Running \ stale :
    Asks(calls[f], state) /\ calls[f].page <= state.page

\* So did every answer to such a fetch.
FreshAnswersAsked ==
  \A i \in DOMAIN log :
    log[i].fresh => Asks(log[i].req, state) /\ log[i].req.page <= i

\* The items of s came in answers recorded in l, to the methods of set M.
CameIn(s, l, M) ==
  \A k \in DOMAIN s :
    s[k].req.method \in M /\ \E i \in DOMAIN l : l[i].req = s[k].req

\* Every listed item came in an answer since the last reset, and sits in the list
\* of its kind.
ListsHoldAnswers ==
  /\ CameIn(state.movies, log, Methods \ TVMethods)
  /\ CameIn(state.tvShows, log, TVMethods)

IInv ==
  /\ TypeOK
  /\ PageCountsAnswers
  /\ FreshCallsAsk
  /\ FreshAnswersAsked
  /\ ListsHoldAnswers

LEMMA RequestAsks ==
  ASSUME NEW category, NEW text, NEW n
  PROVE  RequestFor(category, text, RequestFor(category, text, n).page) =
           RequestFor(category, text, n)
<1>1. CASE MethodFor(category, text) = "getLatestMovie"
  BY <1>1 DEF RequestFor
<1>2. CASE MethodFor(category, text) # "getLatestMovie"
  BY <1>2 DEF RequestFor
<1>3. QED BY <1>1, <1>2

\* An element of a list lengthened by an answer is an old one or one of the answer.
LEMMA OldOrNew ==
  ASSUME NEW s \in Seq(Items), NEW req \in Requests, NEW n \in Nat,
         NEW k \in DOMAIN (s \o Results(req, n))
  PROVE  \/ k \in DOMAIN s /\ (s \o Results(req, n))[k] = s[k]
         \/ /\ k - Len(s) \in 1..n
            /\ (s \o Results(req, n))[k] = [req |-> req, idx |-> k - Len(s)]
<1>1. /\ Results(req, n) \in Seq(Items)
      /\ Len(Results(req, n)) = n
      /\ \A i \in 1..n : Results(req, n)[i] = [req |-> req, idx |-> i]
  BY ResultsType
<1>2. Len(s) \in Nat /\ k \in 1..(Len(s) + n) /\ DOMAIN s = 1..Len(s)
  BY <1>1, ConcatProperties, LenProperties
<1>3. (s \o Results(req, n))[k] =
        IF k <= Len(s) THEN s[k] ELSE Results(req, n)[k - Len(s)]
  BY <1>1, <1>2, ConcatProperties
<1>4. CASE k <= Len(s)
  BY <1>2, <1>3, <1>4
<1>5. CASE ~(k <= Len(s))
  <2>1. k - Len(s) \in 1..n
    BY <1>2, <1>5
  <2>2. QED BY <1>1, <1>3, <1>5, <2>1
<1>6. QED BY <1>4, <1>5

LogEntries == [req : Requests, fresh : BOOLEAN, count : Nat]

\* Recording an answer keeps what is known of the items listed before, and covers
\* the items of the answer.
LEMMA CameInExtends ==
  ASSUME NEW s \in Seq(Items), NEW l \in Seq(LogEntries), NEW e \in LogEntries,
         NEW M, NEW n \in Nat, CameIn(s, l, M)
  PROVE  /\ CameIn(s, Append(l, e), M)
         /\ e.req.method \in M => CameIn(s \o Results(e.req, n), Append(l, e), M)
<1>1. /\ Len(l) \in Nat
      /\ DOMAIN l = 1..Len(l)
      /\ DOMAIN Append(l, e) = 1..(Len(l) + 1)
      /\ \A i \in 1..Len(l) : Append(l, e)[i] = l[i]
      /\ Append(l, e)[Len(l) + 1] = e
  BY AppendProperties, LenProperties
<1>2. CameIn(s, Append(l, e), M)
  BY <1>1 DEF CameIn
<1>3. ASSUME e.req.method \in M
      PROVE  CameIn(s \o Results(e.req, n), Append(l, e), M)
  <2> DEFINE t == s \o Results(e.req, n)
  <2> SUFFICES ASSUME NEW k \in DOMAIN t
               PROVE  /\ t[k].req.method \in M
                      /\ \E i \in DOMAIN Append(l, e) : Append(l, e)[i].req = t[k].req
    BY DEF CameIn
  <2>1. e.req \in Requests
    BY DEF LogEntries
  <2>2. \/ k \in DOMAIN s /\ t[k] = s[k]
        \/ t[k] = [req |-> e.req, idx |-> k - Len(s)]
    BY <2>1, OldOrNew
  <2> HIDE DEF t
  <2>3. CASE k \in DOMAIN s /\ t[k] = s[k]
    BY <1>2, <2>3 DEF CameIn
  <2>4. CASE t[k] = [req |-> e.req, idx |-> k - Len(s)]
    <3>1. t[k].req = e.req
      BY <2>4
    <3>2. Len(l) + 1 \in DOMAIN Append(l, e)
      BY <1>1
    <3>3. QED BY <1>1, <1>3, <3>1, <3>2
  <2>5. QED BY <2>2, <2>3, <2>4
<1>4. QED BY <1>2, <1>3

LEMMA InitInv == Init => IInv
<1> SUFFICES ASSUME Init PROVE IInv
  OBVIOUS
<1>1. TypeOK
  BY InitType
<1>2. PageCountsAnswers
  BY DEF Init, PageCountsAnswers, initial
<1>3. FreshCallsAsk
  <2> SUFFICES ASSUME NEW f \in Running \ stale
               PROVE  Asks(calls[f], state) /\ calls[f].page <= state.page
    BY DEF FreshCallsAsk
  <2>1. calls[f] = RequestOf(initial)
    BY DEF Running, Init
  <2>2. Asks(calls[f], state)
    BY <2>1, RequestAsks DEF Init, Asks, RequestOf
  <2>3. calls[f].page <= state.page
    BY <2>1, RequestForType, OfferedAssumption
    DEF Init, RequestOf, initial, SearchTexts
  <2>4. QED BY <2>2, <2>3
<1>4. FreshAnswersAsked
  BY DEF Init, FreshAnswersAsked
<1>5. ListsHoldAnswers
  BY DEF Init, ListsHoldAnswers, CameIn, initial
<1>6. QED BY <1>1, <1>2, <1>3, <1>4, <1>5 DEF IInv

LEMMA FetchInv ==
  ASSUME IInv, NEW f \in Fetches, fetchMoviesOrTVShows(f)
  PROVE  IInv'
<1>1. TypeOK /\ TypeOK'
  BY FetchType DEF IInv
<1>2. /\ state.searchCategory \in Offered
      /\ state.searchText \in SearchTexts
      /\ state.page \in Nat
  BY <1>1 DEF TypeOK, MainPageData
<1>3. /\ state' = state /\ stale' = stale /\ log' = log
      /\ calls' = [calls EXCEPT ![f] = RequestOf(state)]
  BY DEF fetchMoviesOrTVShows, BeginFetch
<1>4. /\ Running' = Running \cup {f}
      /\ \A g \in Fetches : calls'[g] = IF g = f THEN RequestOf(state) ELSE calls[g]
  BY <1>1, <1>2, <1>3, BeginsOne DEF RequestOf
<1>5. PageCountsAnswers'
  BY <1>3 DEF IInv, PageCountsAnswers
<1>6. FreshCallsAsk'
  <2> SUFFICES ASSUME NEW g \in Running' \ stale'
               PROVE  Asks(calls'[g], state') /\ calls'[g].page <= state'.page
    BY DEF FreshCallsAsk
  <2>1. CASE g = f
    <3>1. Asks(RequestOf(state), state)
      BY RequestAsks DEF Asks, RequestOf
    <3>2. RequestOf(state).page <= state.page
      BY <1>2, RequestForType DEF RequestOf
    <3>3. QED BY <2>1, <3>1, <3>2, <1>3, <1>4
  <2>2. CASE g # f
    <3>1. g \in Running \ stale /\ calls'[g] = calls[g]
      BY <1>3, <1>4, <2>2 DEF Running
    <3>2. QED BY <3>1, <1>3 DEF IInv, FreshCallsAsk
  <2>3. QED BY <2>1, <2>2
<1>7. FreshAnswersAsked'
  BY <1>3 DEF IInv, FreshAnswersAsked, Asks
<1>8. ListsHoldAnswers'
  BY <1>3 DEF IInv, ListsHoldAnswers
<1>9. QED BY <1>1, <1>5, <1>6, <1>7, <1>8 DEF IInv

LEMMA ResetInv ==
  ASSUME IInv, NEW f \in Fetches, NEW category \in Offered,
         NEW text \in SearchTexts, ResetAndFetch(f, category, text)
  PROVE  IInv'
<1>1. TypeOK /\ TypeOK'
  BY ResetType DEF IInv
<1>2. /\ state'.searchCategory = category
      /\ state'.searchText = text
      /\ state'.page = 1
      /\ state'.movies = <<>> /\ state'.tvShows = <<>>
      /\ log' = <<>> /\ stale' = Running
  BY DEF ResetAndFetch, Reset
<1>3. calls' = [calls EXCEPT ![f] = RequestFor(category, text, 1)]
  BY DEF ResetAndFetch, Reset, BeginFetch, RequestOf
<1>4. /\ Running' = Running \cup {f}
      /\ calls'[f] = RequestFor(category, text, 1)
  BY <1>1, <1>3, BeginsOne
<1>5. PageCountsAnswers'
  BY <1>2 DEF PageCountsAnswers
<1>6. FreshCallsAsk'
  <2> SUFFICES ASSUME NEW g \in Running' \ stale'
               PROVE  Asks(calls'[g], state') /\ calls'[g].page <= state'.page
    BY DEF FreshCallsAsk
  <2>1. calls'[g] = RequestFor(category, text, 1)
    BY <1>2, <1>4
  <2>2. Asks(calls'[g], state')
    BY <1>2, <2>1, RequestAsks DEF Asks
  <2>3. calls'[g].page <= state'.page
    BY <1>2, <2>1, RequestForType
  <2>4. QED BY <2>2, <2>3
<1>7. FreshAnswersAsked'
  BY <1>2 DEF FreshAnswersAsked
<1>8. ListsHoldAnswers'
  BY <1>2 DEF ListsHoldAnswers, CameIn
<1>9. QED BY <1>1, <1>5, <1>6, <1>7, <1>8 DEF IInv

LEMMA ThrowInv ==
  ASSUME IInv, NEW f \in Fetches, FetchThrows(f)
  PROVE  IInv'
<1>1. TypeOK /\ TypeOK'
  BY ThrowType DEF IInv
<1>2. state' = state /\ log' = log /\ stale' = stale \ {f}
  BY DEF FetchThrows
<1>3. /\ Running' = Running \ {f}
      /\ \A g \in Fetches \ {f} : calls'[g] = calls[g]
  BY <1>1, EndsOne DEF FetchThrows
<1>4. FreshCallsAsk'
  <2> SUFFICES ASSUME NEW g \in Running' \ stale'
               PROVE  Asks(calls'[g], state') /\ calls'[g].page <= state'.page
    BY DEF FreshCallsAsk
  <2>1. g \in Running \ stale /\ calls'[g] = calls[g]
    BY <1>2, <1>3 DEF Running
  <2>2. QED BY <2>1, <1>2 DEF IInv, FreshCallsAsk
<1>5. (PageCountsAnswers /\ FreshAnswersAsked /\ ListsHoldAnswers)'
  BY <1>2 DEF IInv, PageCountsAnswers, FreshAnswersAsked, Asks, ListsHoldAnswers
<1>6. QED BY <1>1, <1>4, <1>5 DEF IInv

LEMMA ReturnInv ==
  ASSUME IInv, NEW f \in Fetches, NEW n \in 0..PageSize, FetchReturns(f, n)
  PROVE  IInv'
<1> DEFINE req == calls[f]
           entry == [req |-> req, fresh |-> f \notin stale, count |-> n]
           results == Results(req, n)
<1>1. TypeOK /\ TypeOK'
  BY ReturnType DEF IInv
<1>2. /\ Running' = Running \ {f}
      /\ \A g \in Fetches \ {f} : calls'[g] = calls[g]
      /\ req \in Requests
      /\ f \in Running
      /\ stale' = stale \ {f}
  BY <1>1, EndsOne DEF FetchReturns
<1>3. /\ results \in Seq(Items)
      /\ Len(results) = n
      /\ \A i \in 1..n : results[i] = [req |-> req, idx |-> i]
      /\ n \in Nat
  BY <1>2, ResultsType, PageSizeAssumption
<1>4. /\ state'.movies = IF req.method \in TVMethods
                            THEN state.movies ELSE state.movies \o results
      /\ state'.tvShows = IF req.method \in TVMethods
                            THEN state.tvShows \o results ELSE state.tvShows
      /\ state'.page = state.page + 1
      /\ state'.searchCategory = state.searchCategory
      /\ state'.searchText = state.searchText
  BY <1>1, <1>2, <1>3, AppendsItems DEF FetchReturns, TypeOK
<1>5. /\ Len(log) \in Nat
      /\ Len(log') = Len(log) + 1
      /\ DOMAIN log = 1..Len(log)
      /\ DOMAIN log' = 1..(Len(log) + 1)
      /\ \A i \in 1..Len(log) : log'[i] = log[i]
      /\ log'[Len(log) + 1] = entry
  BY <1>1, AppendProperties, LenProperties DEF FetchReturns, TypeOK
<1>6. PageCountsAnswers'
  BY <1>4, <1>5 DEF IInv, PageCountsAnswers
<1>7. state.page \in Nat
  BY <1>1 DEF TypeOK, MainPageData
<1>8. FreshCallsAsk'
  <2> SUFFICES ASSUME NEW g \in Running' \ stale'
               PROVE  Asks(calls'[g], state') /\ calls'[g].page <= state'.page
    BY DEF FreshCallsAsk
  <2>1. g \in Running \ stale /\ calls'[g] = calls[g]
    BY <1>2 DEF Running
  <2>2. Asks(calls[g], state) /\ calls[g].page <= state.page
    BY <2>1 DEF IInv, FreshCallsAsk
  <2>3. calls[g].page \in Nat
    BY <1>1, <2>1 DEF TypeOK, Running, Requests
  <2>4. QED BY <1>4, <1>7, <2>1, <2>2, <2>3 DEF Asks
<1>9. FreshAnswersAsked'
  <2> SUFFICES ASSUME NEW i \in DOMAIN log', log'[i].fresh
               PROVE  Asks(log'[i].req, state') /\ log'[i].req.page <= i
    BY DEF FreshAnswersAsked
  <2>1. CASE i \in 1..Len(log)
    BY <1>4, <1>5, <2>1 DEF IInv, FreshAnswersAsked, Asks
  <2>2. CASE i = Len(log) + 1
    <3>1. f \in Running \ stale /\ log'[i].req = req
      <4>1. log'[i] = entry
        BY <1>5, <2>2
      <4>2. entry.fresh = (f \notin stale) /\ entry.req = req
        BY Zenon
      <4>3. QED BY <1>2, <4>1, <4>2, Zenon
    <3>2. Asks(req, state) /\ req.page <= state.page
      BY <3>1 DEF IInv, FreshCallsAsk
    <3>3. QED BY <1>4, <2>2, <3>1, <3>2 DEF IInv, PageCountsAnswers, Asks
  <2>3. QED BY <1>5, <2>1, <2>2
<1>10. ListsHoldAnswers'
  <2>1. /\ state.movies \in Seq(Items) /\ state.tvShows \in Seq(Items)
        /\ log \in Seq(LogEntries) /\ entry \in LogEntries /\ entry.req = req
        /\ log' = Append(log, entry)
        /\ req.method \in Methods
    BY <1>1, <1>2, <1>3 DEF TypeOK, MainPageData, LogEntries, FetchReturns, Requests
  <2>2. CameIn(state'.movies, log', Methods \ TVMethods)
    <3> HIDE DEF entry
    <3>1. CameIn(state.movies, log, Methods \ TVMethods)
      BY DEF IInv, ListsHoldAnswers
    <3>2. QED BY <1>3, <1>4, <2>1, <3>1, CameInExtends
  <2>3. CameIn(state'.tvShows, log', TVMethods)
    <3> HIDE DEF entry
    <3>1. CameIn(state.tvShows, log, TVMethods)
      BY DEF IInv, ListsHoldAnswers
    <3>2. QED BY <1>3, <1>4, <2>1, <3>1, CameInExtends
  <2>4. QED BY <2>2, <2>3 DEF ListsHoldAnswers
<1>11. QED BY <1>1, <1>6, <1>8, <1>9, <1>10 DEF IInv

LEMMA StepInv == IInv /\ [Next]_vars => IInv'
<1> SUFFICES ASSUME IInv, [Next]_vars PROVE IInv'
  OBVIOUS
<1>1. CASE Next
  <2>1. TypeOK
    BY DEF IInv
  <2>2. QED BY <1>1, <2>1, StepCases, FetchInv, ResetInv, ThrowInv, ReturnInv
<1>2. CASE UNCHANGED vars
  <2>1. TypeOK'
    BY <1>2, StepType DEF IInv
  <2>2. QED BY <1>2, <2>1 DEF vars, IInv, PageCountsAnswers, FreshCallsAsk,
              FreshAnswersAsked, ListsHoldAnswers, Asks, Running
<1>3. QED BY <1>1, <1>2

LEMMA Invariance == Spec => []IInv
BY InitInv, StepInv, PTL DEF Spec

\* A result in the lists that the current category and text do not ask for, or
\* that sits in the list not displayed, came in the answer to a fetch begun before
\* the last updateSearchText or updateSearchCategory.
THEOREM ForeignResults == Spec => []ForeignResultsCameLate
<1>1. IInv => ForeignResultsCameLate
  <2> SUFFICES ASSUME IInv,
                      NEW item \in ElementsOf(state.movies) \cup ElementsOf(state.tvShows),
                      ~CameLate(item)
               PROVE  Belongs(item, state)
    BY DEF ForeignResultsCameLate
  <2>1. \/ /\ item \in ElementsOf(state.movies)
           /\ item.req.method \notin TVMethods
        \/ /\ item \in ElementsOf(state.tvShows)
           /\ item.req.method \in TVMethods
    BY DEF IInv, ListsHoldAnswers, CameIn, ElementsOf
  <2>2. PICK i \in DOMAIN log : log[i].req = item.req
    BY DEF IInv, ListsHoldAnswers, CameIn, ElementsOf
  <2>3. log[i].fresh
    BY <2>2 DEF CameLate
  <2>4. Asks(item.req, state)
    BY <2>2, <2>3 DEF IInv, FreshAnswersAsked
  <2>5. item.req.method = MethodFor(state.searchCategory, state.searchText)
    BY <2>4 DEF Asks, RequestFor
  <2>6. state.searchCategory \in Categories
    BY OfferedAssumption DEF IInv, TypeOK, MainPageData
  <2>7. item \in ElementsOf(Displayed(state))
    BY <2>1, <2>5, <2>6, DispatchByKind DEF Displayed
  <2>8. QED BY <2>4, <2>7 DEF Belongs
<1>2. QED BY <1>1, Invariance, PTL

\* However fetches overlap, no answer for the current selection and no running
\* fetch is for a page beyond the number of answers since the last reset.
THEOREM PagesNeverRunAhead == Spec => []PageNeverRunsAhead
<1>1. IInv => PageNeverRunsAhead
  BY DEF IInv, PageCountsAnswers, FreshCallsAsk, FreshAnswersAsked, PageNeverRunsAhead
<1>2. QED BY <1>1, Invariance, PTL

\* An answer only lengthens the list of its kind; the lists are emptied by an
\* update alone, which begins a fetch in the same step.
THEOREM OnlyExtended == Spec => AnswersOnlyExtend
<1> DEFINE Extension ==
             /\ ExtendsList(state'.movies, state.movies)
             /\ ExtendsList(state'.tvShows, state.tvShows)
             /\ state'.movies = state.movies \/ state'.tvShows = state.tvShows
             /\ state'.page = state.page + 1
             /\ state'.searchCategory = state.searchCategory
             /\ state'.searchText = state.searchText
           Emptied ==
             /\ state' = Reset(state'.searchCategory, state'.searchText)
             /\ Running' \ Running # {}
<1>1. TypeOK /\ [Next]_vars => [Extension \/ Emptied]_state
  <2> SUFFICES ASSUME TypeOK, Next, state' # state
               PROVE  Extension \/ Emptied
    BY DEF vars
  <2>1. PICK f \in Fetches :
          \/ fetchMoviesOrTVShows(f)
          \/ \E category \in Offered, text \in SearchTexts :
                ResetAndFetch(f, category, text)
          \/ FetchThrows(f)
          \/ \E n \in 0..PageSize : FetchReturns(f, n)
    BY StepCases
  <2>2. ASSUME NEW category \in Offered, NEW text \in SearchTexts,
               ResetAndFetch(f, category, text)
        PROVE  Emptied
    <3>1. calls' = [calls EXCEPT ![f] = RequestFor(category, text, 1)]
      BY <2>2 DEF ResetAndFetch, Reset, BeginFetch, RequestOf
    <3>2. f \in Running' \ Running
      <4>1. Running' = Running \cup {f}
        BY <3>1, BeginsOne
      <4>2. f \notin Running
        BY <2>2 DEF ResetAndFetch, BeginFetch
      <4>3. QED BY <4>1, <4>2
    <3>3. state' = Reset(state'.searchCategory, state'.searchText)
      BY <2>2 DEF ResetAndFetch, Reset
    <3>4. QED BY <3>2, <3>3
  <2>3. ASSUME NEW n \in 0..PageSize, FetchReturns(f, n)
        PROVE  Extension
    <3>1. calls[f] \in Requests
      BY <2>3, EndsOne DEF FetchReturns
    <3>2. Results(calls[f], n) \in Seq(Items)
      BY <3>1, ResultsType, PageSizeAssumption
    <3>3. /\ state \in MainPageData
          /\ state.movies \in Seq(Items)
          /\ state.tvShows \in Seq(Items)
      BY DEF TypeOK, MainPageData
    <3>4. \A s \in Seq(Items) :
            ExtendsList(s, s) /\ ExtendsList(s \o Results(calls[f], n), s)
      BY <3>2, ConcatProperties DEF ExtendsList
    <3>5. state' = copyWithAppended(state, calls[f], Results(calls[f], n))
      BY <2>3 DEF FetchReturns
    <3>6. QED BY <3>1, <3>2, <3>3, <3>4, <3>5, AppendsItems
  <2>4. QED BY <2>1, <2>2, <2>3 DEF fetchMoviesOrTVShows, FetchThrows
<1>2. QED BY <1>1, TypeCorrect, PTL DEF Spec, AnswersOnlyExtend

-----------------------------------------------------------------------------
(* What the serial properties rest on. *)

\* The items of s are in order and come from pages before page p.
Ordered(s, p) ==
  /\ \A i \in DOMAIN s : s[i].req.page < p
  /\ \A i, j \in DOMAIN s : i < j => Precedes(s[i], s[j])

SelectedMethod == MethodFor(state.searchCategory, state.searchText)

\* The only fetch that may be running asks for the current page of the selection.
OneCurrentCall ==
  /\ stale = {}
  /\ \A f, g \in Running : f = g
  /\ \A f \in Running : calls[f] = RequestOf(state)

PagesInOrder ==
  \A i \in DOMAIN log :
    log[i].req = RequestFor(state.searchCategory, state.searchText, i)

ListsInOrder ==
  /\ Hidden(state) = <<>>
  /\ SelectedMethod # "getLatestMovie" => Ordered(Displayed(state), state.page)

SerialInv == ~raced => OneCurrentCall /\ PagesInOrder /\ ListsInOrder

\* Appending page p to items of earlier pages keeps them in order.
LEMMA OrderedExtends ==
  ASSUME NEW s \in Seq(Items), NEW req \in Requests, NEW n \in Nat,
         Ordered(s, req.page)
  PROVE  Ordered(s \o Results(req, n), req.page + 1)
<1> DEFINE t == s \o Results(req, n)
<1>1. req.page \in Nat /\ Len(s) \in Nat /\ DOMAIN s = 1..Len(s)
  BY LenProperties DEF Requests
<1>2. /\ Results(req, n) \in Seq(Items)
      /\ Len(Results(req, n)) = n
      /\ \A i \in 1..n : Results(req, n)[i] = [req |-> req, idx |-> i]
  BY ResultsType
<1>3. DOMAIN t = 1..(Len(s) + n)
  <2>1. t \in Seq(Items) /\ Len(t) = Len(s) + n
    BY <1>2, ConcatProperties
  <2>2. QED BY <2>1, LenProperties
<1>4. ASSUME NEW k \in DOMAIN t, k <= Len(s)
      PROVE  t[k] = s[k] /\ k \in DOMAIN s
  BY <1>1, <1>2, <1>3, <1>4, ConcatProperties
<1>5. ASSUME NEW k \in DOMAIN t, ~(k <= Len(s))
      PROVE  t[k].req = req /\ t[k].idx = k - Len(s)
  <2>1. k - Len(s) \in 1..n
    BY <1>1, <1>3, <1>5
  <2>2. t[k] = Results(req, n)[k - Len(s)]
    BY <1>1, <1>2, <1>3, <1>5, ConcatProperties
  <2>3. t[k] = [req |-> req, idx |-> k - Len(s)]
    BY <1>2, <2>1, <2>2
  <2>4. QED BY <2>3
<1> HIDE DEF t
<1>6. \A k \in DOMAIN s : s[k].req.page \in Nat /\ s[k].req.page < req.page
  <2>1. \A k \in DOMAIN s : s[k] \in Items
    BY <1>1, ElementOfSeq
  <2>2. QED BY <2>1 DEF Ordered, Items, Requests
<1>7. \A k \in DOMAIN t : t[k].req.page < req.page + 1
  <2> SUFFICES ASSUME NEW k \in DOMAIN t PROVE t[k].req.page < req.page + 1
    OBVIOUS
  <2>1. CASE k <= Len(s)
    BY <1>1, <1>4, <1>6, <2>1
  <2>2. CASE ~(k <= Len(s))
    BY <1>1, <1>5, <2>2
  <2>3. QED BY <2>1, <2>2
<1>8. ASSUME NEW i \in DOMAIN t, NEW j \in DOMAIN t, i < j
      PROVE  Precedes(t[i], t[j])
  <2>1. CASE j <= Len(s)
    <3>1. i <= Len(s)
      BY <1>1, <1>3, <1>8, <2>1
    <3>2. QED BY <1>4, <1>8, <2>1, <3>1 DEF Ordered
  <2>2. CASE i <= Len(s) /\ ~(j <= Len(s))
    BY <1>4, <1>5, <1>6, <2>2 DEF Precedes
  <2>3. CASE ~(i <= Len(s)) /\ ~(j <= Len(s))
    BY <1>1, <1>3, <1>5, <1>8, <2>3 DEF Precedes
  <2>4. QED
    BY <1>1, <1>3, <1>8, <2>1, <2>2, <2>3
<1>9. QED BY <1>7, <1>8 DEF Ordered, t

-----------------------------------------------------------------------------
(* The steps. *)

LEMMA InitSerial == Init => SerialInv
<1> SUFFICES ASSUME Init PROVE OneCurrentCall /\ PagesInOrder /\ ListsInOrder
  BY DEF SerialInv
<1>1. OneCurrentCall
  BY DEF Init, OneCurrentCall, Running
<1>2. PagesInOrder
  BY DEF Init, PagesInOrder
<1>3. ListsInOrder
  BY DEF Init, ListsInOrder, Hidden, Displayed, Ordered, initial
<1>4. QED BY <1>1, <1>2, <1>3

LEMMA FetchSerial ==
  ASSUME TypeOK, SerialInv, NEW f \in Fetches, fetchMoviesOrTVShows(f)
  PROVE  SerialInv'
<1> SUFFICES ASSUME ~raced' PROVE (OneCurrentCall /\ PagesInOrder /\ ListsInOrder)'
  BY DEF SerialInv
<1>1. Running = {} /\ ~raced
  BY DEF fetchMoviesOrTVShows
<1>2. /\ state' = state /\ stale' = stale /\ log' = log
      /\ calls' = [calls EXCEPT ![f] = RequestOf(state)]
  BY DEF fetchMoviesOrTVShows, BeginFetch
<1>3. /\ state.searchCategory \in Offered
      /\ state.searchText \in SearchTexts
      /\ state.page \in Nat
  BY DEF TypeOK, MainPageData
<1>4. Running' = {f} /\ calls'[f] = RequestOf(state)
  BY <1>1, <1>2, <1>3, BeginsOne DEF RequestOf
<1>5. OneCurrentCall'
  BY <1>1, <1>2, <1>4 DEF SerialInv, OneCurrentCall
<1>6. (PagesInOrder /\ ListsInOrder)'
  BY <1>1, <1>2 DEF SerialInv, PagesInOrder, ListsInOrder, Hidden, Displayed,
                    SelectedMethod
<1>7. QED BY <1>5, <1>6

LEMMA ResetSerial ==
  ASSUME TypeOK, NEW f \in Fetches, NEW category \in Offered,
         NEW text \in SearchTexts, ResetAndFetch(f, category, text)
  PROVE  SerialInv'
<1> SUFFICES ASSUME ~raced' PROVE (OneCurrentCall /\ PagesInOrder /\ ListsInOrder)'
  BY DEF SerialInv
<1>1. Running = {} /\ stale' = {}
  BY DEF ResetAndFetch
<1>2. /\ state'.searchCategory = category
      /\ state'.searchText = text
      /\ state'.page = 1
      /\ state'.movies = <<>> /\ state'.tvShows = <<>>
      /\ log' = <<>>
  BY DEF ResetAndFetch, Reset
<1>3. calls' = [calls EXCEPT ![f] = RequestFor(category, text, 1)]
  BY DEF ResetAndFetch, Reset, BeginFetch, RequestOf
<1>4. Running' = {f} /\ calls'[f] = RequestFor(category, text, 1)
  BY <1>1, <1>3, BeginsOne
<1>5. OneCurrentCall'
  BY <1>1, <1>2, <1>4 DEF OneCurrentCall, RequestOf
<1>6. PagesInOrder'
  BY <1>2 DEF PagesInOrder
<1>7. ListsInOrder'
  BY <1>2 DEF ListsInOrder, Hidden, Displayed, Ordered
<1>8. QED BY <1>5, <1>6, <1>7

LEMMA ThrowSerial ==
  ASSUME TypeOK, SerialInv, NEW f \in Fetches, FetchThrows(f)
  PROVE  SerialInv'
<1> SUFFICES ASSUME ~raced' PROVE (OneCurrentCall /\ PagesInOrder /\ ListsInOrder)'
  BY DEF SerialInv
<1>1. /\ state' = state /\ log' = log /\ stale' = stale \ {f}
      /\ ~raced /\ f \in Running
  BY DEF FetchThrows
<1>2. Running' = Running \ {f}
  BY EndsOne DEF FetchThrows
<1>3. OneCurrentCall'
  BY <1>1, <1>2 DEF SerialInv, OneCurrentCall
<1>4. (PagesInOrder /\ ListsInOrder)'
  BY <1>1 DEF SerialInv, PagesInOrder, ListsInOrder, Hidden, Displayed,
              SelectedMethod
<1>5. QED BY <1>3, <1>4

LEMMA ReturnSerial ==
  ASSUME IInv, SerialInv, NEW f \in Fetches, NEW n \in 0..PageSize, FetchReturns(f, n)
  PROVE  SerialInv'
<1> SUFFICES ASSUME ~raced' PROVE (OneCurrentCall /\ PagesInOrder /\ ListsInOrder)'
  BY DEF SerialInv
<1> DEFINE req == calls[f]
<1>1. ~raced /\ f \in Running /\ stale' = stale \ {f} /\ TypeOK /\ n \in Nat
  BY PageSizeAssumption DEF FetchReturns, IInv
<1>2. Running' = Running \ {f} /\ req \in Requests
  BY <1>1, EndsOne DEF FetchReturns
<1>3. OneCurrentCall'
  BY <1>1, <1>2 DEF SerialInv, OneCurrentCall
<1>4. /\ state \in MainPageData
      /\ state.movies \in Seq(Items)
      /\ state.tvShows \in Seq(Items)
      /\ state.page \in Nat
      /\ state.searchCategory \in Categories
  BY <1>1, OfferedAssumption DEF TypeOK, MainPageData
<1>5. Results(req, n) \in Seq(Items)
  BY <1>1, <1>2, ResultsType
<1>6. /\ state'.movies = IF req.method \in TVMethods
                           THEN state.movies ELSE state.movies \o Results(req, n)
      /\ state'.tvShows = IF req.method \in TVMethods
                           THEN state.tvShows \o Results(req, n) ELSE state.tvShows
      /\ state'.page = state.page + 1
      /\ state'.searchCategory = state.searchCategory
      /\ state'.searchText = state.searchText
  BY <1>2, <1>4, <1>5, AppendsItems DEF FetchReturns
<1>7. req = RequestFor(state.searchCategory, state.searchText, state.page)
  BY <1>1 DEF SerialInv, OneCurrentCall, RequestOf
<1>8. PagesInOrder'
  <2>1. /\ Len(log) \in Nat
        /\ DOMAIN log = 1..Len(log)
        /\ DOMAIN log' = 1..(Len(log) + 1)
        /\ \A i \in 1..Len(log) : log'[i] = log[i]
        /\ log'[Len(log) + 1].req = req
    BY <1>1, AppendProperties, LenProperties DEF FetchReturns, TypeOK
  <2>2. state.page = Len(log) + 1
    BY DEF IInv, PageCountsAnswers
  <2>3. QED BY <1>1, <1>6, <1>7, <2>1, <2>2 DEF SerialInv, PagesInOrder
<1>9. ListsInOrder'
  <2>1. /\ req.method = SelectedMethod
        /\ SelectedMethod # "getLatestMovie" => req.page = state.page
    BY <1>7 DEF RequestFor, SelectedMethod
  <2>2. req.method \in TVMethods <=> containsTVShows(state.searchCategory)
    BY <1>4, <2>1, DispatchByKind DEF SelectedMethod
  <2>3. /\ Hidden(state') = Hidden(state)
        /\ Displayed(state') = Displayed(state) \o Results(req, n)
        /\ Displayed(state) \in Seq(Items)
    BY <1>4, <1>6, <2>2 DEF Hidden, Displayed
  <2>4. SelectedMethod # "getLatestMovie" =>
          Ordered(Displayed(state'), state'.page)
    BY <1>1, <1>2, <1>6, <2>1, <2>3, OrderedExtends DEF SerialInv, ListsInOrder
  <2>5. SelectedMethod' = SelectedMethod
    BY <1>6 DEF SelectedMethod
  <2>6. QED BY <1>1, <2>3, <2>4, <2>5 DEF SerialInv, ListsInOrder
<1>10. QED BY <1>3, <1>8, <1>9

LEMMA StepSerial == IInv /\ SerialInv /\ [Next]_vars => SerialInv'
<1> SUFFICES ASSUME IInv, SerialInv, [Next]_vars PROVE SerialInv'
  OBVIOUS
<1>1. TypeOK
  BY DEF IInv
<1>2. CASE Next
  BY <1>1, <1>2, StepCases, FetchSerial, ResetSerial, ThrowSerial, ReturnSerial
<1>3. CASE UNCHANGED vars
  BY <1>3 DEF vars, SerialInv, OneCurrentCall, PagesInOrder, ListsInOrder, Running,
              Hidden, Displayed, SelectedMethod
<1>4. QED BY <1>2, <1>3

\* As long as no fetch and no update begins while another fetch is running, the
\* lists hold pages 1, 2, ... of the current selection: in order, none skipped and
\* none twice, all in the list that the page displays.
THEOREM SerialPagination == Spec => []SerialFetchesPaginate
<1>1. IInv /\ SerialInv => SerialFetchesPaginate
  BY DEF IInv, PageCountsAnswers, SerialInv, PagesInOrder, ListsInOrder, Ordered,
         SelectedMethod, SerialFetchesPaginate
<1>2. QED BY <1>1, InitSerial, StepSerial, Invariance, PTL DEF Spec

-----------------------------------------------------------------------------
(* The refinement. *)

\* The sequence the feed sees.
RequestsOf(l) == [i \in 1..Len(l) |-> l[i].req]

LEMMA RequestsOfAppend ==
  ASSUME NEW l \in Seq(LogEntries), NEW e \in LogEntries
  PROVE  RequestsOf(Append(l, e)) = Append(RequestsOf(l), e.req)
<1>1. /\ Len(l) \in Nat
      /\ DOMAIN l = 1..Len(l)
      /\ Append(l, e) \in Seq(LogEntries)
      /\ Len(Append(l, e)) = Len(l) + 1
      /\ \A i \in 1..Len(l) : Append(l, e)[i] = l[i]
      /\ Append(l, e)[Len(l) + 1] = e
  BY AppendProperties, LenProperties
<1>2. \A i \in 1..Len(l) : l[i].req \in Requests
  <2>1. \A i \in 1..Len(l) : l[i] \in LogEntries
    BY ElementOfSeq
  <2>2. QED BY <2>1 DEF LogEntries
<1>3. RequestsOf(l) \in Seq(Requests) /\ Len(RequestsOf(l)) = Len(l)
  BY <1>1, <1>2 DEF RequestsOf
<1>4. e.req \in Requests
  BY DEF LogEntries
<1>5. /\ Append(RequestsOf(l), e.req) \in Seq(Requests)
      /\ Len(Append(RequestsOf(l), e.req)) = Len(l) + 1
      /\ \A i \in 1..Len(l) : Append(RequestsOf(l), e.req)[i] = l[i].req
      /\ Append(RequestsOf(l), e.req)[Len(l) + 1] = e.req
  BY <1>3, <1>4, AppendProperties DEF RequestsOf
<1>6. /\ Len(RequestsOf(Append(l, e))) = Len(l) + 1
      /\ \A i \in 1..(Len(l) + 1) : RequestsOf(Append(l, e))[i] = Append(l, e)[i].req
      /\ RequestsOf(Append(l, e)) \in Seq(Requests)
  <2>1. \A i \in 1..(Len(l) + 1) : Append(l, e)[i].req \in Requests
    BY <1>1, <1>2, <1>4
  <2>2. QED BY <1>1, <2>1 DEF RequestsOf
<1>7. \A i \in 1..(Len(l) + 1) :
        RequestsOf(Append(l, e))[i] = Append(RequestsOf(l), e.req)[i]
  BY <1>1, <1>5, <1>6
<1>8. QED BY <1>1, <1>5, <1>6, <1>7, SeqEqual

\* For a caller who lets each fetch end before it begins another or selects again,
\* the controller is an ideal paginated feed: an update empties it and starts over,
\* an answer adds exactly the next page of the selection, a failure changes nothing.
THEOREM PatientRefinement == PatientSpec => ImplementsFeed
<1> USE DEF Feed!vars
<1>1. Init => Feed!Init
  <2> SUFFICES ASSUME Init PROVE Feed!Init
    OBVIOUS
  <2>1. RequestsOf(log) = <<>>
    BY DEF Init, RequestsOf
  <2>2. QED BY <2>1 DEF Init, initial, Feed!Init, RequestsOf
<1>2. ASSUME IInv, SerialInv, ~raced, [PatientNext]_vars
      PROVE  [Feed!Next]_(Feed!vars)
  <2>1. CASE UNCHANGED vars
    BY <2>1 DEF vars
  <2>2. CASE PatientNext
    <3>1. TypeOK /\ TypeOK'
      BY <1>2, StepType DEF IInv, PatientNext
    <3>2. PICK f \in Fetches :
            \/ fetchMoviesOrTVShows(f)
            \/ \E category \in Offered, text \in SearchTexts :
                  ResetAndFetch(f, category, text)
            \/ FetchThrows(f)
            \/ \E n \in 0..PageSize : FetchReturns(f, n)
      BY <2>2, <3>1, StepCases DEF PatientNext
    <3>3. CASE fetchMoviesOrTVShows(f) \/ FetchThrows(f)
      BY <3>3 DEF fetchMoviesOrTVShows, FetchThrows
    <3>4. ASSUME NEW category \in Offered, NEW text \in SearchTexts,
                 ResetAndFetch(f, category, text)
          PROVE  Feed!Select
      <4>1. /\ log' = <<>>
            /\ state'.searchCategory = category
            /\ state'.searchText = text
        BY <3>4 DEF ResetAndFetch, Reset
      <4>2. RequestsOf(log') = <<>>
        BY <4>1 DEF RequestsOf
      <4>3. QED BY <4>1, <4>2 DEF Feed!Select, Selections, RequestsOf
    <3>5. ASSUME NEW n \in 0..PageSize, FetchReturns(f, n)
          PROVE  Feed!Grow
      <4> DEFINE e == [req |-> calls[f], fresh |-> f \notin stale, count |-> n]
      <4>1. /\ f \in Running /\ calls[f] \in Requests
            /\ log' = Append(log, e)
            /\ log \in Seq(LogEntries)
        BY <3>1, <3>5, EndsOne DEF FetchReturns, TypeOK, LogEntries
      <4>2. e \in LogEntries /\ e.req = calls[f]
        BY <4>1, PageSizeAssumption DEF LogEntries
      <4>3. RequestsOf(log') = Append(RequestsOf(log), calls[f])
        <5> HIDE DEF e
        <5>1. QED BY <4>1, <4>2, RequestsOfAppend
      <4>4. Len(RequestsOf(log)) = Len(log)
        BY <4>1, LenProperties DEF RequestsOf
      <4>5. calls[f] = RequestFor(state.searchCategory, state.searchText, Len(log) + 1)
        BY <1>2, <4>1 DEF IInv, PageCountsAnswers, SerialInv, OneCurrentCall, RequestOf
      <4>6. /\ state'.searchCategory = state.searchCategory
            /\ state'.searchText = state.searchText
        <5>1. Results(calls[f], n) \in Seq(Items) /\ state \in MainPageData
          BY <3>1, <4>1, ResultsType, PageSizeAssumption DEF TypeOK
        <5>2. QED BY <3>5, <4>1, <5>1, AppendsItems DEF FetchReturns
      <4>7. QED
        BY <4>3, <4>4, <4>5, <4>6 DEF Feed!Grow, PageOf, RequestsOf
    <3>6. QED BY <3>2, <3>3, <3>4, <3>5 DEF Feed!Next
  <2>3. QED BY <1>2, <2>1, <2>2
<1>3. Init => ~raced
  BY DEF Init
<1>4. ~raced /\ [PatientNext]_vars => ~raced'
  BY DEF PatientNext, vars
<1>5. [PatientNext]_vars => [Next]_vars
  BY DEF PatientNext
<1>6. QED
  BY <1>1, <1>2, <1>3, <1>4, <1>5, InitInv, StepInv, InitSerial, StepSerial, PTL
  DEF PatientSpec, ImplementsFeed, Feed!Spec

-----------------------------------------------------------------------------
(* The page. *)

\* The lemmas about the pages over the main page.
DetailsProofs == INSTANCE DetailsPagesProofs WITH Item <- Items

StackShape == DetailsProofs!StackShape

\* These hold together: what is listed only grows while another page is on top, and is
\* emptied only when none is.
PageInv ==
  /\ TypeOK
  /\ FieldShowsSearch
  /\ PosterIsListed
  /\ OpenedItemIsListed
  /\ StackShape

-----------------------------------------------------------------------------
(* The pages over the main page. *)

LEMMA Seasons == DetailsProofs!SeasonsOffered
BY SeasonsAssumption DEF Details!SeasonsOffered, DetailsProofs!SeasonsOffered

\* A step on a covering page keeps the shape, and the item at the bottom.
LEMMA CoveredStep ==
  ASSUME StackShape, Details!Covered
  PROVE  /\ StackShape'
         /\ stack # <<>>
         /\ stack' # <<>> => stack'[1].item = stack[1].item
<1>1. DetailsProofs!Covered
  BY DEF Details!Covered, DetailsProofs!Covered,
         Details!SelectSeason, DetailsProofs!SelectSeason,
         Details!SelectEpisode, DetailsProofs!SelectEpisode,
         Details!PlayMovie, DetailsProofs!PlayMovie,
         Details!PlayTVShow, DetailsProofs!PlayTVShow,
         Details!Back, DetailsProofs!Back, Details!OnTop, DetailsProofs!OnTop,
         Details!Top, DetailsProofs!Top, Details!EmbedPage, DetailsProofs!EmbedPage,
         Details!MovieUrl, DetailsProofs!MovieUrl,
         Details!constructEmbedUrl, DetailsProofs!constructEmbedUrl
<1>2. QED BY <1>1, Seasons, DetailsProofs!CoveredShape DEF StackShape

\* A tile opens the details of its item.
LEMMA OpenStep ==
  ASSUME NEW item \in Items, Details!OpenMovie(item) \/ Details!OpenTVShow(item)
  PROVE  StackShape' /\ stack' # <<>> /\ stack'[1].item = item
<1>1. DetailsProofs!OpenMovie(item) \/ DetailsProofs!OpenTVShow(item)
  BY DEF Details!OpenMovie, DetailsProofs!OpenMovie,
         Details!OpenTVShow, DetailsProofs!OpenTVShow,
         Details!MoviePage, DetailsProofs!MoviePage,
         Details!TVShowPage, DetailsProofs!TVShowPage
<1>2. QED BY <1>1, Seasons, DetailsProofs!OpenShape DEF StackShape

LEMMA SameStack ==
  ASSUME StackShape, UNCHANGED stack
  PROVE  StackShape'
BY DEF StackShape, DetailsProofs!StackShape

-----------------------------------------------------------------------------
(* The lists. *)

LEMMA ListTypes ==
  ASSUME NEW d \in MainPageData
  PROVE  d.movies \in Seq(Items) /\ d.tvShows \in Seq(Items) /\ Displayed(d) \in Seq(Items)
BY DEF MainPageData, Displayed

\* The first poster is one of the list of movies.
LEMMA FirstIsListed ==
  ASSUME NEW d \in MainPageData
  PROVE  FirstPoster(d) # NoPoster => FirstPoster(d) \in ElementsOf(d.movies)
<1> SUFFICES ASSUME d.movies # <<>> PROVE d.movies[1] \in ElementsOf(d.movies)
  BY DEF FirstPoster
<1>1. 1 \in DOMAIN d.movies
  BY ListTypes, EmptySeq, LenProperties
<1>2. QED BY <1>1 DEF ElementsOf

LEMMA ElementsStay ==
  ASSUME NEW s \in Seq(Items), NEW t \in Seq(Items)
  PROVE  ElementsOf(s) \subseteq ElementsOf(s \o t)
<1>1. \A i \in DOMAIN s : i \in DOMAIN (s \o t) /\ (s \o t)[i] = s[i]
  BY ConcatProperties, LenProperties
<1>2. QED BY <1>1 DEF ElementsOf

\* What is displayed stays displayed when an answer arrives.
LEMMA ReturnKeeps ==
  ASSUME TypeOK, NEW f \in Fetches, NEW n \in 0..PageSize, FetchReturns(f, n)
  PROVE  /\ state' \in MainPageData
         /\ ElementsOf(Displayed(state)) \subseteq ElementsOf(Displayed(state'))
         /\ state'.searchText = state.searchText
<1>1. state \in MainPageData /\ calls[f] \in Requests /\ n \in Nat
  BY PageSizeAssumption DEF FetchReturns, TypeOK, Running
<1>2. Results(calls[f], n) \in Seq(Items)
  BY <1>1, ResultsType
<1>3. /\ state' \in MainPageData
      /\ state'.movies = IF calls[f].method \in TVMethods THEN state.movies
                           ELSE state.movies \o Results(calls[f], n)
      /\ state'.tvShows = IF calls[f].method \in TVMethods
                            THEN state.tvShows \o Results(calls[f], n) ELSE state.tvShows
      /\ state'.searchCategory = state.searchCategory
      /\ state'.searchText = state.searchText
  BY <1>1, <1>2, AppendsItems DEF FetchReturns
<1>4. /\ ElementsOf(state.movies) \subseteq ElementsOf(state'.movies)
      /\ ElementsOf(state.tvShows) \subseteq ElementsOf(state'.tvShows)
  <2>1. /\ ElementsOf(state.movies) \subseteq ElementsOf(state.movies \o Results(calls[f], n))
        /\ ElementsOf(state.tvShows) \subseteq ElementsOf(state.tvShows \o Results(calls[f], n))
    BY <1>1, <1>2, ListTypes, ElementsStay
  <2>2. QED BY <1>3, <2>1
<1>5. QED BY <1>3, <1>4 DEF Displayed

-----------------------------------------------------------------------------
(* The steps of the page. *)

LEMMA InitPage == PageInit => PageInv
<1> SUFFICES ASSUME PageInit PROVE PageInv
  OBVIOUS
<1>1. TypeOK
  BY InitType DEF PageInit
<1>2. FieldShowsSearch
  BY DEF PageInit, Init, initial, FieldShowsSearch
<1>3. poster = NoPoster
  BY DEF PageInit, FirstPoster, initial
<1>4. stack = <<>>
  BY DEF PageInit, Details!Init
<1>5. StackShape
  BY <1>4 DEF StackShape, DetailsProofs!StackShape
<1>6. QED BY <1>1, <1>2, <1>3, <1>4, <1>5 DEF PageInv, PosterIsListed, OpenedItemIsListed

\* Both kinds of selection empty the lists and the poster with them, which is right
\* because no page is open.
LEMMA SelectPage ==
  ASSUME PageInv, NEW f \in Fetches, NEW category \in Offered, NEW text \in SearchTexts,
         MainOnTop, ResetAndFetch(f, category, text), textField' = text, RefreshPoster,
         UNCHANGED stack
  PROVE  PageInv'
<1>1. TypeOK'
  BY ResetType DEF PageInv
<1>2. FieldShowsSearch' /\ poster' = NoPoster
  BY DEF ResetAndFetch, Reset, FieldShowsSearch, RefreshPoster, FirstPoster
<1>3. StackShape' /\ stack' = <<>>
  BY SameStack DEF PageInv, MainOnTop
<1>4. PosterIsListed' /\ OpenedItemIsListed'
  BY <1>2, <1>3 DEF PosterIsListed, OpenedItemIsListed
<1>5. QED BY <1>1, <1>2, <1>3, <1>4 DEF PageInv

\* An answer changes the poster to that of the first movie, and keeps what is listed.
LEMMA AnswerPage ==
  ASSUME PageInv, NEW f \in Fetches, OnAnswer(f)
  PROVE  PageInv'
<1>1. StackShape' /\ UNCHANGED <<textField, stack>>
  BY SameStack DEF PageInv, OnAnswer
<1>2. ASSUME NEW n \in 0..PageSize, FetchReturns(f, n), RefreshPoster
      PROVE  PageInv'
  <2>1. TypeOK'
    BY <1>2, ReturnType DEF PageInv
  <2>2. /\ state' \in MainPageData
        /\ ElementsOf(Displayed(state)) \subseteq ElementsOf(Displayed(state'))
        /\ state'.searchText = state.searchText
    BY <1>2, ReturnKeeps DEF PageInv
  <2>3. PosterIsListed'
    BY <1>2, <2>2, FirstIsListed DEF PosterIsListed, RefreshPoster
  <2>4. FieldShowsSearch' /\ OpenedItemIsListed'
    BY <1>1, <2>2 DEF PageInv, FieldShowsSearch, OpenedItemIsListed
  <2>5. QED BY <1>1, <2>1, <2>3, <2>4 DEF PageInv
<1>3. ASSUME FetchThrows(f), UNCHANGED poster
      PROVE  PageInv'
  <2>1. TypeOK' /\ UNCHANGED state
    BY <1>3, ThrowType DEF PageInv, FetchThrows
  <2>2. QED
    BY <1>1, <1>3, <2>1 DEF PageInv, FieldShowsSearch, PosterIsListed, OpenedItemIsListed
<1>4. QED BY <1>2, <1>3 DEF OnAnswer

\* A tap opens an item that is listed and makes its poster the background.
LEMMA TapPage ==
  ASSUME PageInv, NEW i \in 1..Len(Displayed(state)), OnTileTapped(i)
  PROVE  PageInv'
<1> DEFINE item == Displayed(state)[i]
<1>1. item \in Items /\ item \in ElementsOf(Displayed(state))
  BY ListTypes DEF PageInv, TypeOK, OnTileTapped, ElementsOf
<1>2. /\ Details!OpenMovie(item) \/ Details!OpenTVShow(item)
      /\ poster' = item
      /\ UNCHANGED <<vars, textField>>
  BY DEF OnTileTapped
<1> HIDE DEF item
<1>3. StackShape' /\ stack' # <<>> /\ stack'[1].item = item
  BY <1>1, <1>2, OpenStep
<1>4. TypeOK' /\ UNCHANGED state
  BY <1>2, StepType DEF PageInv, vars
<1>5. item \in ElementsOf(state.movies) \cup ElementsOf(state.tvShows)
  BY <1>1 DEF Displayed
<1>6. QED
  BY <1>1, <1>2, <1>3, <1>4, <1>5
     DEF PageInv, FieldShowsSearch, PosterIsListed, OpenedItemIsListed

LEMMA StepPage == PageInv /\ [PageNext]_pageVars => PageInv'
<1> SUFFICES ASSUME PageInv, [PageNext]_pageVars PROVE PageInv'
  OBVIOUS
<1>0. NoText \in SearchTexts /\ state.searchCategory \in Offered
  BY DEF PageInv, TypeOK, MainPageData, SearchTexts
<1>1. ASSUME NEW f \in Fetches, NEW input \in SearchTexts, OnSearchTextChanged(f, input)
      PROVE  PageInv'
  <2>1. ResetAndFetch(f, state.searchCategory, input)
    BY <1>1 DEF OnSearchTextChanged, updateSearchText, updateSearchCategory
  <2>2. QED BY <1>0, <1>1, <2>1, SelectPage DEF OnSearchTextChanged
<1>2. ASSUME NEW f \in Fetches, NEW value \in Offered, OnCategoryChanged(f, value)
      PROVE  PageInv'
  BY <1>0, <1>2, SelectPage DEF OnCategoryChanged, updateSearchCategory
<1>3. ASSUME NEW f \in Fetches, OnScrollEnd(f)
      PROVE  PageInv'
  <2>1. TypeOK' /\ UNCHANGED state
    BY <1>3, FetchType DEF PageInv, OnScrollEnd, fetchMoviesOrTVShows
  <2>2. StackShape' /\ UNCHANGED <<textField, poster, stack>>
    BY <1>3, SameStack DEF PageInv, OnScrollEnd
  <2>3. QED
    BY <2>1, <2>2 DEF PageInv, FieldShowsSearch, PosterIsListed, OpenedItemIsListed
<1>4. ASSUME OnCoveringPage
      PROVE  PageInv'
  <2>1. /\ StackShape'
        /\ stack # <<>>
        /\ stack' # <<>> => stack'[1].item = stack[1].item
    BY <1>4, CoveredStep DEF PageInv, OnCoveringPage
  <2>2. TypeOK' /\ UNCHANGED <<state, textField, poster>>
    BY <1>4, StepType DEF PageInv, OnCoveringPage, vars
  <2>3. QED
    BY <2>1, <2>2 DEF PageInv, FieldShowsSearch, PosterIsListed, OpenedItemIsListed
<1>5. CASE UNCHANGED pageVars
  <2>1. TypeOK' /\ StackShape' /\ UNCHANGED <<state, textField, poster, stack>>
    BY <1>5, StepType, SameStack DEF PageInv, pageVars, vars
  <2>2. QED BY <2>1 DEF PageInv, FieldShowsSearch, PosterIsListed, OpenedItemIsListed
<1>6. QED BY <1>1, <1>2, <1>3, <1>4, <1>5, AnswerPage, TapPage DEF PageNext

LEMMA PageInvariance == PageSpec => []PageInv
BY InitPage, StepPage, PTL DEF PageSpec

LEMMA ThrewType == PageSpec => [](threw \in BOOLEAN)
<1>1. PageInit => threw \in BOOLEAN
  BY DEF PageInit
<1>2. threw \in BOOLEAN /\ [PageNext]_pageVars => (threw \in BOOLEAN)'
  BY DEF PageNext, OnSearchTextChanged, OnCategoryChanged, OnScrollEnd, OnAnswer,
         OnTileTapped, OnCoveringPage, pageVars
<1>3. QED BY <1>1, <1>2, PTL DEF PageSpec

-----------------------------------------------------------------------------
(* Theorems. *)

\* The page is one of the callers that MainPageDataController admits: what is proved of
\* the controller holds under the page.
THEOREM PageCallsController == PageSpec => Spec
<1>1. PageInit => Init
  BY DEF PageInit
<1>2. [PageNext]_pageVars => [Next]_vars
  <2> SUFFICES ASSUME [PageNext]_pageVars PROVE [Next]_vars
    OBVIOUS
  <2>1. ASSUME NEW f \in Fetches, NEW input \in SearchTexts, OnSearchTextChanged(f, input)
        PROVE  Next
    BY <2>1 DEF OnSearchTextChanged, Next
  <2>2. ASSUME NEW f \in Fetches, NEW value \in Offered, OnCategoryChanged(f, value)
        PROVE  Next
    BY <2>2 DEF OnCategoryChanged, Next
  <2>3. ASSUME NEW f \in Fetches, OnScrollEnd(f) \/ OnAnswer(f)
        PROVE  Next
    BY <2>3 DEF OnScrollEnd, OnAnswer, Answer, Next
  <2>4. ASSUME NEW i \in 1..Len(Displayed(state)), OnTileTapped(i)
        PROVE  UNCHANGED vars
    BY <2>4 DEF OnTileTapped
  <2>5. CASE OnCoveringPage \/ UNCHANGED pageVars
    BY <2>5 DEF OnCoveringPage, pageVars
  <2>6. QED BY <2>1, <2>2, <2>3, <2>4, <2>5 DEF PageNext
<1>3. QED BY <1>1, <1>2, PTL DEF PageSpec, Spec

\* The page, its controller and the pages over it keep their types.
THEOREM PageType == PageSpec => []PageTypeOK
<1>1. PageInv /\ threw \in BOOLEAN => PageTypeOK
  <2> SUFFICES ASSUME PageInv, threw \in BOOLEAN PROVE PageTypeOK
    OBVIOUS
  <2>1. state \in MainPageData
    BY DEF PageInv, TypeOK
  <2>2. textField \in SearchTexts
    BY <2>1 DEF PageInv, FieldShowsSearch, MainPageData
  <2>3. poster \in Items \cup {NoPoster}
    <3>1. ElementsOf(state.movies) \cup ElementsOf(state.tvShows) \subseteq Items
      BY <2>1, ListTypes DEF ElementsOf
    <3>2. QED BY <3>1 DEF PageInv, PosterIsListed
  <2>4. Details!TypeOK
    <3>1. DetailsProofs!TypeOK
      BY Seasons, DetailsProofs!ShapeImplies DEF PageInv, StackShape
    <3>2. QED
      BY <3>1 DEF Details!TypeOK, DetailsProofs!TypeOK, Details!Pages, DetailsProofs!Pages,
           Details!Urls, DetailsProofs!Urls
  <2>5. QED BY <2>2, <2>3, <2>4 DEF PageTypeOK, PageInv
<1>2. QED BY <1>1, PageInvariance, ThrewType, PTL

\* The search field and the controller's searchText, changed by different callbacks,
\* never part.
THEOREM FieldShows == PageSpec => []FieldShowsSearch
BY PageInvariance, PTL DEF PageInv

\* The background poster is always that of a listed item, however taps, selections and
\* late answers follow each other.
THEOREM PosterListed == PageSpec => []PosterIsListed
BY PageInvariance, PTL DEF PageInv

\* The item whose details are open stays listed under them while answers arrive.
THEOREM OpenedListed == PageSpec => []OpenedItemIsListed
BY PageInvariance, PTL DEF PageInv

\* The player plays what the details page below it selects, for items that come from
\* the lists.
THEOREM PagePlayerMatches == PageSpec => []PlayerMatchesDetails
<1>1. StackShape => PlayerMatchesDetails
  <2> SUFFICES ASSUME StackShape PROVE PlayerMatchesDetails
    OBVIOUS
  <2>1. DetailsProofs!PlayerMatchesDetails
    BY Seasons, DetailsProofs!ShapeImplies DEF StackShape
  <2>2. QED
    BY <2>1 DEF PlayerMatchesDetails, Details!PlayerMatchesDetails,
         DetailsProofs!PlayerMatchesDetails, Details!MovieUrl, DetailsProofs!MovieUrl,
         Details!constructEmbedUrl, DetailsProofs!constructEmbedUrl
<1>2. QED BY <1>1, PageInvariance, PTL DEF PageInv

=============================================================================
