------------------------------ MODULE MainPage ------------------------------
(***************************************************************************)
(* The main page (lib/pages/main_page.dart) over its controller: the       *)
(* search field, the category dropdown, the list with its scroll listener, *)
(* the tiles, the provider of the background poster, and the pages pushed  *)
(* over it.  It is the only caller of the controller.                      *)
(*                                                                         *)
(* User callbacks and answers interleave freely; each is one step of the   *)
(* Dart event loop.  Answers arrive also while another page is on top.     *)
(***************************************************************************)
EXTENDS MainPageDataController

CONSTANTS MaxSeason, MaxEpisode  \* what the dropdowns of a TV show offer

VARIABLES
  textField,  \* the text held by _searchTextFieldController
  poster,     \* selectedMoviePosterURLProvider: the item whose poster is behind
  stack,      \* the pages over the main page (DetailsPages)
  threw       \* history: since the last reset, did a fetch begun after it throw

pageVars == <<vars, textField, poster, stack, threw>>

Details == INSTANCE DetailsPages WITH Item <- Items

ASSUME SeasonsAssumption == Details!SeasonsOffered

NoPoster == [req |-> NoRequest, idx |-> 0]

-----------------------------------------------------------------------------

\* What selectedMoviePosterURLProvider computes from the state it watches.
FirstPoster(d) == IF d.movies # <<>> THEN d.movies[1] ELSE NoPoster

\* Faulty variant of RefreshPoster: the state is read once and not watched.
KeepPoster == poster' = poster

\* A new state of the notifier makes the provider compute its value again, which
\* discards a poster that a tap had put there.
RefreshPoster == poster' = FirstPoster(state')

\* The spinner replaces the list, and the scroll listener with it.
Spinner == Displayed(state) = <<>>

MainOnTop == stack = <<>>

PageInit ==
  /\ Init
  /\ textField = NoText
  /\ poster = FirstPoster(initial)
  /\ Details!Init
  /\ threw = FALSE

\* TextField.onChanged, called when the user's edit changed the text.
OnSearchTextChanged(f, input) ==
  /\ MainOnTop
  /\ input # textField
  /\ textField' = input
  /\ updateSearchText(f, input)
  /\ RefreshPoster
  /\ threw' = FALSE
  /\ UNCHANGED stack

\* Faulty variant of OnCategoryChanged: the field is not cleared.
OnCategoryChangedNoClear(f, value) ==
  /\ MainOnTop
  /\ textField' = textField
  /\ updateSearchCategory(f, value)
  /\ RefreshPoster
  /\ threw' = FALSE
  /\ UNCHANGED stack

\* DropdownButton.onChanged: clear() does not call TextField.onChanged.
OnCategoryChanged(f, value) ==
  /\ MainOnTop
  /\ textField' = NoText
  /\ updateSearchCategory(f, value)
  /\ RefreshPoster
  /\ threw' = FALSE
  /\ UNCHANGED stack

\* A ScrollEndNotification with extentBefore = maxScrollExtent.
OnScrollEnd(f) ==
  /\ MainOnTop
  /\ ~Spinner
  /\ fetchMoviesOrTVShows(f)
  /\ UNCHANGED <<textField, poster, stack, threw>>

\* A tap on the i-th tile sets the background poster and pushes its details.
OnTileTapped(i) ==
  /\ i \in DOMAIN Displayed(state)
  /\ LET item == Displayed(state)[i] IN
       /\ poster' = item
       /\ IF containsTVShows(state.searchCategory)
            THEN Details!OpenTVShow(item)
            ELSE Details!OpenMovie(item)
  /\ UNCHANGED <<vars, textField, threw>>

\* The user acts on a page that covers the main page.
OnCoveringPage ==
  /\ Details!Covered
  /\ UNCHANGED <<vars, textField, poster, threw>>

\* A fetch ends: only a return assigns the state and refreshes the poster.
OnAnswer(f) ==
  /\ \/ /\ \E n \in 0..PageSize : FetchReturns(f, n)
        /\ RefreshPoster
        /\ UNCHANGED threw
     \/ /\ FetchThrows(f)
        /\ threw' = (threw \/ f \notin stale)
        /\ UNCHANGED poster
  /\ UNCHANGED <<textField, stack>>

PageNext ==
  \/ \E f \in Fetches :
       \/ \E input \in SearchTexts : OnSearchTextChanged(f, input)
       \/ \E value \in Offered : OnCategoryChanged(f, value)
       \/ OnScrollEnd(f)
       \/ OnAnswer(f)
  \/ \E i \in 1..Len(Displayed(state)) : OnTileTapped(i)
  \/ OnCoveringPage

PageSpec == PageInit /\ [][PageNext]_pageVars

\* Every request ends: it is answered or the connection fails.  The user is
\* never obliged to act.
FairPageSpec == PageSpec /\ \A f \in Fetches : WF_pageVars(OnAnswer(f))

-----------------------------------------------------------------------------
(* Properties. *)

\* Type invariant of the page; the controller's own is TypeOK.
PageTypeOK ==
  /\ TypeOK
  /\ textField \in SearchTexts
  /\ poster \in Items \cup {NoPoster}
  /\ Details!TypeOK
  /\ threw \in BOOLEAN

\* The search field shows the text the results are for, although the field and
\* the state are two copies changed by different callbacks.
FieldShowsSearch == textField = state.searchText

\* The poster behind the page is that of an item one of the lists still holds,
\* whoever wrote it last: a tap, a reset, or an answer that arrived late.
PosterIsListed ==
  poster # NoPoster =>
    poster \in ElementsOf(state.movies) \cup ElementsOf(state.tvShows)

\* The item whose details are open is still displayed by the page beneath, even
\* though answers keep changing the lists while it is covered.
OpenedItemIsListed ==
  stack # <<>> => stack[1].item \in ElementsOf(Displayed(state))

\* The player plays what the details page below it selects, as DetailsPages states it,
\* for items that come from the lists of the page.
PlayerMatchesDetails == Details!PlayerMatchesDetails

\* The user selects: the lists are emptied and the first page is asked for.
ResetStep == Running' \ Running # {} /\ state'.page = 1

\* An answer for the current selection came and held nothing.
AnsweredEmpty == \E i \in DOMAIN log : log[i].fresh /\ log[i].count = 0

\* Once the user stops selecting, a spinner ends in a list of results, unless the
\* fetch threw or its answer was empty: every selection is followed by a fetch,
\* and an answer for the current selection reaches the list the page displays,
\* whatever late answers for older selections come before it.
SpinnerResolves ==
  <>[][~ResetStep]_pageVars => [](Spinner => <>(~Spinner \/ threw \/ AnsweredEmpty))

\* Errors are handled: after a fetch for the current selection has thrown, the page does
\* not go on showing its spinner with nothing left to load.  The catch block of
\* fetchMoviesOrTVShows is empty and the page knows of no error, so this does not hold.
ErrorsEndTheSpinner == threw /\ Spinner => Running # {}

=============================================================================
