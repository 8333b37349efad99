---------------------------- MODULE DetailsPages ----------------------------
(***************************************************************************)
(* The pages pushed over the main page: the details of a movie or of a TV  *)
(* show (lib/pages/movie_details_page.dart, tv_show_details_page.dart) and *)
(* the player (embed_page.dart).  The Navigator keeps them in a stack,     *)
(* whose last element is the page on top; the main page lies below all of  *)
(* them and is not part of the stack.                                      *)
(***************************************************************************)
EXTENDS Naturals, Sequences

CONSTANTS
  Item,        \* the movies and TV shows that may be opened
  MaxSeason,   \* seasons offered by the dropdown: 1..MaxSeason
  MaxEpisode   \* episodes offered by the dropdown: 1..MaxEpisode

\* What the dropdowns have to offer: their initial selection is 1.
SeasonsOffered == MaxSeason \in Nat \ {0} /\ MaxEpisode \in Nat \ {0}

VARIABLE
  stack  \* the pages over the main page, bottom first

\* The video an EmbedPage plays: its URL names the item and, for a TV show,
\* the season and the episode.  A movie's URL has neither.
MovieUrl(item) == [item |-> item, season |-> 0, episode |-> 0]

constructEmbedUrl(tmdbId, season, episode) ==
  [item |-> tmdbId, season |-> season, episode |-> episode]

Urls == [item : Item, season : 0..MaxSeason, episode : 0..MaxEpisode]

MoviePage(item) == [kind |-> "movie", item |-> item]

\* Faulty variant of TVShowPage: the selection starts from index 0.
TVShowPageFromZero(item) ==
  [kind |-> "tvShow", item |-> item, selectedSeason |-> 0, selectedEpisode |-> 0]

\* TVShowDetailsPageState is created by the push, with its initial selection.
TVShowPage(item) ==
  [kind |-> "tvShow", item |-> item, selectedSeason |-> 1, selectedEpisode |-> 1]

EmbedPage(url) == [kind |-> "embed", embedUrl |-> url]

Pages ==
  [kind : {"movie"}, item : Item]
    \cup [kind : {"tvShow"}, item : Item,
          selectedSeason : 1..MaxSeason, selectedEpisode : 1..MaxEpisode]
    \cup [kind : {"embed"}, embedUrl : Urls]

Top == stack[Len(stack)]

OnTop(kind) == stack # <<>> /\ Top.kind = kind

-----------------------------------------------------------------------------

Init == stack = <<>>

\* Navigator.push from a tile of the main page, which only its top route can do.
OpenMovie(item) == stack = <<>> /\ stack' = <<MoviePage(item)>>

OpenTVShow(item) == stack = <<>> /\ stack' = <<TVShowPage(item)>>

\* onChanged of the two dropdowns, each inside a setState.
SelectSeason(season) ==
  /\ OnTop("tvShow")
  /\ stack' = [stack EXCEPT ![Len(stack)].selectedSeason = season]

SelectEpisode(episode) ==
  /\ OnTop("tvShow")
  /\ stack' = [stack EXCEPT ![Len(stack)].selectedEpisode = episode]

\* A tap on the poster pushes the player.
PlayMovie ==
  /\ OnTop("movie")
  /\ stack' = Append(stack, EmbedPage(MovieUrl(Top.item)))

\* Faulty variant of PlayTVShow: always the first episode of the season.
PlayFirstEpisode ==
  /\ OnTop("tvShow")
  /\ stack' = Append(stack, EmbedPage(
       constructEmbedUrl(Top.item, Top.selectedSeason, 1)))

PlayTVShow ==
  /\ OnTop("tvShow")
  /\ stack' = Append(stack, EmbedPage(
       constructEmbedUrl(Top.item, Top.selectedSeason, Top.selectedEpisode)))

\* The back button of the AppBar or of the system.
Back ==
  /\ stack # <<>>
  /\ stack' = SubSeq(stack, 1, Len(stack) - 1)

\* Every step made on a page that covers the main page.
Covered ==
  \/ \E season \in 1..MaxSeason : SelectSeason(season)
  \/ \E episode \in 1..MaxEpisode : SelectEpisode(episode)
  \/ PlayMovie
  \/ PlayTVShow
  \/ Back

Next ==
  \/ \E item \in Item : OpenMovie(item) \/ OpenTVShow(item)
  \/ Covered

Spec == Init /\ [][Next]_stack

-----------------------------------------------------------------------------
(* Properties. *)

\* Type invariant; it includes what DropdownButton asserts, that the selected
\* season and episode are among the items of their dropdowns.
TypeOK == stack \in Seq(Pages)

\* The player always sits directly on the details page it was opened from, and
\* plays that page's item, at the season and the episode the page has selected
\* now: going back and forth never leaves the player with an older selection.
PlayerMatchesDetails ==
  \A i \in DOMAIN stack : stack[i].kind = "embed" =>
    /\ i = 2
    /\ stack[1].kind \in {"movie", "tvShow"}
    /\ stack[i].embedUrl =
         IF stack[1].kind = "movie"
           THEN MovieUrl(stack[1].item)
           ELSE constructEmbedUrl(stack[1].item, stack[1].selectedSeason,
                                   stack[1].selectedEpisode)

=============================================================================
