--------------------------- MODULE SearchCategory ---------------------------
(***************************************************************************)
(* The constants of lib/model/search_category.dart, and what the rest of   *)
(* the app asks of them: which method of MovieService serves a category,   *)
(* which serves a search made under it, and which of the two lists of      *)
(* MainPageData the results of a method belong to.                         *)
(***************************************************************************)

popular       == "Popular Movies"
upcoming      == "Upcoming Movies"
latest        == "Latest Movies"
nowPlaying    == "Now Playing Movies"
topRated      == "Top Rated Movies"
tvAiringToday == "Airing Today TV Shows"
tvOnTheAir    == "On The Air TV Shows"
tvPopular     == "Popular TV Shows"
tvTopRated    == "Top Rated TV Shows"

MovieCategories == {popular, upcoming, latest, nowPlaying, topRated}
TVCategories    == {tvAiringToday, tvOnTheAir, tvPopular, tvTopRated}

\* The items of the dropdown of the main page.  The tenth constant of the
\* class, none = '', is offered nowhere and never stored.
Categories == MovieCategories \cup TVCategories

\* category.contains("TV Shows"): true of the four TV names and of no other.
containsTVShows(category) == category \in TVCategories

-----------------------------------------------------------------------------

MovieMethods == {"searchMovies", "getPopularMovies", "getUpcomingMovies",
                 "getLatestMovie", "getNowPlayingMovies", "getTopRatedMovies"}

TVMethods == {"searchTVShows", "getAiringTodayTVShows", "getOnTheAirTVShows",
              "getPopularTVShows", "getTopRatedTVShows"}

Methods == MovieMethods \cup TVMethods

\* The chain of equality tests fetchMoviesOrTVShows runs when no text is typed.
BrowseMethod(category) ==
  CASE category = popular       -> "getPopularMovies"
    [] category = upcoming      -> "getUpcomingMovies"
    [] category = latest        -> "getLatestMovie"
    [] category = nowPlaying    -> "getNowPlayingMovies"
    [] category = topRated      -> "getTopRatedMovies"
    [] category = tvAiringToday -> "getAiringTodayTVShows"
    [] category = tvOnTheAir    -> "getOnTheAirTVShows"
    [] category = tvPopular     -> "getPopularTVShows"
    [] category = tvTopRated    -> "getTopRatedTVShows"

\* Faulty variant of SearchMethod: the category is not looked at.
SearchMoviesOnly(category) == "searchMovies"

\* A search goes to one of the two search endpoints, by the words of the name.
SearchMethod(category) ==
  IF containsTVShows(category) THEN "searchTVShows" ELSE "searchMovies"

\* The search text when nothing is typed.
NoText == ""

\* The method of MovieService that a fetch made in this state calls.
MethodFor(category, text) ==
  IF text # NoText THEN SearchMethod(category) ELSE BrowseMethod(category)

=============================================================================
