------------------------------- MODULE Models -------------------------------
(***************************************************************************)
(* The classes built from the JSON that TMDB serves (lib/model/movie.dart, *)
(* tv_show.dart, app_provider.dart) and the tiles that draw them           *)
(* (lib/widgets).  Of a JSON value only this matters: whether it is null   *)
(* or absent, has the type the field declares, or has another type, in     *)
(* which case the implicit cast from dynamic throws.                       *)
(***************************************************************************)

\* json[key], which is null for an absent key.
At(json, key) == IF key \in DOMAIN json THEN json[key] ELSE "null"

\* providers: null unless a list; a list is "bad" when Provider.fromJson throws on
\* one of its elements.
ProvidersOf(json) ==
  IF At(json, "providers") = "notList" THEN "null" ELSE At(json, "providers")

MovieFromJson(json) ==
  [id           |-> At(json, "id"),
   name         |-> At(json, "title"),
   language     |-> At(json, "original_language"),
   isAdult      |-> At(json, "adult"),
   description  |-> At(json, "overview"),
   posterPath   |-> At(json, "poster_path"),
   backdropPath |-> At(json, "backdrop_path"),
   rating       |-> At(json, "vote_average"),
   releaseDate  |-> At(json, "release_date"),
   providers    |-> ProvidersOf(json)]

\* Faulty variant of NameOf: without the fallback.
NameAsServed(json) == At(json, "name")

\* json['name'] ?? json['original_name'].
NameOf(json) ==
  IF At(json, "name") = "null" THEN At(json, "original_name") ELSE At(json, "name")

\* origin_country is the first of a list, '' when
\* null or empty, and "bad" when it is no list or does not begin with a string.
\* No line of the constructor call sets voteAverage.
TVShowFromJson(json) ==
  [id            |-> At(json, "id"),
   name          |-> NameOf(json),
   language      |-> At(json, "original_language"),
   overview      |-> At(json, "overview"),
   posterPath    |-> At(json, "poster_path"),
   backdropPath  |-> At(json, "backdrop_path"),
   rating        |-> At(json, "vote_average"),
   firstAirDate  |-> At(json, "first_air_date"),
   originCountry |-> IF At(json, "origin_country") = "bad" THEN "bad" ELSE "ok",
   voteAverage   |-> "null"]

\* A factory throws exactly when one of the casts does.
Constructed(object) == \A fld \in DOMAIN object : object[fld] # "bad"

-----------------------------------------------------------------------------

\* MovieTile.build applies ! to these fields; a null makes the build throw.
MovieTile(movie) ==
  IF \E fld \in {"name", "rating", "language", "description"} : movie[fld] = "null"
    THEN [drawn |-> FALSE, rating |-> "none"]
    ELSE [drawn |-> TRUE, rating |-> "value"]

\* TVShowTile.build applies ! to the name only, and falls back to 'N/A'.
TVShowTile(tvShow) ==
  IF tvShow.name = "null"
    THEN [drawn |-> FALSE, rating |-> "none"]
    ELSE [drawn |-> TRUE,
          rating |-> IF tvShow.voteAverage # "null" THEN "value" ELSE "N/A"]

=============================================================================
