---------------------------- MODULE MovieService ----------------------------
(***************************************************************************)
(* One call of MovieService (lib/services/movie_service.dart) through      *)
(* HttpService (http_service.dart): the GET request, what TMDB and Dio     *)
(* answer, the parsing of the answer, and the tiles drawn from it.  The    *)
(* network and TMDB are external: they answer anything of the bounded      *)
(* shapes below, or fail.                                                  *)
(***************************************************************************)
EXTENDS Naturals, Sequences, SearchCategory, Models

CONSTANTS MaxResults  \* bound: most elements in the 'results' of an answer

ASSUME MaxResultsAssumption == MaxResults \in Nat \ {0}

VARIABLES
  pc,      \* where the call is: idle, awaiting, replied, returned, threw, drawn
  method,  \* the method called
  reply,   \* the Response of dio.get
  items,   \* the list the method returns
  tiles    \* what the page draws for it

vars == <<pc, method, reply, items, tiles>>

-----------------------------------------------------------------------------
(* What TMDB serves (external). *)

\* The path each method passes to HttpService.get.
PathOf(m) ==
  CASE m = "getPopularMovies"      -> "/movie/popular"
    [] m = "getUpcomingMovies"     -> "/movie/upcoming"
    [] m = "searchMovies"          -> "/search/movie"
    [] m = "getLatestMovie"        -> "/movie/latest"
    [] m = "getNowPlayingMovies"   -> "/movie/now_playing"
    [] m = "getTopRatedMovies"     -> "/movie/top_rated"
    [] m = "getAiringTodayTVShows" -> "/tv/airing_today"
    [] m = "getOnTheAirTVShows"    -> "/tv/on_the_air"
    [] m = "getPopularTVShows"     -> "/tv/popular"
    [] m = "getTopRatedTVShows"    -> "/tv/top_rated"
    [] m = "searchTVShows"         -> "/search/tv"

\* The paths of TMDB that serve movies.
MoviePaths == {"/movie/popular", "/movie/upcoming", "/search/movie", "/movie/latest",
               "/movie/now_playing", "/movie/top_rated"}

\* The keys of a JSON movie and of a JSON TV show.
KeysAt(path) ==
  IF path \in MoviePaths
    THEN {"id", "title", "original_language", "adult", "overview", "poster_path",
          "backdrop_path", "vote_average", "release_date", "providers"}
    ELSE {"id", "name", "original_name", "original_language", "overview", "poster_path",
          "backdrop_path", "vote_average", "first_air_date", "origin_country"}

\* Values other than a good one: absent or null, an ill-typed one, and the values
\* that the two factories single out.
OddValues(key) ==
  {"null", "bad"} \cup (IF key = "providers" THEN {"notList"} ELSE {})
                  \cup (IF key = "origin_country" THEN {"empty"} ELSE {})

Complete(path) == [key \in KeysAt(path) |-> "ok"]

\* Elements with odd values at the keys k and l.
OddElements(path, k, l) ==
  {[Complete(path) EXCEPT ![k] = v, ![l] = w] : v \in OddValues(k), w \in OddValues(l)}

\* Elements with at most two odd values, one with none that can be read, and an object
\* without any of the keys.
Elements(path) ==
  {[key \in KeysAt(path) |-> v] : v \in {"ok", "bad", "null"}} \cup
  UNION {OddElements(path, k, l) : k \in KeysAt(path), l \in KeysAt(path)}

\* Lists of n results in which at most one element is odd.
ListsOfLength(n, path) ==
  {[i \in 1..n |-> IF i = j THEN e ELSE Complete(path)] : j \in 1..n, e \in Elements(path)}

ResultLists(path) == {<<>>} \cup UNION {ListsOfLength(n, path) : n \in 1..MaxResults}

\* Dio passes on the statuses 200 to 299 and throws on the others.
Statuses == {200, 204}

\* The decoded body: an object with results, a single element, or something else: a
\* value that is no object, text that is no JSON and, of a path that serves a list, an
\* object without results.  To the latest movie every object is an element, if only one
\* of nulls.
Bodies(path) ==
  [kind : {"other"}, results : {<<>>}]
    \cup (IF path = "/movie/latest"
            THEN [kind : {"element"}, results : {<<e>> : e \in Elements(path)}]
            ELSE [kind : {"list"}, results : ResultLists(path)])

NoReply == [status |-> 0, kind |-> "none", results |-> <<>>]

-----------------------------------------------------------------------------

Init ==
  /\ pc = "idle"
  /\ method \in Methods
  /\ reply = NoReply
  /\ items = <<>>
  /\ tiles = <<>>

\* The method calls HttpService.get, which calls dio.get and awaits it.
Get ==
  /\ pc = "idle"
  /\ pc' = "awaiting"
  /\ UNCHANGED <<method, reply, items, tiles>>

\* dio.get throws; HttpService throws in its turn, and so does the method.
DioThrows ==
  /\ pc = "awaiting"
  /\ pc' = "threw"
  /\ UNCHANGED <<method, reply, items, tiles>>

DioReplies ==
  /\ pc = "awaiting"
  /\ \E status \in Statuses, body \in Bodies(PathOf(method)) :
       reply' = [status |-> status, kind |-> body.kind, results |-> body.results]
  /\ pc' = "replied"
  /\ UNCHANGED <<method, items, tiles>>

\* Faulty variant of FromJson: TV shows are read as movies.
FromJsonMovies(m, json) == MovieFromJson(json)

\* The factory that the method maps over the elements.
FromJson(m, json) ==
  IF m \in TVMethods THEN TVShowFromJson(json) ELSE MovieFromJson(json)

\* response.data['results'] as List, or for the latest movie any object, after the test
\* of the status.
Readable(m, r) ==
  IF m = "getLatestMovie" THEN r.status = 200 /\ r.kind = "element" ELSE r.kind = "list"

\* Faulty variant of Parse: elements that cannot be converted are left out.
ParseWhatFits ==
  /\ pc = "replied"
  /\ LET objects == [i \in DOMAIN reply.results |-> FromJson(method, reply.results[i])]
     IN IF Readable(method, reply)
          THEN pc' = "returned" /\ items' = SelectSeq(objects, Constructed)
          ELSE pc' = "threw" /\ UNCHANGED items
  /\ UNCHANGED <<method, reply, tiles>>

\* The rest of the method: every element is converted before any is returned, and
\* whatever throws inside the try is thrown again as an Exception.
Parse ==
  /\ pc = "replied"
  /\ LET objects == [i \in DOMAIN reply.results |-> FromJson(method, reply.results[i])]
     IN IF Readable(method, reply) /\ \A i \in DOMAIN objects : Constructed(objects[i])
          THEN pc' = "returned" /\ items' = objects
          ELSE pc' = "threw" /\ UNCHANGED items
  /\ UNCHANGED <<method, reply, tiles>>

\* The page builds one tile for each item of the displayed list.
Draw ==
  /\ pc = "returned"
  /\ tiles' = [i \in DOMAIN items |->
                 IF method \in TVMethods THEN TVShowTile(items[i]) ELSE MovieTile(items[i])]
  /\ pc' = "drawn"
  /\ UNCHANGED <<method, reply, items>>

Next == Get \/ DioThrows \/ DioReplies \/ Parse \/ Draw

Spec == Init /\ [][Next]_vars

-----------------------------------------------------------------------------
(* Properties. *)

\* A reply with nothing missing is never lost: each of the eleven methods reads
\* the answer of its own path with the factory of the class that path serves, so
\* the call returns and every tile of it can be drawn.
CompleteRepliesAreDrawn ==
  (/\ reply.status = 200
   /\ reply.kind \in {"list", "element"}
   /\ \A i \in DOMAIN reply.results : reply.results[i] = Complete(PathOf(method)))
  => /\ pc # "threw"
     /\ \A i \in DOMAIN tiles : tiles[i].drawn

\* Values the class of this path accepts for a key.
Acceptable(path, json) ==
  \A key \in KeysAt(path) :
    json[key] = "bad" => key = "original_name" /\ json["name"] # "null"

\* The item was made of this element.
Describes(item, json) ==
  /\ item.id = At(json, "id")
  /\ item.language = At(json, "original_language")
  /\ item.posterPath = At(json, "poster_path")
  /\ item.backdropPath = At(json, "backdrop_path")
  /\ item.rating = At(json, "vote_average")

\* A page of results is taken whole or not at all: if the method returns, it
\* returns for each element served the item made of it, in the order served; if it
\* throws after a reply, then the body was unreadable or some element had a value its
\* class does not accept, and that one element costs the caller the whole page.
WholePageOrNothing ==
  /\ pc \in {"returned", "drawn"} =>
       /\ DOMAIN items = DOMAIN reply.results
       /\ \A i \in DOMAIN items : Describes(items[i], reply.results[i])
  /\ (pc = "threw" /\ reply # NoReply) =>
       \/ reply.kind = "other"
       \/ method = "getLatestMovie" /\ reply.status # 200
       \/ \E i \in DOMAIN reply.results :
            ~Acceptable(PathOf(method), reply.results[i])

\* The element has no value for something its tile applies ! to.
Lacks(path, json) ==
  IF path \in MoviePaths
    THEN \E key \in {"title", "vote_average", "original_language", "overview"} :
           At(json, key) = "null"
    ELSE At(json, "name") = "null" /\ At(json, "original_name") = "null"

\* A tile throws while it is built exactly where TMDB served no value for something the
\* tile insists on: a key missed by a factory, a field it cannot do without or a fallback
\* left out would break tiles that were served in full; and the object without any key
\* that getLatestMovie takes for a movie breaks its tile, not the call.
MissingKeysBreakTiles ==
  \A i \in DOMAIN tiles :
    ~tiles[i].drawn <=> Lacks(PathOf(method), reply.results[i])

\* The tile of a TV show says 'N/A' only where TMDB served no rating.
RatingIsShownWhenServed ==
  \A i \in DOMAIN tiles :
    tiles[i].rating = "N/A" => At(reply.results[i], "vote_average") = "null"

=============================================================================
