----------------------------- MODULE AppProofs -----------------------------
(***************************************************************************)
(* Theorems about App, for any set of configuration keys and any number of *)
(* results in an answer: when the first frame fails, and what a call of    *)
(* MovieService makes of the answer it gets.                               *)
(***************************************************************************)
EXTENDS App, SequenceTheorems, TLAPS

-----------------------------------------------------------------------------
(* The start. *)

\* The services are registered, if they can be, before the hand-over, and the hand-over
\* comes before any frame of the app.
StartInv ==
  /\ screen \in {"launching", "mainPage", "errorWidget"} => chain = "done" /\ scope
  /\ chain \in {"initialized", "done"} /\ Start!Valid(config) => "MovieService" \in services
  /\ screen = "errorWidget" => ~Start!Valid(config)

LEMMA Init_Start == AppInit => StartInv
BY DEF AppInit, Start!Init, StartInv

LEMMA StartStep == StartInv /\ [AppNext]_appVars => StartInv'
<1>1. SUFFICES ASSUME StartInv, [AppNext]_appVars PROVE StartInv'
  OBVIOUS
<1>2. UNCHANGED config => (Start!Valid(config)' <=> Start!Valid(config))
  BY DEF Start!Valid
<1>3. CASE UNCHANGED startVars
  BY <1>1, <1>2, <1>3 DEF startVars, StartInv
<1>4. CASE Start!DelayEnds
  BY <1>1, <1>2, <1>4 DEF Start!DelayEnds, StartInv
<1>5. CASE Start!Setup
  BY <1>1, <1>2, <1>5 DEF Start!Setup, Start!Registered, StartInv
<1>6. CASE Start!LaunchApp
  BY <1>1, <1>2, <1>6 DEF Start!LaunchApp, StartInv
<1>7. CASE Start!FirstFrame
  BY <1>1, <1>2, <1>7 DEF Start!FirstFrame, StartInv
<1>8. QED
  BY <1>1, <1>3, <1>4, <1>5, <1>6, <1>7
  DEF AppNext, appVars, startVars, Service, Start!Next, Start!Step, Start!Done, Start!vars

\* The first frame finds MovieService in GetIt unless the configuration is at fault: neither
\* the delay nor the await of _setup lets the hand-over come first.
THEOREM FirstFrameFindsServices == AppSpec => []ErrorOnlyForBadConfig
<1>1. StartInv => ErrorOnlyForBadConfig
  BY DEF StartInv, ErrorOnlyForBadConfig, Start!ErrorOnlyForBadConfig
<1>2. QED BY <1>1, Init_Start, StartStep, PTL DEF AppSpec

-----------------------------------------------------------------------------
(* What TMDB may serve. *)

Values == {"ok", "null", "bad", "notList", "empty"}

\* The methods of TV shows are those whose path serves TV shows.
LEMMA PathKinds ==
  ASSUME NEW m \in Methods
  PROVE  /\ m \in TVMethods <=> PathOf(m) \notin MoviePaths
         /\ m = "getLatestMovie" <=> PathOf(m) = "/movie/latest"
BY DEF Methods, TVMethods, MovieMethods, PathOf, MoviePaths

LEMMA ElementsType ==
  ASSUME NEW path, NEW e \in Elements(path)
  PROVE  e \in [KeysAt(path) -> Values]
<1>1. \A k : OddValues(k) \subseteq Values
  BY DEF OddValues, Values
<1>2. /\ Complete(path) \in [KeysAt(path) -> Values]
      /\ \A v \in {"ok", "bad", "null"} : [key \in KeysAt(path) |-> v] \in [KeysAt(path) -> Values]
  BY DEF Complete, Values
<1>3. ASSUME NEW k \in KeysAt(path), NEW l \in KeysAt(path), NEW v \in OddValues(k), NEW w \in OddValues(l),
             e = [Complete(path) EXCEPT ![k] = v, ![l] = w]
      PROVE  e \in [KeysAt(path) -> Values]
  BY <1>1, <1>2, <1>3
<1>4. CASE e \in {[key \in KeysAt(path) |-> v] : v \in {"ok", "bad", "null"}}
  BY <1>2, <1>4
<1>5. ASSUME NEW k \in KeysAt(path), NEW l \in KeysAt(path), e \in OddElements(path, k, l)
      PROVE  e \in [KeysAt(path) -> Values]
  BY <1>3, <1>5 DEF OddElements
<1>6. QED BY <1>4, <1>5 DEF Elements

\* A list of elements of this path.
ElementList(path, s) ==
  /\ Len(s) \in Nat /\ DOMAIN s = 1 .. Len(s)
  /\ \A i \in DOMAIN s : s[i] \in [KeysAt(path) -> Values]

LEMMA ResultListsType ==
  ASSUME NEW path, NEW s \in ResultLists(path)
  PROVE  ElementList(path, s)
<1>1. Complete(path) \in [KeysAt(path) -> Values]
  BY DEF Complete, Values
<1>2. ASSUME NEW n \in 1 .. MaxResults, NEW j \in 1 .. n, NEW e \in Elements(path),
             s = [i \in 1 .. n |-> IF i = j THEN e ELSE Complete(path)]
      PROVE  ElementList(path, s)
  <2>1. e \in [KeysAt(path) -> Values]
    BY ElementsType
  <2>2. n \in Nat
    BY MaxResultsAssumption
  <2>3. \A i \in 1 .. n : (IF i = j THEN e ELSE Complete(path)) \in [KeysAt(path) -> Values]
    BY <1>1, <2>1
  <2> DEFINE S == [KeysAt(path) -> Values]
  <2>4. s \in [1 .. n -> S]
    BY <1>2, <2>3
  <2> HIDE DEF S
  <2>5. Len(s) = n /\ DOMAIN s = 1 .. n /\ \A i \in 1 .. n : s[i] \in S
    BY <2>2, <2>4
  <2>6. QED BY <2>2, <2>5 DEF ElementList, S
<1>3. s = <<>> => ElementList(path, s)
  BY DEF ElementList
<1>4. ASSUME NEW n \in 1 .. MaxResults, s \in ListsOfLength(n, path) PROVE ElementList(path, s)
  <2>1. PICK j \in 1 .. n, e \in Elements(path) : s = [i \in 1 .. n |-> IF i = j THEN e ELSE Complete(path)]
    BY <1>4 DEF ListsOfLength
  <2>2. QED BY <1>2, <2>1
<1>5. QED BY <1>3, <1>4 DEF ResultLists

\* What a reply to method m looks like.
ReplyTo(m, r) ==
  /\ r.status \in Statuses
  /\ ElementList(PathOf(m), r.results)
  /\ \/ r.kind = "other"
     \/ r.kind = "element" /\ m = "getLatestMovie" /\ Len(r.results) = 1
     \/ r.kind = "list" /\ m # "getLatestMovie"

LEMMA BodiesType ==
  ASSUME NEW m \in Methods, NEW status \in Statuses, NEW body \in Bodies(PathOf(m)), NEW r,
         r = [status |-> status, kind |-> body.kind, results |-> body.results]
  PROVE  ReplyTo(m, r)
<1>1. r.status = status /\ r.kind = body.kind /\ r.results = body.results
  OBVIOUS
<1>2. CASE body \in [kind : {"other"}, results : {<<>>}]
  <2>1. body.kind = "other" /\ body.results = <<>>
    BY <1>2
  <2>2. ElementList(PathOf(m), <<>>)
    BY DEF ElementList
  <2>3. QED BY <1>1, <2>1, <2>2 DEF ReplyTo
<1>3. CASE /\ PathOf(m) = "/movie/latest"
           /\ body \in [kind : {"element"}, results : {<<e>> : e \in Elements(PathOf(m))}]
  <2>1. PICK e \in Elements(PathOf(m)) : body.kind = "element" /\ body.results = <<e>>
    BY <1>3
  <2>2. e \in [KeysAt(PathOf(m)) -> Values]
    BY ElementsType
  <2>3. Len(<<e>>) = 1 /\ DOMAIN <<e>> = 1 .. 1 /\ \A i \in 1 .. 1 : <<e>>[i] = e
    OBVIOUS
  <2>4. ElementList(PathOf(m), <<e>>)
    BY <2>2, <2>3 DEF ElementList
  <2>5. m = "getLatestMovie"
    BY <1>3, PathKinds
  <2>6. QED BY <1>1, <2>1, <2>3, <2>4, <2>5 DEF ReplyTo
<1>4. CASE /\ PathOf(m) # "/movie/latest"
           /\ body \in [kind : {"list"}, results : ResultLists(PathOf(m))]
  <2>1. body.kind = "list" /\ body.results \in ResultLists(PathOf(m))
    BY <1>4
  <2>2. ElementList(PathOf(m), body.results) /\ m # "getLatestMovie"
    BY <1>4, <2>1, ResultListsType, PathKinds
  <2>3. QED BY <1>1, <2>1, <2>2 DEF ReplyTo
<1>5. QED BY <1>2, <1>3, <1>4 DEF Bodies

-----------------------------------------------------------------------------
(* What the factories make of it. *)

\* A factory throws on nothing that its class accepts.
LEMMA MovieAccepts ==
  ASSUME NEW path \in MoviePaths, NEW json \in [KeysAt(path) -> Values], Acceptable(path, json)
  PROVE  Constructed(MovieFromJson(json))
<1>1. KeysAt(path) = {"id", "title", "original_language", "adult", "overview", "poster_path",
                       "backdrop_path", "vote_average", "release_date", "providers"}
  BY DEF KeysAt
<1>2. \A key \in KeysAt(path) : At(json, key) # "bad"
  BY <1>1 DEF At, Acceptable
<1>3. ProvidersOf(json) # "bad"
  BY <1>1, <1>2 DEF ProvidersOf
<1>4. QED BY <1>1, <1>2, <1>3 DEF Constructed, MovieFromJson

LEMMA TVShowAccepts ==
  ASSUME NEW path, path \notin MoviePaths, NEW json \in [KeysAt(path) -> Values], Acceptable(path, json)
  PROVE  Constructed(TVShowFromJson(json))
<1>1. KeysAt(path) = {"id", "name", "original_name", "original_language", "overview", "poster_path",
                       "backdrop_path", "vote_average", "first_air_date", "origin_country"}
  BY DEF KeysAt
<1>2. \A key \in KeysAt(path) : At(json, key) = json[key]
  BY DEF At
<1>3. \A key \in KeysAt(path) \ {"original_name"} : At(json, key) # "bad"
  BY <1>1, <1>2 DEF Acceptable
<1>4. At(json, "name") = "null" => At(json, "original_name") # "bad"
  BY <1>1, <1>2 DEF Acceptable
<1>5. QED BY <1>1, <1>3, <1>4 DEF Constructed, TVShowFromJson, NameOf

LEMMA Accepts ==
  ASSUME NEW m \in Methods, NEW json \in [KeysAt(PathOf(m)) -> Values], Acceptable(PathOf(m), json)
  PROVE  Constructed(FromJson(m, json))
BY PathKinds, MovieAccepts, TVShowAccepts DEF FromJson

\* The item tells what its element was served with.
LEMMA ItemDescribes ==
  ASSUME NEW m, NEW json
  PROVE  Describes(FromJson(m, json), json)
BY DEF Describes, FromJson, MovieFromJson, TVShowFromJson

\* The tile of an item.
Tile(m, object) == IF m \in TVMethods THEN TVShowTile(object) ELSE MovieTile(object)

\* A tile is drawn if and only if its element has what the tile insists on.
LEMMA TileBreaks ==
  ASSUME NEW m \in Methods, NEW json
  PROVE  ~Tile(m, FromJson(m, json)).drawn <=> Lacks(PathOf(m), json)
<1>1. CASE m \in TVMethods
  <2>1. TVShowFromJson(json).name = NameOf(json)
    BY DEF TVShowFromJson
  <2>2. NameOf(json) = "null" <=> At(json, "name") = "null" /\ At(json, "original_name") = "null"
    BY DEF NameOf
  <2>3. ~TVShowTile(TVShowFromJson(json)).drawn <=> NameOf(json) = "null"
    BY <2>1 DEF TVShowTile
  <2>4. QED BY <1>1, <2>2, <2>3, PathKinds DEF Tile, FromJson, Lacks
<1>2. CASE m \notin TVMethods
  <2> DEFINE movie == MovieFromJson(json)
  <2>1. /\ movie.name = At(json, "title") /\ movie.rating = At(json, "vote_average")
        /\ movie.language = At(json, "original_language") /\ movie.description = At(json, "overview")
    BY DEF MovieFromJson
  <2> HIDE DEF movie
  <2>2. (\E fld \in {"name", "rating", "language", "description"} : movie[fld] = "null")
        <=> (\E key \in {"title", "vote_average", "original_language", "overview"} : At(json, key) = "null")
    BY <2>1
  <2>3. ~MovieTile(movie).drawn
        <=> (\E fld \in {"name", "rating", "language", "description"} : movie[fld] = "null")
    BY DEF MovieTile
  <2>4. PathOf(m) \in MoviePaths
    BY <1>2, PathKinds
  <2>5. QED BY <1>2, <2>2, <2>3, <2>4 DEF Tile, FromJson, Lacks, movie
<1>3. QED BY <1>1, <1>2

LEMMA CompleteIsFine ==
  ASSUME NEW m \in Methods
  PROVE  /\ Constructed(FromJson(m, Complete(PathOf(m))))
         /\ ~Lacks(PathOf(m), Complete(PathOf(m)))
<1> DEFINE path == PathOf(m)
           json == Complete(path)
<1>1. json \in [KeysAt(path) -> Values] /\ Acceptable(path, json)
  BY DEF Complete, Values, Acceptable
<1>2. \A key \in KeysAt(path) : At(json, key) = "ok"
  BY DEF At, Complete
<1> HIDE DEF json
<1>3. CASE path \in MoviePaths
  <2>1. {"title", "vote_average", "original_language", "overview"} \subseteq KeysAt(path)
    BY <1>3 DEF KeysAt
  <2>2. ~Lacks(path, json)
    BY <1>2, <1>3, <2>1 DEF Lacks
  <2>3. QED BY <1>1, <2>2, Accepts DEF json
<1>4. CASE path \notin MoviePaths
  <2>1. "name" \in KeysAt(path)
    BY <1>4 DEF KeysAt
  <2>2. ~Lacks(path, json)
    BY <1>2, <1>4, <2>1 DEF Lacks
  <2>3. QED BY <1>1, <2>2, Accepts DEF json
<1>5. QED BY <1>3, <1>4

-----------------------------------------------------------------------------
(* A call. *)

Objects(m, r) == [i \in DOMAIN r.results |-> FromJson(m, r.results[i])]

\* The method gets through its try block.
Parses(m, r) == Readable(m, r) /\ \A i \in DOMAIN Objects(m, r) : Constructed(Objects(m, r)[i])

CallInv ==
  /\ method \in Methods
  /\ pc \in {"idle", "awaiting", "replied", "returned", "threw", "drawn"}
  /\ pc \in {"idle", "awaiting"} => reply = NoReply
  /\ pc \in {"replied", "returned", "drawn"} => ReplyTo(method, reply)
  /\ pc \in {"returned", "drawn"} => Parses(method, reply) /\ items = Objects(method, reply)
  /\ pc = "threw" => reply = NoReply \/ (ReplyTo(method, reply) /\ ~Parses(method, reply))
  /\ pc # "drawn" => tiles = <<>>
  /\ pc = "drawn" => tiles = [i \in DOMAIN items |-> Tile(method, items[i])]

LEMMA Init_Call == AppInit => CallInv
BY DEF AppInit, Init, CallInv

LEMMA CallStep == CallInv /\ [AppNext]_appVars => CallInv'
<1>1. SUFFICES ASSUME CallInv, [AppNext]_appVars PROVE CallInv'
  OBVIOUS
<1>2. CASE UNCHANGED vars
  BY <1>1, <1>2 DEF vars, CallInv
<1>3. CASE Get
  BY <1>1, <1>3 DEF Get, CallInv
<1>4. CASE DioThrows
  BY <1>1, <1>4 DEF DioThrows, CallInv
<1>5. CASE DioReplies
  <2>1. method \in Methods /\ UNCHANGED <<method, items, tiles>> /\ pc' = "replied" /\ tiles = <<>>
    BY <1>1, <1>5 DEF DioReplies, CallInv
  <2>2. ReplyTo(method, reply')
    BY <1>5, <2>1, BodiesType DEF DioReplies
  <2>3. QED BY <2>1, <2>2 DEF CallInv
<1>6. CASE Parse
  <2>1. /\ UNCHANGED <<method, reply, tiles>> /\ pc = "replied"
        /\ \/ Parses(method, reply) /\ pc' = "returned" /\ items' = Objects(method, reply)
           \/ ~Parses(method, reply) /\ pc' = "threw" /\ UNCHANGED items
    BY <1>6 DEF Parse, Parses, Objects
  <2>2. QED BY <1>1, <2>1 DEF CallInv
<1>7. CASE Draw
  BY <1>1, <1>7 DEF Draw, CallInv, Tile
<1>8. QED
  BY <1>1, <1>2, <1>3, <1>4, <1>5, <1>6, <1>7 DEF AppNext, Service, Next, appVars

LEMMA CallInvariance == AppSpec => []CallInv
BY Init_Call, CallStep, PTL DEF AppSpec

\* The tiles of a drawn page, and the elements they stand for.
LEMMA DrawnTiles ==
  ASSUME CallInv, NEW i \in DOMAIN tiles
  PROVE  /\ i \in DOMAIN reply.results
         /\ tiles[i] = Tile(method, FromJson(method, reply.results[i]))
<1>1. CASE pc = "drawn"
  <2>1. items = Objects(method, reply) /\ tiles = [j \in DOMAIN items |-> Tile(method, items[j])]
    BY <1>1 DEF CallInv
  <2>2. QED BY <2>1 DEF Objects
<1>2. CASE pc # "drawn"
  <2>1. tiles = <<>>
    BY <1>2 DEF CallInv
  <2>2. QED BY <2>1
<1>3. QED BY <1>1, <1>2

\* Whatever the network answers, a call returns for each element served the item made of it,
\* in the order served, or it throws; and it throws for no other reason than the body, the
\* status of the latest movie, or an element with a value of a type its class does not accept.
THEOREM AllOrNothing == AppSpec => []WholePageOrNothing
<1>1. CallInv => WholePageOrNothing
  <2>1. SUFFICES ASSUME CallInv PROVE WholePageOrNothing
    OBVIOUS
  <2>2. ASSUME pc \in {"returned", "drawn"}
        PROVE  /\ DOMAIN items = DOMAIN reply.results
               /\ \A i \in DOMAIN items : Describes(items[i], reply.results[i])
    <3>1. items = [i \in DOMAIN reply.results |-> FromJson(method, reply.results[i])]
      BY <2>1, <2>2 DEF CallInv, Objects
    <3>2. DOMAIN items = DOMAIN reply.results
          /\ \A i \in DOMAIN items : items[i] = FromJson(method, reply.results[i])
      BY <3>1
    <3>3. QED BY <3>2, ItemDescribes
  <2>3. ASSUME pc = "threw", reply # NoReply, reply.kind # "other", ~(method = "getLatestMovie" /\ reply.status # 200)
        PROVE  \E i \in DOMAIN reply.results : ~Acceptable(PathOf(method), reply.results[i])
    <3>1. ReplyTo(method, reply) /\ ~Parses(method, reply) /\ method \in Methods
      BY <2>1, <2>3 DEF CallInv
    <3>2. Readable(method, reply)
      BY <2>3, <3>1 DEF ReplyTo, Readable
    <3>3. PICK i \in DOMAIN reply.results : ~Constructed(FromJson(method, reply.results[i]))
      BY <3>1, <3>2 DEF Parses, Objects
    <3>4. reply.results[i] \in [KeysAt(PathOf(method)) -> Values]
      BY <3>1 DEF ReplyTo, ElementList
    <3>5. QED BY <3>1, <3>3, <3>4, Accepts
  <2>4. QED BY <2>2, <2>3 DEF WholePageOrNothing
<1>2. QED BY <1>1, CallInvariance, PTL

\* For every list that TMDB may serve, the tiles that throw are those of the elements without
\* a value their tile insists on, and no others.
THEOREM TilesBreakForMissingKeys == AppSpec => []MissingKeysBreakTiles
<1>1. CallInv => MissingKeysBreakTiles
  <2>1. SUFFICES ASSUME CallInv, NEW i \in DOMAIN tiles
                 PROVE  ~tiles[i].drawn <=> Lacks(PathOf(method), reply.results[i])
    BY DEF MissingKeysBreakTiles
  <2>2. method \in Methods /\ tiles[i] = Tile(method, FromJson(method, reply.results[i]))
    BY <2>1, DrawnTiles DEF CallInv
  <2>3. QED BY <2>2, TileBreaks
<1>2. QED BY <1>1, CallInvariance, PTL

\* An answer in which nothing is missing is never turned away, by none of the eleven methods,
\* and no tile of it throws while it is built.
THEOREM CompleteIsDrawn == AppSpec => []CompleteRepliesAreDrawn
<1>1. CallInv => CompleteRepliesAreDrawn
  <2>1. SUFFICES ASSUME CallInv, reply.status = 200, reply.kind \in {"list", "element"},
                        \A i \in DOMAIN reply.results : reply.results[i] = Complete(PathOf(method))
                 PROVE  pc # "threw" /\ \A i \in DOMAIN tiles : tiles[i].drawn
    BY DEF CompleteRepliesAreDrawn
  <2>2. reply # NoReply /\ method \in Methods
    BY <2>1 DEF NoReply, CallInv
  <2>3. pc # "threw"
    <3>1. SUFFICES ASSUME pc = "threw" PROVE FALSE
      OBVIOUS
    <3>2. ReplyTo(method, reply) /\ ~Parses(method, reply)
      BY <2>1, <2>2, <3>1 DEF CallInv
    <3>3. Readable(method, reply)
      BY <2>1, <3>2 DEF ReplyTo, Readable
    <3>4. \A i \in DOMAIN reply.results : Constructed(FromJson(method, reply.results[i]))
      BY <2>1, <2>2, CompleteIsFine
    <3>5. QED BY <3>2, <3>3, <3>4 DEF Parses, Objects
  <2>4. ASSUME NEW i \in DOMAIN tiles PROVE tiles[i].drawn
    <3>1. i \in DOMAIN reply.results /\ tiles[i] = Tile(method, FromJson(method, reply.results[i]))
      BY <2>1, <2>4, DrawnTiles
    <3>2. ~Lacks(PathOf(method), reply.results[i])
      BY <2>1, <2>2, <3>1, CompleteIsFine
    <3>3. QED BY <2>2, <3>1, <3>2, TileBreaks
  <2>5. QED BY <2>3, <2>4
<1>2. QED BY <1>1, CallInvariance, PTL

=============================================================================
