------------------------ MODULE DetailsPagesProofs ------------------------
(***************************************************************************)
(* Theorems about DetailsPages, for any items and any number of seasons    *)
(* and episodes.                                                           *)
(***************************************************************************)
EXTENDS DetailsPages, SequenceTheorems, TLAPS

DetailPages == {page \in Pages : page.kind \in {"movie", "tvShow"}}

\* What a player opened from a details page, as it is now, would play.
UrlOf(page) ==
  IF page.kind = "movie"
    THEN MovieUrl(page.item)
    ELSE constructEmbedUrl(page.item, page.selectedSeason, page.selectedEpisode)

\* The pages over the main page are none, a details page, or a details page and
\* the player it opens.
StackShape ==
  \/ stack = <<>>
  \/ \E page \in DetailPages : stack = <<page>>
  \/ \E page \in DetailPages : stack = <<page, EmbedPage(UrlOf(page))>>

\* The selections of a details page stay within the dropdowns.
LEMMA DetailPagesType ==
  ASSUME SeasonsOffered
  PROVE
  /\ \A item \in Item : MoviePage(item) \in DetailPages /\ TVShowPage(item) \in DetailPages
  /\ \A page \in DetailPages : UrlOf(page) \in Urls /\ EmbedPage(UrlOf(page)) \in Pages
  /\ \A page \in DetailPages : page.kind = "tvShow" =>
       /\ \A season \in 1..MaxSeason :
            [page EXCEPT !.selectedSeason = season] \in DetailPages
       /\ \A episode \in 1..MaxEpisode :
            [page EXCEPT !.selectedEpisode = episode] \in DetailPages
<1> USE DEF SeasonsOffered, Pages, DetailPages
<1>1. \A item \in Item : MoviePage(item) \in DetailPages /\ TVShowPage(item) \in DetailPages
  BY DEF MoviePage, TVShowPage
<1>2. ASSUME NEW page \in DetailPages
      PROVE  UrlOf(page) \in Urls /\ EmbedPage(UrlOf(page)) \in Pages
  BY DEF UrlOf, MovieUrl, constructEmbedUrl, Urls, EmbedPage
<1>3. ASSUME NEW page \in DetailPages, page.kind = "tvShow"
      PROVE  /\ \A season \in 1..MaxSeason :
                  [page EXCEPT !.selectedSeason = season] \in DetailPages
             /\ \A episode \in 1..MaxEpisode :
                  [page EXCEPT !.selectedEpisode = episode] \in DetailPages
  <2>1. page \in [kind : {"tvShow"}, item : Item,
                  selectedSeason : 1..MaxSeason, selectedEpisode : 1..MaxEpisode]
    BY <1>3
  <2>2. QED BY <2>1
<1>4. QED BY <1>1, <1>2, <1>3

\* What the actions see on top of each shape.
LEMMA ShapeCases ==
  ASSUME StackShape, stack # <<>>
  PROVE  \E page \in DetailPages :
           \/ /\ stack = <<page>> /\ Len(stack) = 1 /\ Top = page
           \/ /\ stack = <<page, EmbedPage(UrlOf(page))>> /\ Len(stack) = 2
              /\ Top = EmbedPage(UrlOf(page)) /\ Top.kind = "embed"
<1>1. PICK page \in DetailPages :
        stack = <<page>> \/ stack = <<page, EmbedPage(UrlOf(page))>>
  BY DEF StackShape
<1>2. CASE stack = <<page>>
  BY <1>2 DEF Top
<1>3. CASE stack = <<page, EmbedPage(UrlOf(page))>>
  BY <1>3 DEF Top, EmbedPage
<1>4. QED BY <1>1, <1>2, <1>3

LEMMA PushAndPop ==
  ASSUME NEW a, NEW b
  PROVE  Append(<<a>>, b) = <<a, b>> /\ SubSeq(<<a, b>>, 1, 1) = <<a>>
<1> DEFINE S == {a, b}
           t == <<a, b>>
           u == <<a>>
<1>1. /\ <<a>> \in Seq(S) /\ Len(<<a>>) = 1 /\ <<a>>[1] = a
      /\ t \in Seq(S) /\ Len(t) = 2 /\ t[1] = a /\ t[2] = b
  OBVIOUS
<1>2. Append(<<a>>, b) = t
  <2>1. /\ Append(<<a>>, b) \in Seq(S)
        /\ Len(Append(<<a>>, b)) = 2
        /\ Append(<<a>>, b)[1] = a
        /\ Append(<<a>>, b)[2] = b
    BY <1>1, AppendProperties
  <2>2. \A i \in 1..2 : Append(<<a>>, b)[i] = t[i]
    BY <1>1, <2>1
  <2> HIDE DEF t
  <2>3. QED BY <1>1, <2>1, <2>2, SeqEqual
<1>3. SubSeq(t, 1, 1) = u
  <2>0. u \in Seq(S) /\ Len(u) = 1 /\ u[1] = a
    BY <1>1
  <2> HIDE DEF t, u
  <2>1. /\ SubSeq(t, 1, 1) \in Seq(S)
        /\ Len(SubSeq(t, 1, 1)) = 1
        /\ SubSeq(t, 1, 1)[1] = a
    BY <1>1, SubSeqProperties
  <2>2. \A i \in 1..1 : SubSeq(t, 1, 1)[i] = u[i]
    BY <2>0, <2>1
  <2>3. QED BY <2>0, <2>1, <2>2, SeqEqual
<1>4. QED BY <1>2, <1>3

\* Every step on a covering page keeps the shape, and the item at the bottom.
LEMMA CoveredShape ==
  ASSUME SeasonsOffered, StackShape, Covered
  PROVE  /\ StackShape'
         /\ stack # <<>>
         /\ stack' # <<>> => stack'[1].item = stack[1].item
<1>1. stack # <<>>
  BY DEF Covered, SelectSeason, SelectEpisode, PlayMovie, PlayTVShow, Back, OnTop
<1>2. PICK page \in DetailPages :
           \/ /\ stack = <<page>> /\ Len(stack) = 1 /\ Top = page
           \/ /\ stack = <<page, EmbedPage(UrlOf(page))>> /\ Len(stack) = 2
              /\ Top = EmbedPage(UrlOf(page)) /\ Top.kind = "embed"
  BY <1>1, ShapeCases
<1> DEFINE Goal == StackShape' /\ (stack' # <<>> => stack'[1].item = stack[1].item)
<1>3. ASSUME NEW season \in 1..MaxSeason, SelectSeason(season)
      PROVE  Goal
  <2>1. stack = <<page>> /\ Len(stack) = 1 /\ page.kind = "tvShow"
    BY <1>2, <1>3 DEF SelectSeason, OnTop
  <2>2. stack' = <<[page EXCEPT !.selectedSeason = season]>>
    BY <1>3, <2>1 DEF SelectSeason
  <2>3. [page EXCEPT !.selectedSeason = season] \in DetailPages
    BY <2>1, DetailPagesType
  <2>4. [page EXCEPT !.selectedSeason = season].item = page.item
    OBVIOUS
  <2>5. QED BY <2>1, <2>2, <2>3, <2>4 DEF StackShape
<1>4. ASSUME NEW episode \in 1..MaxEpisode, SelectEpisode(episode)
      PROVE  Goal
  <2>1. stack = <<page>> /\ Len(stack) = 1 /\ page.kind = "tvShow"
    BY <1>2, <1>4 DEF SelectEpisode, OnTop
  <2>2. stack' = <<[page EXCEPT !.selectedEpisode = episode]>>
    BY <1>4, <2>1 DEF SelectEpisode
  <2>3. [page EXCEPT !.selectedEpisode = episode] \in DetailPages
    BY <2>1, DetailPagesType
  <2>4. [page EXCEPT !.selectedEpisode = episode].item = page.item
    OBVIOUS
  <2>5. QED BY <2>1, <2>2, <2>3, <2>4 DEF StackShape
<1>5. ASSUME PlayMovie \/ PlayTVShow
      PROVE  Goal
  <2>1. stack = <<page>> /\ Top = page
    BY <1>2, <1>5 DEF PlayMovie, PlayTVShow, OnTop
  <2>2. stack' = Append(stack, EmbedPage(UrlOf(page)))
    BY <1>5, <2>1 DEF PlayMovie, PlayTVShow, OnTop, UrlOf
  <2>3. stack' = <<page, EmbedPage(UrlOf(page))>>
    BY <2>1, <2>2, PushAndPop
  <2>4. QED BY <2>1, <2>3 DEF StackShape
<1>6. ASSUME Back
      PROVE  Goal
  <2>1. CASE stack = <<page>> /\ Len(stack) = 1
    <3>1. stack' = <<>>
      BY <1>6, <2>1 DEF Back
    <3>2. QED BY <3>1 DEF StackShape
  <2>2. CASE stack = <<page, EmbedPage(UrlOf(page))>> /\ Len(stack) = 2
    <3>1. stack' = <<page>>
      BY <1>6, <2>2, PushAndPop DEF Back
    <3>2. QED BY <2>2, <3>1 DEF StackShape
  <2>3. QED BY <1>2, <2>1, <2>2
<1>7. QED BY <1>1, <1>3, <1>4, <1>5, <1>6 DEF Covered

LEMMA OpenShape ==
  ASSUME SeasonsOffered, NEW item \in Item, OpenMovie(item) \/ OpenTVShow(item)
  PROVE  StackShape' /\ stack' # <<>> /\ stack'[1].item = item
<1>1. PICK page \in {MoviePage(item), TVShowPage(item)} : stack' = <<page>>
  BY DEF OpenMovie, OpenTVShow
<1>2. page \in DetailPages /\ page.item = item
  <2>1. MoviePage(item).item = item /\ TVShowPage(item).item = item
    BY DEF MoviePage, TVShowPage
  <2>2. MoviePage(item) \in DetailPages /\ TVShowPage(item) \in DetailPages
    BY DetailPagesType
  <2>3. QED BY <2>1, <2>2
<1>3. QED BY <1>1, <1>2 DEF StackShape

LEMMA ShapeInvariance ==
  ASSUME SeasonsOffered
  PROVE  Spec => []StackShape
<1>1. Init => StackShape
  BY DEF Init, StackShape
<1>2. StackShape /\ [Next]_stack => StackShape'
  BY CoveredShape, OpenShape DEF Next, StackShape
<1>3. QED BY <1>1, <1>2, PTL DEF Spec

LEMMA ShapeImplies ==
  ASSUME SeasonsOffered, StackShape
  PROVE  TypeOK /\ PlayerMatchesDetails
<1>1. CASE stack = <<>>
  BY <1>1 DEF TypeOK, PlayerMatchesDetails
<1>2. ASSUME NEW page \in DetailPages, stack = <<page>>
      PROVE  TypeOK /\ PlayerMatchesDetails
  BY <1>2 DEF TypeOK, PlayerMatchesDetails, DetailPages
<1>3. ASSUME NEW page \in DetailPages, stack = <<page, EmbedPage(UrlOf(page))>>
      PROVE  TypeOK /\ PlayerMatchesDetails
  <2>1. page \in Pages /\ EmbedPage(UrlOf(page)) \in Pages
    BY DetailPagesType DEF DetailPages
  <2>2. TypeOK
    BY <1>3, <2>1 DEF TypeOK
  <2>3. /\ page.kind \in {"movie", "tvShow"}
        /\ EmbedPage(UrlOf(page)).embedUrl = UrlOf(page)
    BY DEF DetailPages, EmbedPage
  <2>4. PlayerMatchesDetails
    BY <1>3, <2>3 DEF PlayerMatchesDetails, UrlOf
  <2>5. QED BY <2>2, <2>4
<1>4. QED BY <1>1, <1>2, <1>3 DEF StackShape

\* The pages over the main page are well formed, with seasons and episodes that the
\* dropdowns offer.
THEOREM StackType ==
  ASSUME SeasonsOffered
  PROVE  Spec => []TypeOK
BY ShapeInvariance, ShapeImplies, PTL

\* However the user goes back and forth, the player sits on the details page it was
\* opened from and plays what that page has selected.
THEOREM PlayerMatches ==
  ASSUME SeasonsOffered
  PROVE  Spec => []PlayerMatchesDetails
BY ShapeInvariance, ShapeImplies, PTL

=============================================================================
