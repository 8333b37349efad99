\* Two fetches in flight over a movie and a TV category, with the pages above.  No
\* symmetry: SpinnerResolves is temporal.
CONSTANTS
  Fetches = {f1, f2}
  Offered = {"Popular Movies", "Popular TV Shows"}
  Texts = {"a"}
  PageSize = 1
  MaxPage = 4
  MaxSeason = 2
  MaxEpisode = 2

SPECIFICATION FairPageSpec

INVARIANTS
  PageTypeOK
  FieldShowsSearch
  PosterIsListed
  OpenedItemIsListed
  PlayerMatchesDetails

PROPERTY SpinnerResolves
