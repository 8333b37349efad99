\* Expected to fail: a fetch that throws leaves the spinner with nothing being loaded.
CONSTANTS
  Fetches = {f1, f2}
  Offered = {"Popular Movies", "Popular TV Shows"}
  Texts = {"a"}
  PageSize = 1
  MaxPage = 2
  MaxSeason = 1
  MaxEpisode = 1

SPECIFICATION PageSpec
SYMMETRY FetchSymmetry
INVARIANT ErrorsEndTheSpinner
