\* All nine categories, one fetch at a time.
CONSTANTS
  Fetches = {f1, f2}
  Offered = {"Popular Movies", "Upcoming Movies", "Latest Movies",
             "Now Playing Movies", "Top Rated Movies", "Airing Today TV Shows",
             "On The Air TV Shows", "Popular TV Shows", "Top Rated TV Shows"}
  Texts = {"a", "b"}
  PageSize = 2
  MaxPage = 4

SPECIFICATION PatientSpec
SYMMETRY FetchSymmetry

PROPERTY ImplementsFeed
