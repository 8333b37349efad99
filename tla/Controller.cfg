\* Three fetches in flight, a movie category, the one without pages and a TV one.
CONSTANTS
  Fetches = {f1, f2, f3}
  Offered = {"Popular Movies", "Latest Movies", "Popular TV Shows"}
  Texts = {"a"}
  PageSize = 1
  MaxPage = 3

SPECIFICATION Spec
SYMMETRY FetchSymmetry

INVARIANTS
  TypeOK
  ForeignResultsCameLate
  SerialFetchesPaginate
  PageNeverRunsAhead

PROPERTY AnswersOnlyExtend
