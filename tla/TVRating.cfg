\* Expected to fail: the rating TMDB serves for a TV show is never drawn.
CONSTANT MaxResults = 1
SPECIFICATION Spec
INVARIANT RatingIsShownWhenServed
CHECK_DEADLOCK FALSE
