SPECIFICATION LiveSpec
CONSTANTS
  Agents = {a, b}
  Async = {a}
  MaxReviews = 3
  MaxRaises = 1
INVARIANTS TypeOK OneOpenReview CountsAreExact
PROPERTIES ImplementsLifecycle NoRework ReviewSettles
