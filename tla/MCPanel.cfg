\* One key may wait while another is handled.
SPECIFICATION Spec
CONSTANTS
  Objects = {0, 1}
  Points = {0, 1}
  NoPoint = 100
  MaxKeys = 1
  MaxAnswers = 1
INVARIANTS LitIsArmed ZeroingIsPointZero PagesNeedLogIn ModeHasItsPage VerifiesSelected PointIsShown
