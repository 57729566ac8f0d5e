CONSTANTS
  Width = 3
  Height = 4
  Visible = 2
  Chars = {" ", "x"}
SPECIFICATION TermSpec
INVARIANTS InBounds ScreenShowsBuffer BelowIsBlank
