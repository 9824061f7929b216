CONSTANTS
    x = x  y = y  xBlank = xBlank
    w1 = w1  w2 = w2
    Browser = {w1, w2}
    Blank = Blank  Hole = Hole  NoFile = NoFile
    Text = {x, y, xBlank, Blank}
    Trim <- Trimmed
    InitFiles <- Files
    MaxPosts = 3
SYMMETRY BrowsersAlike
SPECIFICATION Spec
INVARIANTS TypeOK OnlyTheNewList
PROPERTIES EditsAsMeant ServerSeesThePage
CHECK_DEADLOCK FALSE
