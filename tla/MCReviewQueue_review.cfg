\* One request, two maintainers, an editor who re-submits, a reach that moves;
\* or an editor whose two POSTs overlap, three requests long.
SPECIFICATION MCSpec
CONSTANTS
    e1 = e1  p1 = p1  p2 = p2  m1 = m1  m2 = m2  m3 = m3
    desc = desc  cls = cls  old = old  new = new
    NoEditor = NoEditor  NoTab = NoTab  Deployer = Deployer
    Editor = {e1}
    Post = {p1, p2}
    Tab = {m1, m2}
    Field = {desc, cls}
    Class = cls
    Val = {old, new}
    InitialValue <- MCInitialValue
    NoteChoice = {TRUE}
    DailyCap = 1
    MaxRequests = 3
    MaxSyncs = 1
CHECK_DEADLOCK FALSE
SYMMETRY Symmetry
INVARIANTS EndorsedAsReviewed 
PROPERTIES ImplementsModeration RepliesKept
