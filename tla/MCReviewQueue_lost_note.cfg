\* A reply between the start and the end of another maintainer's decision.
SPECIFICATION MCSpec
CONSTANTS
    e1 = e1  p1 = p1  p2 = p2  m1 = m1  m2 = m2  m3 = m3
    desc = desc  cls = cls  old = old  new = new
    NoEditor = NoEditor  NoTab = NoTab  Deployer = Deployer
    Editor = {e1}
    Post = {p1}
    Tab = {m1, m2}
    Field = {desc, cls}
    Class = cls
    Val = {old, new}
    InitialValue <- MCInitialValue
    NoteChoice = {TRUE}
    DailyCap = 1
    MaxRequests = 1
    MaxSyncs = 0
CHECK_DEADLOCK FALSE
PROPERTIES ThreadKept
