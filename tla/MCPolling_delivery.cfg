SPECIFICATION FairSpec
CONSTANTS
    Messages = {m1, m2, m3}
    Uuids = {1, 2, 3}
    Cursors = {"ts"}
    Limits = {3}
    MaxClock = 2
    Null = Null
PROPERTY
    AtLeastOnce
