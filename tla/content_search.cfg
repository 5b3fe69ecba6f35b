CONSTANTS
    root = root
    sub = sub
    deep = deep
    n1 = n1
    n2 = n2
    n3 = n3
    n4 = n4
    s1 = s1
    s2 = s2
    w1 = w1
    no_text = no_text
    None = None
    NoText = no_text
    Folder <- MCFolder
    Card <- MCCard
    Text <- MCText
    Searches = {s1, s2}
    Workers = {w1}
    Asks <- MCAsks
    DefaultChunkSize = 1
SPECIFICATION Spec
INVARIANTS
    NothingOutlivesItsCall
    BatchesAreWhole
    AnswersAreExact
    NodesAreFound
PROPERTIES
    EveryCallReturns
CHECK_DEADLOCK FALSE
