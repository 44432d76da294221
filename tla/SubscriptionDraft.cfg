CONSTANTS
    Users = {u1}
    Contents = {c1, c2}
    Matched = {c1}
    Private = {c1}
    ApiThreads = {p1}
    CacheSize = 1
    MaxTokens = 1
    MaxChanges = 5
    Nil = Nil
SPECIFICATION SpecLink
PROPERTY LinkStaysUntilPublished
