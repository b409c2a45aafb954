\* Two charts sharing a git source and subpath, values that change, one
\* failure and one restart: does every load return what a fresh load would?
CONSTANTS
    c1 = c1
    c2 = c2
    s1 = s1
    sub = sub
    Charts = {c1, c2}
    Sources = {s1}
    Subcharts = {sub}
    SourceType <- MCSourceType
    AuthMethod <- MCAuthMethod
    SourceOf <- MCSourceOf
    SubpathOf <- MCSubpathOf
    DepsOf <- MCDepsOf
    MaxFaults = 1
    MaxRestarts = 1
SPECIFICATION Spec
PROPERTY LoadsAsFresh
