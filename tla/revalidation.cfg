SPECIFICATION Spec
CONSTANTS
    html = html
    json = json
    Types = {html, json}
    Other = Other
    None = None
    Bytes = {x, y}
    Default = html
    Accepts <- MCAccepts
    Explicit = {None}
    Clients = {c1, c2}
    Second = 2
    MaxTime = 2
    Deadlines = {2}
SYMMETRY Symmetry
INVARIANTS NeverStale RightFace
CHECK_DEADLOCK FALSE
