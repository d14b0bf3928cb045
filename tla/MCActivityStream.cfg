\* The browser may be refused, and the requests come to an end.
CHECK_DEADLOCK FALSE
SPECIFICATION Spec
CONSTANTS
    Sessions = {a1, a2}
    Projects = {p1, p2}
    Tasks = {t1}
    Slugs = {x}
    Drafts <- MCDrafts
    EventIds = {1,2,3,4,5,6,7,8}
    None = none
    MaxRequests = 3
    BatchSize = 1
    MaxDrops = 1
INVARIANTS
    RecordedTogether
    PlansStand
    StreamIsOrdered
    OnlyLateIsMissed
PROPERTIES
    EventsArrive
