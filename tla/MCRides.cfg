\* One order, its owner and two drivers (who may ride too), two requests at a time.
CONSTANTS
    o1 = o1
    rider = rider
    d1 = d1
    d2 = d2
    r1 = r1
    r2 = r2
    Orders = {o1}
    Users = {rider, d1, d2}
    Drivers = {d1, d2}
    NoUser = NoUser
    NoOrder = NoOrder
    Requests = {r1, r2}
    Sizes = {1}
    MaxStarts = 5
SPECIFICATION Spec
INVARIANTS
    TypeOK
    DriverAnswers
    AloneAddsUp
PROPERTY AloneGoesOnward
CHECK_DEADLOCK FALSE
