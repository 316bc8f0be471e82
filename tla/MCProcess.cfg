SPECIFICATION FairSpec
CONSTANTS
    Server <- MCServer
    Statuses = {200, 400, 404, 500}
    Inputs <- MCInputs
    DefaultUrl = "default"
    CallEditors <- MCCallEditors
    MaxSignals = 3
INVARIANTS
    TypeOK
    ConfigurationIsChecked
    CallsAreAllowed
    RequestsAreComplete
    BodiesAreClosed
    ExitTells
PROPERTIES
    SignalEnds
