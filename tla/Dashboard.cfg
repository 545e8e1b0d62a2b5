SPECIFICATION Spec
CONSTANTS
    Node = {n1}
    MaxAlerts = 1
INVARIANTS
    TypeOK
    LastWordIsRight
    RamAlertsAreDue
    CrossingsAreTold
PROPERTIES
    DisplayCatchesUp
