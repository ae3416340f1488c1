SPECIFICATION Spec
CONSTANTS
    Node = {1}
    Channels = {157, 149}
    Bench = 157
    MaxSwitches = 2
    MaxFaults = 1
INVARIANTS
    Agreement
    SwitchGuarded
    ConfigIsReal
PROPERTIES
    Reunites
