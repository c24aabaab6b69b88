SPECIFICATION Spec
CONSTANTS
    Session = {s1}
    NoSession = NoSession
    NumUnits = 1
    LinkMtu = {1400}
    Policy = {{}}
    MaxFaults = 0
    s1 = s1
PROPERTIES AutoFallsBack
