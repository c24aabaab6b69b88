SPECIFICATION Spec
CONSTANTS
    Session = {s1, s2}
    NoSession = NoSession
    NumUnits = 2
    LinkMtu = {1400}
    Policy = {{"egress", "ingress", "route"}}
    MaxFaults = 1
    s1 = s1
    s2 = s2
INVARIANTS ClampInForce CompleteUnlessFault RecordLayerMatchesPath TeardownOrder
SYMMETRY Symmetry
