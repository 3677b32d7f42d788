SPECIFICATION Spec
CONSTANTS
    s1 = s1
    s2 = s2
    t1 = t1
    o1 = o1
    o2 = o2
    o3 = o3
    d1 = d1
    d2 = d2
    d3 = d3
    k1 = k1
    k2 = k2
    k3 = k3
    e1 = e1
    Scopes = {s1, s2}
    Tasks = {t1}
    RunOwner = RunOwner
    Controllers = {c1, c2}
    Bindings <- AllBindings
    Openings <- AllOpenings
    Events = {e1, e2}
    Amounts = {1, 3}
    RunCap = 4
    TaskCap <- CapOfTask
    Closeout <- CloseoutShares
    MaxInteger = 4
    AnyScope = AnyScope
    NoBinding = NoBinding
    NoOpening = NoOpening
SYMMETRY Interchangeable
INVARIANTS
    EffectAtMostOnce
    UseIsHeld
    CapsHold
    ChargedOnce
