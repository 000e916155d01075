\* Five relays, of which two share a region, and routes of two or three hops.
SPECIFICATION Spec
CONSTANTS
    p1 = p1  p2 = p2  p3 = p3  p4 = p4  p5 = p5
    RelayId = {p1, p2, p3, p4, p5}
    Transient = {p4, p5}
    Guards = {p1, p3}
    Exits = {p4, p5}
    Region <- RegionOf
    Orders <- ThreeOrders
    MinHops = 2
    NumHops = 3
    MinSamples = 2
    Consecutive = 2
    MaxRoutes = 1
    MaxFailures = 1
PROPERTIES CallsReturn
CHECK_DEADLOCK FALSE
