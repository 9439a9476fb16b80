SPECIFICATION Spec
CONSTANTS
    v1 = v1
    v2 = v2
    app = app
    a = a
    b = b
    c1 = c1
    c2 = c2
    Views = {v1, v2}
    Prefix <- MCPrefix
    Names = {n1, n2}
    GeoCalls = {c1, c2}
    GeoView <- MCGeoView
    GeoName = n1
    MaxKeys = 2
SYMMETRY Uuids
INVARIANTS
    GeoIsOwn
PROPERTIES
    ImplementsPrivateStores
CHECK_DEADLOCK FALSE
