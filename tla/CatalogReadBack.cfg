SPECIFICATION CatalogSpec
CONSTANTS
    Refreshers = {r1, r2}
    Nobody = Nobody
    MaxFailures = 1
CHECK_DEADLOCK FALSE
INVARIANTS PreviousRemainsActive
