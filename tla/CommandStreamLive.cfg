\* The refinement and liveness: one instance that may crash and whose calls
\* may fail, twice in all.
SPECIFICATION FairSpec
CONSTANTS
    Consumers = {c1}
    MaxEntry = 2
    ReadCount = 2
    MaxAttempts = 2
    MaxFaults = 2
PROPERTIES
    ImplementsDelivery
    EventuallyRetired
