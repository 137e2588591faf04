\* Three events in batches of up to two, each delivered up to twice.
SPECIFICATION FairSpec
CONSTANTS
    MaxEvents = 3
    MaxBatch = 2
    MaxDeliveries = 2
INVARIANTS TypeOK OneRowPerDelivery
PROPERTY EventuallyStored
