SPECIFICATION FairSpec
CONSTANTS
    w1 = w1  w2 = w2
    t1 = t1  t2 = t2  t3 = t3
    p1 = p1  p2 = p2  task_updated = task_updated

    Workers <- MCWorkers
    Ticks <- MCTicks
    Host <- MCHost
    Events <- MCEvents
    Types <- MCTypes
    TypeOf <- MCTypeOf
    Endpoints <- MCEndpoints
    BatchSize = 2
    NoEvent = NoEvent
    NoTick = NoTick
    NoEndpoint = NoEndpoint
    Failing = {"postgres", "redis"}
    MaxFaults = 1
    MaxRestarts = 1
    MaxChanges = 1
INVARIANTS TypeOK ClaimedOnce AtMostOneJob LostOnlyIfCutShort
PROPERTIES EventuallyHandedOver ImplementsPromise
