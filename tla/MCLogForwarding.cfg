SPECIFICATION Spec
CONSTANTS
    Entries <- MCEntries
    TimeOf <- MCTimeOf
    Capacity = 2
    Writers = {w1, w2}
    QueueSize = 2
    MaxEntries = 4
    MaxTime = 2
    None = None
INVARIANTS ForwardingTypeOK ListingsExact PostedInOrder
PROPERTIES ShowsTheWindow QueueDrains
