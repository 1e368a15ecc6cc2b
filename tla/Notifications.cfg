SPECIFICATION FairSpec
CONSTANTS
    Requests = {r1}
    Wishes <- SomeWishes
    Handlers = {h1}
    Loop = loop
    Consumer = consumer
    Nobody = nobody
    Backend = "rabbitmq"
    MaxTries = 2
    MaxNotes = 2
    MaxFaults = 1
INVARIANTS
    DuplicateMailExplained
    CopiesExplained
PROPERTIES
    DeliveryKept
    EverythingSettles
CHECK_DEADLOCK FALSE
