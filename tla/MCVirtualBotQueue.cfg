SPECIFICATION PromptSpec
CONSTANTS
    Producers <- MCProducers
    Consumers <- MCConsumers
    MaxMessages = 3
INVARIANTS
    TypeOK
    Conservation
    InOrderPerConnection
    NoLostWakeup
    WakeupsPaidFor
PROPERTIES
    WaiterGetsMessage
    EveryPollAnswered
    ImplementsMailbox
