CONSTANTS
    Users <- TwoThreads
    Objects <- SomeObjects
    OrdersOf <- SomeOrders
    Servos <- OneServo
    Programs <- SomePrograms
    Owner = "main"
    MaxCalls = 3
    READ_BUFFER_SIZE = 2
SPECIFICATION HostFairSpec
INVARIANTS NoDataRace OneServoPerId OrderIsAlive HoldersGoOn StateIsSettled BridgeForwards
PROPERTIES ServesStream TestEnds
