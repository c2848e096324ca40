SPECIFICATION Spec
CONSTANTS
    Countries = {"US", "DE"}
    Stations = {"s1", "s2"}
    NumErrors = 2
    MaxRow = 4
INVARIANTS
    GrantedIsInEffect
    ChannelsFollowCountry
    ToldIsState
    ErrorsInARow
    StatisticsOfStation
CHECK_DEADLOCK FALSE
