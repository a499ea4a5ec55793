SPECIFICATION FlowSpec
CONSTANTS
    NodeCount = 5
    Source = 0
    Sink = 4
    Capacities <- MCNetwork
PROPERTIES FlowIsMaximal
CHECK_DEADLOCK FALSE
