SPECIFICATION Spec
CONSTANTS
    Window = 2
    Second <- Seconds
    Code <- Codes
    Latency <- Latencies
    Measurement <- Measurements
    TopK = 1
    Percentiles <- Quantiles
    MaxEvents = 4
INVARIANTS
    WindowIsExact
    AggregatesAgree
    TopCodesAreComplete
    QuantilesAreExact
CHECK_DEADLOCK FALSE
