SPECIFICATION Spec
CONSTANTS
  client = client
  server = server
  Nobody = Nobody
  endpoint = endpoint
  Endpoints <- OneEndpoint
  Threads <- Halves
  BENCH_ROUND_TRIPS = 3
  BENCH_SAFETY_MARGIN = 2
  MaxLost = 2
  ClockModulus = 8
  MaxCycles = 2
INVARIANTS SummaryIsOfTheTrips
PROPERTIES BenchmarkCompletes
\* The client spins at the end.
CHECK_DEADLOCK FALSE
