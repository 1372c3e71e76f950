SPECIFICATION Spec
CONSTANTS
  keystore = keystore
  store = store
  binder = binder
  app = app
  client = client
  other = other
  Nobody = Nobody
  Services = {keystore}
  Clients = {client, other}
  Elsewhere = {client, other}
  Upstream <- NoUpstream
  BinderLaunched = {}
  MaxBadges = 2
  MaxChunks = 2
  Launches <- FirstCaller
INVARIANTS NoCallerForgotten
\* The clients' programs end.
CHECK_DEADLOCK FALSE
