SPECIFICATION Spec
CONSTANTS
  keystore = keystore
  store = store
  binder = binder
  app = app
  client = client
  other = other
  Nobody = Nobody
  Services = {keystore, store}
  Clients = {client}
  Elsewhere = {}
  Upstream <- StoreUpstream
  BinderLaunched = {}
  MaxBadges = 2
  MaxChunks = 4
  Launches <- StoreDemo
PROPERTIES DemoSucceeds
\* At the end the client spins.
CHECK_DEADLOCK FALSE
