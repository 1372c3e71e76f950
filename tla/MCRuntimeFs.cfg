SPECIFICATION Spec
CONSTANTS
  keystore = keystore
  store = store
  binder = binder
  app = app
  client = client
  other = other
  Nobody = Nobody
  Services = {keystore, store}
  Clients = {binder, app}
  Elsewhere = {binder, app}
  Upstream <- StoreUpstream
  BinderLaunched = {store}
  MaxBadges = 2
  MaxChunks = 2
  Launches <- RuntimeFs
INVARIANTS TypeOK GrantsFailForCause
PROPERTIES ImplementsService RevocationIsFinal RevokesTakeEffect CallsEnd
\* The clients' programs end.
CHECK_DEADLOCK FALSE
