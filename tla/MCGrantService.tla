--------------------------- MODULE MCGrantService ---------------------------
(* The topologies of the loaders: who holds which copy of which endpoint.  *)
EXTENDS GrantRefinement

CONSTANTS keystore, store, binder, app, client, other

DoOp(to, as, label, n, object, slot) ==
  [to |-> to, as |-> as, label |-> label, n |-> n, object |-> object, slot |-> slot]
Ask(s, slot) == DoOp(s, {PLAIN}, "DATA", 0, "sound", slot)
Request(s, n) == DoOp(s, Minted, "DATA", n, "sound", FALSE)
Uninvited(s) == DoOp(s, {PLAIN}, "DATA", 1, "sound", FALSE)
Grant(s, object, slot) == DoOp(s, {GRANTER_BADGE}, "GRANT", 0, object, slot)
Revoke(s, b) == DoOp(s, {GRANTER_BADGE}, "REVOKE", b, "sound", FALSE)
Forge(s, label) == DoOp(s, {PLAIN} \cup Minted, label, 1, "sound", TRUE)
Pass(t) == DoOp(t, {}, "PASS", 0, "sound", FALSE)
SignalSpin(t) == DoOp(t, {}, "SPIN", 0, "sound", FALSE)

(* store_demo: keystore-service, store-service, store-client.              *)
StoreUpstream == [s \in Services |-> IF s = store THEN keystore ELSE Nobody]
StoreDemo ==
  {[caps |-> [t \in Threads |->
      CASE t = store -> {<<keystore, PLAIN>>} [] t = client -> {<<store, PLAIN>>}
        [] OTHER -> {}],
    script |-> [c \in Clients |->
      <<Ask(store, TRUE), Request(store, 1), Request(store, 0), SignalSpin(client)>>]]}

(* keystore_demo's programs with a client that does anything else, and a   *)
(* second one on the same endpoint: no loader has that, but the services   *)
(* provide for it (`Incoming::Data => frame::reply_busy()`).               *)
NoUpstream == [s \in Services |-> Nobody]
AnyClientOps ==
  {Ask(keystore, TRUE), Ask(keystore, FALSE), Request(keystore, 1), Request(keystore, 0),
   Uninvited(keystore), Forge(keystore, "GRANT"), Forge(keystore, "REVOKE")}
GrantOps(s) ==
  {Grant(s, "sound", TRUE), Grant(s, "sound", FALSE), Grant(s, "unknown", TRUE),
   Grant(s, "malformed", TRUE)}
(* The second client asks for a grant and comes in on the first one, or    *)
(* has the binder's badge.                                                 *)
SecondClient ==
  {[badge |-> PLAIN, script |-> <<Ask(keystore, TRUE), Uninvited(keystore)>>]} \cup
  {[badge |-> GRANTER_BADGE, script |-> <<g, Revoke(keystore, 1)>>] : g \in GrantOps(keystore)}
FirstCaller ==
  {[caps |-> [t \in Threads |->
      CASE t = client -> {<<keystore, PLAIN>>} [] t = other -> {<<keystore, second.badge>>}
        [] OTHER -> {}],
    script |-> [c \in Clients |-> IF c = client THEN <<x, y, z>> ELSE second.script]] :
   x, y, z \in AnyClientOps, second \in SecondClient}

(* runtime_fs_demo: the binder grants, passes on and revokes, the runtime  *)
(* (app) uses what it has.                                                 *)
BinderOps ==
  GrantOps(store) \cup {Pass(app), Revoke(store, 1), Revoke(store, 2)}
AppScripts ==
  {<<Request(store, 0), Request(store, 1)>>, <<Forge(store, "GRANT"), Request(store, 1)>>,
   <<Request(store, 1), Forge(store, "REVOKE")>>}
RuntimeCaps(ofApp) ==
  [t \in Threads |->
     CASE t = store -> {<<keystore, PLAIN>>} [] t = binder -> {<<store, GRANTER_BADGE>>}
       [] t = app -> ofApp [] OTHER -> {}]
AsLoaded ==
  {[caps |-> RuntimeCaps({}),
    script |-> [c \in Clients |-> IF c = binder THEN <<x, y, Pass(app), z>> ELSE a]] :
   x, y, z \in BinderOps, a \in AppScripts}
(* No loader lets a second program call the keystore.  If one did, without *)
(* a slot and before the store, the first grant fails and the service      *)
(* spins; after the store, it gets no data.                                *)
WithStray ==
  {[caps |-> RuntimeCaps({<<keystore, PLAIN>>}),
    script |-> [c \in Clients |->
      IF c = binder THEN <<g>> ELSE <<Ask(keystore, FALSE), Uninvited(keystore)>>]] :
   g \in GrantOps(store)}
RuntimeFs == AsLoaded \cup WithStray
=============================================================================
