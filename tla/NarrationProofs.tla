--------------------------- MODULE NarrationProofs ---------------------------
(***************************************************************************)
(* Theorems about the four demos, whichever of their system calls the      *)
(* kernel refuses and for any bound on how many: what the trap handlers    *)
(* print is what happened, and SUCCESS is never printed of a run in which  *)
(* a step that matters was refused.                                        *)
(***************************************************************************)
EXTENDS Narration, Integers, SequenceTheorems, TLAPS

-----------------------------------------------------------------------------
(* The queues hold threads, and what is kept by thread or by endpoint is a *)
(* function on the threads or on the endpoints.                            *)
Typed ==
  /\ KernelTypeOK
  /\ DOMAIN pc = Threads /\ good \in [Threads -> BOOLEAN]
  /\ DOMAIN granted = Endpoints

(* Where the threads are: who runs, who is ready, who is in a Call or a    *)
(* Recv at each endpoint, and who is owed a Reply.  Nobody owes, or is     *)
(* owed by, more than one, and the client owes nothing.                    *)
Hart(runs, queue) == running = runs /\ ready = queue
Waiting(atService, atStore) == calls["service"] = atService /\ calls["store"] = atStore
Listening(atService, atStore) ==
  listening["service"] = atService /\ listening["store"] = atStore
Owed(byService, byStore) == owed["service"] = byService /\ owed["store"] = byStore
At2(client, service) == pc["client"] \in client /\ pc["service"] \in service
At3(client, service, store) == At2(client, service) /\ pc["store"] \in store

(* The steps that may be refused on the way to SUCCESS.                    *)
Free(d) ==
  CASE d = "keystore" -> {<<"service", 4>>, <<"service", 5>>}
    [] d = "store" -> {<<"service", 4>>, <<"service", 5>>, <<"store", 5>>, <<"store", 6>>}
    [] OTHER -> {}

(* The way to SUCCESS.  In the demos of two programs the client runs with  *)
(* the service ready, or the service runs with the client in its Call, or  *)
(* with the client owed a Reply.                                           *)
ClientRuns == Hart("client", <<"service">>) /\ Waiting(<<>>, <<>>) /\ Owed(Nobody, Nobody)
ClientCalls == Hart("service", <<>>) /\ Waiting(<<"client">>, <<>>) /\ Owed(Nobody, Nobody)
ClientServed == Hart("service", <<>>) /\ Waiting(<<>>, <<>>) /\ Owed("client", Nobody)

BrokerWay ==
  /\ Listening(<<>>, <<>>)
  /\ \/ ClientRuns /\ At2({1}, {1}) /\ "client" \notin granted["service"]
     \/ ClientCalls /\ At2({1}, {1})
     \/ ClientServed /\ At2({1}, {2, 3})
     \/ ClientRuns /\ At2({0, 2}, {0})
FrameWay ==
  /\ Listening(<<>>, <<>>)
  /\ \/ ClientRuns /\ At2({1}, {1})
     \/ ClientCalls /\ At2({1}, {1})
     \/ ClientServed /\ At2({1}, {2})
     \/ ClientRuns /\ At2({0, 2}, {0})
KeystoreWay ==
  /\ Listening(<<>>, <<>>)
  /\ \/ ClientRuns /\ At2({1}, {1}) /\ "client" \notin granted["service"]
     \/ ClientCalls /\ At2({1}, {1})
     \/ ClientServed /\ At2({1}, {2, 3})
     \/ ClientRuns /\ At2({2}, {4})
     \/ ClientCalls /\ At2({2, 3}, {4, 5})
     \/ ClientServed /\ At2({2, 3}, {6})
     \/ ClientRuns /\ At2({0, 3, 4}, {5})

(* In the store demo the service is a step ahead of the store: it listens  *)
(* by the time the store calls it.  No Call waits at the service.          *)
Place(runs, queue, atService, atStore, byService, byStore) ==
  /\ Hart(runs, queue)
  /\ Listening(atService, <<>>) /\ Waiting(<<>>, atStore) /\ Owed(byService, byStore)

Unregistered == "client" \notin granted["store"] /\ "store" \notin granted["service"]
StoreWay ==
  \/ /\ Place("client", <<"service", "store">>, <<>>, <<>>, Nobody, Nobody)
     /\ \/ At3({1}, {1}, {1}) /\ Unregistered
        \/ At3({2}, {4}, {5})
        \/ At3({0, 3, 4}, {5}, {6})
  \/ /\ Place("service", <<"store">>, <<>>, <<"client">>, Nobody, Nobody)
     /\ \/ At3({1}, {1}, {1}) /\ "store" \notin granted["service"]
        \/ At3({2, 3}, {4, 5}, {5, 6})
  \/ /\ Place("store", <<>>, <<"service">>, <<"client">>, Nobody, Nobody)
     /\ \/ At3({1}, {2}, {1}) /\ "store" \notin granted["service"]
        \/ At3({2, 3}, {6}, {5, 6})
  \/ /\ Place("service", <<>>, <<>>, <<"client">>, "store", Nobody)
     /\ At3({1}, {2, 3}, {1})
  \/ /\ Place("store", <<"service">>, <<>>, <<"client">>, Nobody, Nobody)
     /\ At3({1}, {4}, {2})
  \/ /\ Place("store", <<"service">>, <<>>, <<>>, Nobody, "client")
     /\ \/ At3({1}, {4}, {3, 4})
        \/ At3({2, 3}, {5}, {8}) /\ good["store"]
  \/ /\ Place("store", <<>>, <<"service">>, <<>>, Nobody, "client")
     /\ At3({2, 3}, {6}, {7})
  \/ /\ Place("service", <<>>, <<>>, <<>>, "store", "client")
     /\ At3({2, 3}, {6}, {7})

Way ==
  CASE demo = "broker" -> BrokerWay
    [] demo = "frame" -> FrameWay
    [] demo = "keystore" -> KeystoreWay
    [] demo = "store" -> StoreWay
OnTheWay ==
  /\ Way /\ refused \subseteq Free(demo)
  /\ verdict = "none" \/ (running = "client" /\ pc["client"] = 0)

(* Off the way there is none back.  The client has only its FAILURE left;  *)
(* or asks for what it was never granted; or a server spins, or owes       *)
(* nobody the Reply that it comes to, or waits where no Call can come.     *)
ClientFails ==
  /\ running = "client"
  /\ \/ pc["client"] = 0
     \/ pc["client"] = 3 /\ demo = "frame"
     \/ pc["client"] = 5 /\ demo \in {"keystore", "store"}
ClientUngranted ==
  /\ running = "client" /\ pc["client"] = 2
  /\ \/ demo \in {"broker", "keystore"} /\ "client" \notin granted["service"]
     \/ demo = "store" /\ "client" \notin granted["store"]
ServiceSpins == running = "service" /\ pc["service"] = 0
StoreSpins == demo = "store" /\ running = "store" /\ pc["store"] = 0
ServiceOwesNobody ==
  /\ demo # "frame" /\ running = "service" /\ pc["service"] \in {2, 3}
  /\ owed["service"] = Nobody
StoreOwesNobody ==
  /\ demo = "store" /\ running = "store" /\ pc["store"] \in {3, 4} /\ owed["store"] = Nobody
ServiceUncalled ==
  /\ demo \in {"keystore", "store"}
  /\ Hart("service", <<>>) /\ calls["service"] = <<>> /\ pc["service"] = 5
StoreUncalled ==
  /\ demo = "store"
  /\ running = "store" /\ calls["store"] = <<>> /\ pc["store"] = 6
  /\ \/ ready = <<>>
     \/ /\ ready = <<"service">>
        /\ calls["service"] = <<>> /\ pc["service"] = 5
(* Or the store serves without a keystore that would serve it, and will    *)
(* answer what the client asks with a failure.                             *)
StoreUnserved ==
  /\ demo = "store" /\ "store" \notin granted["service"]
  /\ \/ /\ Place("store", <<>>, <<"service">>, <<"client">>, Nobody, Nobody)
        /\ \/ pc["client"] = 1 /\ pc["store"] = 2
           \/ pc["client"] = 2 /\ pc["store"] \in {5, 6}
     \/ /\ Place("store", <<>>, <<"service">>, <<>>, Nobody, "client")
        /\ \/ pc["client"] = 1 /\ pc["store"] \in {3, 4}
           \/ pc["client"] = 2 /\ pc["store"] = 7
     \/ /\ Place("client", <<"store">>, <<"service">>, <<>>, Nobody, Nobody)
        /\ pc["client"] = 2 /\ pc["store"] = 5
StoreFails ==
  /\ demo = "store" /\ Place("store", <<>>, <<"service">>, <<>>, Nobody, "client")
  /\ pc["client"] \in {2, 3} /\ pc["store"] = 8 /\ ~good["store"]
OffTheWay ==
  /\ verdict # "SUCCESS"
  /\ \/ running = Nobody \/ ClientFails \/ ClientUngranted
     \/ ServiceSpins \/ StoreSpins \/ ServiceOwesNobody \/ StoreOwesNobody
     \/ ServiceUncalled \/ StoreUncalled \/ StoreUnserved \/ StoreFails

(* The service never asks, so that its own status is always good.          *)
IInv ==
  /\ Typed /\ demo \in {"broker", "frame", "keystore", "store"} /\ good["service"]
  /\ OnTheWay \/ OffTheWay

-----------------------------------------------------------------------------
USE ThreadsAssumption, NarrationAssumption

LEMMA Names ==
  /\ "client" \in Threads /\ "service" \in Threads /\ "store" \in Threads
  /\ Nobody # "client" /\ Nobody # "service" /\ Nobody # "store"
  /\ "service" \in Endpoints /\ "store" \in Endpoints
  /\ \A t \in Threads : t = "client" \/ t = "service" \/ t = "store"
OBVIOUS

(* The queues there are.                                                   *)
LEMMA Queues ==
  /\ <<"client">> # <<>> /\ <<"service">> # <<>> /\ <<"store">> # <<>>
  /\ <<"service", "store">> # <<>> /\ <<"service">> # <<"store">>
  /\ <<"service">> # <<"service", "store">>
  /\ Append(<<>>, "client") = <<"client">> /\ Append(<<>>, "service") = <<"service">>
  /\ Append(<<>>, "store") = <<"store">>
  /\ Append(<<"service">>, "store") = <<"service", "store">>
  /\ Head(<<"client">>) = "client" /\ Tail(<<"client">>) = <<>>
  /\ Head(<<"service">>) = "service" /\ Tail(<<"service">>) = <<>>
  /\ Head(<<"store">>) = "store" /\ Tail(<<"store">>) = <<>>
  /\ Head(<<"service", "store">>) = "service" /\ Tail(<<"service", "store">>) = <<"store">>
<1>1. /\ <<"client">> # <<>> /\ <<"service">> # <<>> /\ <<"store">> # <<>>
      /\ <<"service", "store">> # <<>> /\ <<"service">> # <<"store">>
  OBVIOUS
<1>2. <<"service">> # <<"service", "store">>
  OBVIOUS
<1>3. /\ Append(<<>>, "client") = <<"client">> /\ Append(<<>>, "service") = <<"service">>
      /\ Append(<<>>, "store") = <<"store">>
  OBVIOUS
<1>4. Append(<<"service">>, "store") = <<"service", "store">>
  <2> DEFINE a == Append(<<"service">>, "store")
             b == <<"service", "store">>
  <2>1. <<"service">> \in Seq(Threads) /\ "store" \in Threads /\ Len(<<"service">>) = 1
        /\ <<"service">>[1] = "service"
    OBVIOUS
  <2>2. a \in Seq(Threads) /\ Len(a) = 2 /\ a[1] = "service" /\ a[2] = "store"
    BY <2>1, AppendProperties
  <2>3. b \in Seq(Threads) /\ Len(b) = 2 /\ b[1] = "service" /\ b[2] = "store"
    OBVIOUS
  <2> HIDE DEF a, b
  <2>4. \A i \in 1..2 : i = 1 \/ i = 2
    OBVIOUS
  <2>5. a = b
    BY <2>2, <2>3, <2>4, SeqEqual
  <2> QED BY <2>5 DEF a, b
<1>5. /\ Head(<<"client">>) = "client" /\ Tail(<<"client">>) = <<>>
      /\ Head(<<"service">>) = "service" /\ Tail(<<"service">>) = <<>>
      /\ Head(<<"store">>) = "store" /\ Tail(<<"store">>) = <<>>
  OBVIOUS
<1>6. Head(<<"service", "store">>) = "service"
  OBVIOUS
<1>7. Tail(<<"service", "store">>) = <<"store">>
  OBVIOUS
<1> QED BY <1>1, <1>2, <1>3, <1>4, <1>5, <1>6, <1>7

-----------------------------------------------------------------------------
(* The programs, step by step.                                             *)
LEMMA BrokerSteps ==
  ASSUME demo = "broker"
  PROVE  /\ pc["client"] = 1 => Step("client") = At("Register", "service", 2, 2)
         /\ pc["client"] = 2 => Step("client") = At("Signal", "DEST", 0, 0)
         /\ pc["service"] = 1 => Step("service") = At("Recv", "service", 2, 2)
         /\ pc["service"] = 2 => Step("service") = At("Mint", "none", 3, 0)
         /\ pc["service"] = 3 => Step("service") = At("Grant", "none", 0, 0)
<1>1. Programs["broker"]["client"] = BrokerClient
      /\ Programs["broker"]["service"] = BrokerService
  BY DEF Programs, Pair
<1> QED BY <1>1 DEF Step, BrokerClient, BrokerService

LEMMA FrameSteps ==
  ASSUME demo = "frame"
  PROVE  /\ pc["client"] = 1 => Step("client") = At("Ask", "service", 2, 3)
         /\ pc["client"] = 2 => Step("client") = At("Signal", "SUCCESS", 0, 0)
         /\ pc["client"] = 3 => Step("client") = At("Signal", "FAILURE", 0, 0)
         /\ pc["service"] = 1 => Step("service") = At("Recv", "service", 2, 0)
         /\ pc["service"] = 2 => Step("service") = At("Answer", "none", 0, 0)
<1>1. Programs["frame"]["client"] = FrameClient /\ Programs["frame"]["service"] = FrameService
  BY DEF Programs, Pair
<1> QED BY <1>1 DEF Step, FrameClient, FrameService

(* The keystore's service is the same program in both of its demos.        *)
LEMMA KeystoreServiceSteps ==
  ASSUME demo \in {"keystore", "store"}
  PROVE  /\ pc["service"] = 1 => Step("service") = At("Recv", "service", 2, 2)
         /\ pc["service"] = 2 => Step("service") = At("Mint", "none", 3, 0)
         /\ pc["service"] = 3 => Step("service") = At("Grant", "none", 4, 0)
         /\ pc["service"] = 4 => Step("service") = At("Delete", "none", 5, 5)
         /\ pc["service"] = 5 => Step("service") = At("Recv", "service", 6, 5)
         /\ pc["service"] = 6 => Step("service") = At("Answer", "none", 5, 5)
<1>1. Programs["keystore"]["service"] = KeystoreService
      /\ Programs["store"]["service"] = KeystoreService
  BY DEF Programs, Pair
<1> QED BY <1>1 DEF Step, KeystoreService

LEMMA RoundTripClientSteps ==
  ASSUME NEW at, Programs[demo]["client"] = RoundTripClient(at)
  PROVE  /\ pc["client"] = 1 => Step("client") = At("Register", at, 2, 2)
         /\ pc["client"] = 2 => Step("client") = At("Request", at, 3, 5)
         /\ pc["client"] = 3 => Step("client") = At("Request", at, 4, 5)
         /\ pc["client"] = 4 => Step("client") = At("Signal", "SUCCESS", 0, 0)
         /\ pc["client"] = 5 => Step("client") = At("Signal", "FAILURE", 0, 0)
BY DEF Step, RoundTripClient

LEMMA KeystoreClientSteps ==
  ASSUME demo = "keystore"
  PROVE  /\ pc["client"] = 1 => Step("client") = At("Register", "service", 2, 2)
         /\ pc["client"] = 2 => Step("client") = At("Request", "service", 3, 5)
         /\ pc["client"] = 3 => Step("client") = At("Request", "service", 4, 5)
         /\ pc["client"] = 4 => Step("client") = At("Signal", "SUCCESS", 0, 0)
         /\ pc["client"] = 5 => Step("client") = At("Signal", "FAILURE", 0, 0)
<1>1. Programs[demo]["client"] = RoundTripClient("service")
  BY DEF Programs, Pair, KeystoreClient
<1> QED BY <1>1, RoundTripClientSteps

LEMMA StoreClientSteps ==
  ASSUME demo = "store"
  PROVE  /\ pc["client"] = 1 => Step("client") = At("Register", "store", 2, 2)
         /\ pc["client"] = 2 => Step("client") = At("Request", "store", 3, 5)
         /\ pc["client"] = 3 => Step("client") = At("Request", "store", 4, 5)
         /\ pc["client"] = 4 => Step("client") = At("Signal", "SUCCESS", 0, 0)
         /\ pc["client"] = 5 => Step("client") = At("Signal", "FAILURE", 0, 0)
<1>1. Programs[demo]["client"] = RoundTripClient("store")
  BY DEF Programs, Pair, StoreClient
<1> QED BY <1>1, RoundTripClientSteps

LEMMA StoreServiceSteps ==
  ASSUME demo = "store"
  PROVE  /\ pc["store"] = 1 => Step("store") = At("Register", "service", 2, 2)
         /\ pc["store"] = 2 => Step("store") = At("Recv", "store", 3, 3)
         /\ pc["store"] = 3 => Step("store") = At("Mint", "none", 4, 0)
         /\ pc["store"] = 4 => Step("store") = At("Grant", "none", 5, 0)
         /\ pc["store"] = 5 => Step("store") = At("Delete", "none", 6, 6)
         /\ pc["store"] = 6 => Step("store") = At("Recv", "store", 7, 6)
         /\ pc["store"] = 7 => Step("store") = At("Request", "service", 8, 8)
         /\ pc["store"] = 8 => Step("store") = At("Answer", "none", 6, 6)
<1>1. Programs["store"]["store"] = StoreService
  BY DEF Programs, Pair
<1> QED BY <1>1 DEF Step, StoreService

(* Only the thread that runs takes a step, and one that spins takes none.  *)
LEMMA WhoActs ==
  ASSUME NEW t \in Threads, ThreadStep(t)
  PROVE  running = t /\ pc[t] # 0
<1>1. running = t
  BY DEF ThreadStep, Refuse, DoCall, DoRecv, DoMint, DoDelete, DoGrant, DoAnswer, DoSignal, On
<1>2. pc[t] = 0 => Step(t).sys = "Spin"
  BY DEF Step, Spin, At
<1>3. pc[t] # 0
  BY <1>2 DEF ThreadStep, Refuse, DoCall, DoRecv, DoMint, DoDelete, DoGrant, DoAnswer, DoSignal,
              On
<1> QED BY <1>1, <1>3

LEMMA WhichAct ==
  ASSUME NEW t \in Threads, ThreadStep(t)
  PROVE  /\ Step(t).sys \in {"Register", "Ask", "Request"} => Refuse(t) \/ DoCall(t)
         /\ Step(t).sys = "Recv" => Refuse(t) \/ DoRecv(t)
         /\ Step(t).sys = "Mint" => Refuse(t) \/ DoMint(t)
         /\ Step(t).sys = "Delete" => Refuse(t) \/ DoDelete(t)
         /\ Step(t).sys = "Grant" => Refuse(t) \/ DoGrant(t)
         /\ Step(t).sys = "Answer" => Refuse(t) \/ DoAnswer(t)
         /\ Step(t).sys = "Signal" => Refuse(t) \/ DoSignal(t)
BY DEF ThreadStep, DoCall, DoRecv, DoMint, DoDelete, DoGrant, DoAnswer, DoSignal, On

-----------------------------------------------------------------------------
(* What each system call changes.                                          *)
Moves(t, n) == pc'[t] = n /\ \A u \in Threads \ {t} : pc'[u] = pc[u]
HartStays ==
  /\ running' = running /\ ready' = ready /\ calls' = calls /\ listening' = listening
  /\ owed' = owed

LEMMA RefuseDoes ==
  ASSUME Typed, NEW t \in Threads, Refuse(t)
  PROVE  /\ HartStays /\ demo' = demo /\ granted' = granted /\ verdict' = verdict
         /\ Moves(t, Step(t).orElse)
         /\ IF Step(t).sys \in {"Ask", "Request"}
            THEN ~good'[t] /\ \A u \in Threads \ {t} : good'[u] = good[u]
            ELSE good' = good
         /\ refused' \subseteq refused \cup {<<t, pc[t]>>}
         /\ Typed'
<1>1. HartStays /\ demo' = demo /\ granted' = granted /\ verdict' = verdict
  BY DEF Refuse, GoesOn, kernel, HartStays
<1>2. pc' = [pc EXCEPT ![t] = Step(t).orElse]
  BY DEF Refuse, Onward
<1>3. good' = IF Step(t).sys \in {"Ask", "Request"} THEN [good EXCEPT ![t] = FALSE] ELSE good
  BY DEF Refuse
<1>4. refused' \subseteq refused \cup {<<t, pc[t]>>}
  BY DEF Refuse
<1>5. Moves(t, Step(t).orElse)
  BY <1>2 DEF Moves, Typed
<1>6. IF Step(t).sys \in {"Ask", "Request"}
      THEN ~good'[t] /\ \A u \in Threads \ {t} : good'[u] = good[u]
      ELSE good' = good
  BY <1>3 DEF Typed
<1>7. Typed'
  <2>1. DOMAIN pc' = Threads
    BY <1>2 DEF Typed
  <2>2. good' \in [Threads -> BOOLEAN]
    BY <1>3 DEF Typed
  <2> QED BY <1>1, <2>1, <2>2 DEF Typed, KernelTypeOK, HartStays
<1> QED BY <1>1, <1>4, <1>5, <1>6, <1>7

LEMMA SwitchTyped ==
  ASSUME KernelTypeOK, Switch
  PROVE  running' \in Threads \cup {Nobody} /\ ready' \in Seq(Threads)
<1>1. CASE ready = <<>>
  BY <1>1 DEF Switch, KernelTypeOK
<1>2. CASE ready # <<>>
  <2>1. Head(ready) \in Threads /\ Tail(ready) \in Seq(Threads)
    BY <1>2, HeadTailProperties DEF KernelTypeOK
  <2> QED BY <1>2, <2>1 DEF Switch
<1> QED BY <1>1, <1>2

LEMMA CallTyped ==
  ASSUME KernelTypeOK, NEW t \in Threads, NEW e \in Endpoints, Call(t, e)
  PROVE  KernelTypeOK'
<1>1. listening[e] \in Seq(Threads) /\ calls[e] \in Seq(Threads)
  BY DEF KernelTypeOK
<1>2. CASE listening[e] = <<>>
  <2>1. calls' = [calls EXCEPT ![e] = Append(@, t)] /\ Switch
        /\ listening' = listening /\ owed' = owed
    BY <1>2 DEF Call
  <2>2. Append(calls[e], t) \in Seq(Threads)
    BY <1>1, AppendProperties
  <2>3. calls' \in [Endpoints -> Seq(Threads)]
    BY <2>1, <2>2 DEF KernelTypeOK
  <2> QED BY <2>1, <2>3, SwitchTyped DEF KernelTypeOK
<1>3. CASE listening[e] # <<>>
  <2>1. Head(listening[e]) \in Threads /\ Tail(listening[e]) \in Seq(Threads)
    BY <1>1, <1>3, HeadTailProperties
  <2>2. /\ running' = Head(listening[e])
        /\ listening' = [listening EXCEPT ![e] = Tail(@)]
        /\ owed' = [owed EXCEPT ![Head(listening[e])] = t]
        /\ ready' = ready /\ calls' = calls
    BY <1>3 DEF Call
  <2>3. listening' \in [Endpoints -> Seq(Threads)]
    BY <2>1, <2>2 DEF KernelTypeOK
  <2>4. owed' \in [Threads -> Threads \cup {Nobody}]
    BY <2>1, <2>2 DEF KernelTypeOK
  <2> QED BY <2>1, <2>2, <2>3, <2>4 DEF KernelTypeOK
<1> QED BY <1>2, <1>3

LEMMA RecvTyped ==
  ASSUME KernelTypeOK, NEW t \in Threads, NEW e \in Endpoints, Recv(t, e)
  PROVE  KernelTypeOK'
<1>1. listening[e] \in Seq(Threads) /\ calls[e] \in Seq(Threads)
  BY DEF KernelTypeOK
<1>2. CASE calls[e] = <<>>
  <2>1. listening' = [listening EXCEPT ![e] = Append(@, t)] /\ Switch
        /\ calls' = calls /\ owed' = owed
    BY <1>2 DEF Recv
  <2>2. Append(listening[e], t) \in Seq(Threads)
    BY <1>1, AppendProperties
  <2>3. listening' \in [Endpoints -> Seq(Threads)]
    BY <2>1, <2>2 DEF KernelTypeOK
  <2> QED BY <2>1, <2>3, SwitchTyped DEF KernelTypeOK
<1>3. CASE calls[e] # <<>>
  <2>1. Head(calls[e]) \in Threads /\ Tail(calls[e]) \in Seq(Threads)
    BY <1>1, <1>3, HeadTailProperties
  <2>2. /\ owed' = [owed EXCEPT ![t] = Head(calls[e])]
        /\ calls' = [calls EXCEPT ![e] = Tail(@)]
        /\ running' = running /\ ready' = ready /\ listening' = listening
    BY <1>3 DEF Recv
  <2>3. calls' \in [Endpoints -> Seq(Threads)]
    BY <2>1, <2>2 DEF KernelTypeOK
  <2>4. owed' \in [Threads -> Threads \cup {Nobody}]
    BY <2>1, <2>2 DEF KernelTypeOK
  <2> QED BY <2>2, <2>3, <2>4 DEF KernelTypeOK
<1> QED BY <1>2, <1>3

LEMMA ReplyDoes ==
  ASSUME KernelTypeOK, NEW t \in Threads, Reply(t)
  PROVE  /\ owed[t] \in Threads /\ running = t
         /\ running' = owed[t] /\ ready' = Append(ready, t)
         /\ owed' = [owed EXCEPT ![t] = Nobody]
         /\ calls' = calls /\ listening' = listening
         /\ KernelTypeOK'
<1>1. /\ owed[t] \in Threads /\ running = t
      /\ running' = owed[t] /\ ready' = Append(ready, t)
      /\ owed' = [owed EXCEPT ![t] = Nobody]
      /\ calls' = calls /\ listening' = listening
  BY DEF Reply, KernelTypeOK
<1>2. ready' \in Seq(Threads)
  BY <1>1, AppendProperties DEF KernelTypeOK
<1>3. owed' \in [Threads -> Threads \cup {Nobody}]
  BY <1>1 DEF KernelTypeOK
<1> QED BY <1>1, <1>2, <1>3 DEF KernelTypeOK

LEMMA CallDoes ==
  ASSUME Typed, NEW t \in Threads, DoCall(t), Step(t).at \in Endpoints
  PROVE  /\ Call(t, Step(t).at) /\ ~Cause(t)
         /\ pc' = pc /\ good' = good /\ granted' = granted /\ verdict' = verdict
         /\ demo' = demo /\ refused' = refused
         /\ Typed'
<1>1. /\ Call(t, Step(t).at) /\ ~Cause(t)
      /\ pc' = pc /\ good' = good /\ granted' = granted /\ verdict' = verdict
      /\ demo' = demo /\ refused' = refused
  BY DEF DoCall, Blocked, data
<1>2. KernelTypeOK'
  BY <1>1, CallTyped DEF Typed
<1> QED BY <1>1, <1>2 DEF Typed

LEMMA RecvDoes ==
  ASSUME Typed, NEW t \in Threads, DoRecv(t), Step(t).at \in Endpoints
  PROVE  /\ Recv(t, Step(t).at) /\ Moves(t, Step(t).then)
         /\ good' = good /\ granted' = granted /\ verdict' = verdict
         /\ demo' = demo /\ refused' = refused
         /\ Typed'
<1>1. /\ Recv(t, Step(t).at) /\ pc' = [pc EXCEPT ![t] = Step(t).then]
      /\ good' = good /\ granted' = granted /\ verdict' = verdict
      /\ demo' = demo /\ refused' = refused
  BY DEF DoRecv, Blocked, Done, data
<1>2. KernelTypeOK'
  BY <1>1, RecvTyped DEF Typed
<1>3. Moves(t, Step(t).then) /\ DOMAIN pc' = Threads
  BY <1>1 DEF Moves, Typed
<1> QED BY <1>1, <1>2, <1>3 DEF Typed

(* A mint and a delete are of the thread's own.                            *)
LEMMA OwnDoes ==
  ASSUME Typed, NEW t \in Threads, DoMint(t) \/ DoDelete(t)
  PROVE  /\ HartStays /\ Moves(t, Step(t).then)
         /\ good' = good /\ granted' = granted /\ verdict' = verdict
         /\ demo' = demo /\ refused' = refused
         /\ Typed'
<1>1. /\ HartStays /\ pc' = [pc EXCEPT ![t] = Step(t).then]
      /\ good' = good /\ granted' = granted /\ verdict' = verdict
      /\ demo' = demo /\ refused' = refused
  BY DEF DoMint, DoDelete, Done, GoesOn, kernel, HartStays
<1>2. Moves(t, Step(t).then) /\ DOMAIN pc' = Threads
  BY <1>1 DEF Moves, Typed
<1> QED BY <1>1, <1>2 DEF Typed, KernelTypeOK, HartStays

LEMMA SignalDoes ==
  ASSUME Typed, NEW t \in Threads, DoSignal(t)
  PROVE  /\ HartStays /\ Moves(t, Step(t).then) /\ ~Cause(t)
         /\ verdict' = IF Step(t).at = "FAILURE" THEN "FAILURE" ELSE "SUCCESS"
         /\ good' = good /\ granted' = granted
         /\ demo' = demo /\ refused' = refused
         /\ Typed'
<1>1. /\ HartStays /\ pc' = [pc EXCEPT ![t] = Step(t).then] /\ ~Cause(t)
      /\ verdict' = IF Step(t).at = "FAILURE" THEN "FAILURE" ELSE "SUCCESS"
      /\ good' = good /\ granted' = granted
      /\ demo' = demo /\ refused' = refused
  BY DEF DoSignal, Done, GoesOn, kernel, HartStays, data
<1>2. Moves(t, Step(t).then) /\ DOMAIN pc' = Threads
  BY <1>1 DEF Moves, Typed
<1> QED BY <1>1, <1>2 DEF Typed, KernelTypeOK, HartStays

(* A Reply moves the replier and the one it answers.                       *)
Resumes(t, u, n, m) ==
  pc'[t] = n /\ pc'[u] = m /\ \A v \in Threads \ {t, u} : pc'[v] = pc[v]

LEMMA GrantDoes ==
  ASSUME Typed, NEW t \in Threads, DoGrant(t), owed[t] # t
  PROVE  /\ Reply(t) /\ ~Cause(t)
         /\ Resumes(t, owed[t], Step(t).then, Step(owed[t]).then)
         /\ granted' = [granted EXCEPT ![t] = @ \cup {owed[t]}]
         /\ good' = good /\ verdict' = verdict /\ demo' = demo /\ refused' = refused
         /\ Typed'
<1>1. /\ Reply(t) /\ ~Cause(t)
      /\ pc' = [pc EXCEPT ![t] = Step(t).then, ![owed[t]] = Step(owed[t]).then]
      /\ granted' = [granted EXCEPT ![t] = @ \cup {owed[t]}]
      /\ good' = good /\ verdict' = verdict /\ demo' = demo /\ refused' = refused
  BY DEF DoGrant, Done
<1>2. owed[t] \in Threads /\ KernelTypeOK'
  BY <1>1, ReplyDoes DEF Typed
<1>3. Resumes(t, owed[t], Step(t).then, Step(owed[t]).then) /\ DOMAIN pc' = Threads
  BY <1>1, <1>2 DEF Resumes, Typed
<1>4. DOMAIN granted' = Endpoints
  BY <1>1 DEF Typed
<1> QED BY <1>1, <1>2, <1>3, <1>4 DEF Typed

LEMMA AnswerDoes ==
  ASSUME Typed, NEW t \in Threads, DoAnswer(t), owed[t] # t
  PROVE  /\ Reply(t) /\ ~Cause(t)
         /\ Resumes(t, owed[t], Step(t).then,
                    IF good[t] THEN Step(owed[t]).then ELSE Step(owed[t]).orElse)
         /\ good'[owed[t]] = good[t] /\ \A v \in Threads \ {owed[t]} : good'[v] = good[v]
         /\ granted' = granted /\ verdict' = verdict /\ demo' = demo /\ refused' = refused
         /\ Typed'
<1>1. /\ Reply(t) /\ ~Cause(t)
      /\ pc' = [pc EXCEPT ![t] = Step(t).then, ![owed[t]] = Onward(Step(owed[t]), good[t])]
      /\ good' = [good EXCEPT ![owed[t]] = good[t]]
      /\ granted' = granted /\ verdict' = verdict /\ demo' = demo /\ refused' = refused
  BY DEF DoAnswer, Done
<1>2. owed[t] \in Threads /\ KernelTypeOK'
  BY <1>1, ReplyDoes DEF Typed
<1>3. Resumes(t, owed[t], Step(t).then,
              IF good[t] THEN Step(owed[t]).then ELSE Step(owed[t]).orElse)
      /\ DOMAIN pc' = Threads
  BY <1>1, <1>2 DEF Resumes, Typed, Onward
<1>4. good' \in [Threads -> BOOLEAN]
      /\ good'[owed[t]] = good[t] /\ \A v \in Threads \ {owed[t]} : good'[v] = good[v]
  BY <1>1, <1>2 DEF Typed
<1> QED BY <1>1, <1>2, <1>3, <1>4 DEF Typed

-----------------------------------------------------------------------------
(* Where a Call, a Recv and a Reply leave the threads.                     *)
LEMMA CallWaits ==
  ASSUME Typed, NEW t \in Threads, NEW e \in Endpoints, Call(t, e), listening[e] = <<>>
  PROVE  /\ running = t /\ Switch /\ listening' = listening /\ owed' = owed
         /\ calls'[e] = Append(calls[e], t)
         /\ \A f \in Endpoints \ {e} : calls'[f] = calls[f]
BY DEF Call, Typed, KernelTypeOK

LEMMA CallSwitches ==
  ASSUME Typed, NEW t \in Threads, NEW e \in Endpoints, Call(t, e),
         NEW u \in Threads, listening[e] = <<u>>
  PROVE  /\ running = t /\ running' = u /\ ready' = ready /\ calls' = calls
         /\ listening'[e] = <<>>
         /\ \A f \in Endpoints \ {e} : listening'[f] = listening[f]
         /\ owed'[u] = t /\ \A v \in Threads \ {u} : owed'[v] = owed[v]
<1>1. listening[e] # <<>> /\ Head(listening[e]) = u /\ Tail(listening[e]) = <<>>
  OBVIOUS
<1>2. /\ running = t /\ running' = u /\ ready' = ready /\ calls' = calls
      /\ listening' = [listening EXCEPT ![e] = <<>>]
      /\ owed' = [owed EXCEPT ![u] = t]
  BY <1>1 DEF Call
<1> QED BY <1>2 DEF Typed, KernelTypeOK

LEMMA RecvWaits ==
  ASSUME Typed, NEW t \in Threads, NEW e \in Endpoints, Recv(t, e), calls[e] = <<>>
  PROVE  /\ running = t /\ Switch /\ calls' = calls /\ owed' = owed
         /\ listening'[e] = Append(listening[e], t)
         /\ \A f \in Endpoints \ {e} : listening'[f] = listening[f]
BY DEF Recv, Typed, KernelTypeOK

LEMMA RecvTakes ==
  ASSUME Typed, NEW t \in Threads, NEW e \in Endpoints, Recv(t, e),
         NEW u \in Threads, calls[e] = <<u>>
  PROVE  /\ running = t /\ running' = t /\ ready' = ready /\ listening' = listening
         /\ calls'[e] = <<>>
         /\ \A f \in Endpoints \ {e} : calls'[f] = calls[f]
         /\ owed'[t] = u /\ \A v \in Threads \ {t} : owed'[v] = owed[v]
<1>1. calls[e] # <<>> /\ Head(calls[e]) = u /\ Tail(calls[e]) = <<>>
  OBVIOUS
<1>2. /\ running = t /\ running' = t /\ ready' = ready /\ listening' = listening
      /\ calls' = [calls EXCEPT ![e] = <<>>]
      /\ owed' = [owed EXCEPT ![t] = u]
  BY <1>1 DEF Recv
<1> QED BY <1>2 DEF Typed, KernelTypeOK

LEMMA ReplyResumes ==
  ASSUME Typed, NEW t \in Threads, Reply(t), NEW u \in Threads, owed[t] = u
  PROVE  /\ running = t /\ running' = u /\ ready' = Append(ready, t)
         /\ owed'[t] = Nobody /\ \A v \in Threads \ {t} : owed'[v] = owed[v]
         /\ calls' = calls /\ listening' = listening
BY ReplyDoes DEF Typed, KernelTypeOK

LEMMA ClientRunsCall ==
  ASSUME Typed, ClientRuns, Listening(<<>>, <<>>), Call("client", "service")
  PROVE  ClientCalls' /\ Listening(<<>>, <<>>)'
<1>1. /\ Switch /\ listening' = listening /\ owed' = owed
      /\ calls'["service"] = Append(calls["service"], "client")
      /\ calls'["store"] = calls["store"]
  BY Names, CallWaits DEF Listening
<1>2. calls'["service"] = <<"client">> /\ running' = "service" /\ ready' = <<>>
  BY <1>1, Queues DEF Switch, ClientRuns, Hart, Waiting
<1> QED BY <1>1, <1>2 DEF ClientRuns, ClientCalls, Hart, Waiting, Owed, Listening

LEMMA ClientCallsRecv ==
  ASSUME Typed, ClientCalls, Listening(<<>>, <<>>), Recv("service", "service")
  PROVE  ClientServed' /\ Listening(<<>>, <<>>)'
<1>1. calls["service"] = <<"client">>
  BY DEF ClientCalls, Waiting
<1>2. /\ running' = "service" /\ ready' = ready /\ listening' = listening
      /\ calls'["service"] = <<>> /\ calls'["store"] = calls["store"]
      /\ owed'["service"] = "client" /\ owed'["store"] = owed["store"]
  BY <1>1, Names, RecvTakes
<1> QED BY <1>2 DEF ClientCalls, ClientServed, Hart, Waiting, Owed, Listening

LEMMA ClientServedReply ==
  ASSUME Typed, ClientServed, Listening(<<>>, <<>>), Reply("service")
  PROVE  ClientRuns' /\ Listening(<<>>, <<>>)'
<1>1. owed["service"] = "client"
  BY DEF ClientServed, Owed
<1>2. /\ running' = "client" /\ ready' = Append(ready, "service")
      /\ owed'["service"] = Nobody /\ owed'["store"] = owed["store"]
      /\ calls' = calls /\ listening' = listening
  BY <1>1, Names, ReplyResumes
<1>3. ready' = <<"service">>
  BY <1>2, Queues DEF ClientServed, Hart
<1> QED BY <1>2, <1>3 DEF ClientServed, ClientRuns, Hart, Waiting, Owed, Listening

LEMMA StaysWhere ==
  ASSUME HartStays
  PROVE  /\ (Listening(<<>>, <<>>))' = Listening(<<>>, <<>>)
         /\ ClientRuns' = ClientRuns /\ ClientCalls' = ClientCalls
         /\ ClientServed' = ClientServed
BY DEF HartStays, Listening, ClientRuns, ClientCalls, ClientServed, Hart, Waiting, Owed

-----------------------------------------------------------------------------
(* The broker's demo.                                                      *)
Kept == Typed' /\ demo' = demo /\ good'["service"]

LEMMA BrokerWayStep ==
  ASSUME Typed, demo = "broker", good["service"], OnTheWay, NEW t \in Threads, ThreadStep(t)
  PROVE  Kept /\ (OnTheWay \/ OffTheWay)'
<1>1. BrokerWay /\ refused \subseteq Free(demo) /\ Listening(<<>>, <<>>)
  BY DEF OnTheWay, Way, BrokerWay
<1>2. running = t /\ pc[t] # 0
  BY WhoActs
<1>3. verdict = "none"
  BY <1>2 DEF OnTheWay
<1>4. ASSUME demo' = demo, BrokerWay', refused' = refused, verdict' = "none"
      PROVE  OnTheWay'
  BY <1>1, <1>4 DEF OnTheWay, Way
<1>5. CASE ClientRuns /\ At2({1}, {1}) /\ "client" \notin granted["service"]
  <2>1. t = "client" /\ pc[t] = 1 /\ Step(t) = At("Register", "service", 2, 2)
    BY <1>2, <1>5, BrokerSteps DEF ClientRuns, Hart, At2
  <2>2. Refuse(t) \/ DoCall(t)
    BY <2>1, WhichAct DEF At
  <2>3. CASE Refuse(t)
    <3>1. HartStays /\ Kept /\ granted' = granted /\ verdict' = verdict /\ Moves(t, 2)
          /\ good' = good
      BY <2>1, <2>3, RefuseDoes DEF At, Kept
    <3>2. ClientUngranted'
      BY <1>2, <1>5, <2>1, <3>1 DEF ClientUngranted, HartStays, Moves, Kept
    <3> QED BY <1>3, <3>1, <3>2 DEF OffTheWay
  <2>4. CASE DoCall(t)
    <3>1. Call("client", "service") /\ Kept /\ pc' = pc /\ verdict' = verdict
          /\ refused' = refused
      BY <2>1, <2>4, Names, CallDoes DEF At, Kept
    <3>2. ClientCalls' /\ Listening(<<>>, <<>>)'
      BY <1>1, <1>5, <3>1, ClientRunsCall
    <3>3. BrokerWay'
      BY <1>5, <3>1, <3>2 DEF BrokerWay, At2
    <3> QED BY <1>3, <1>4, <3>1, <3>3 DEF Kept
  <2> QED BY <2>2, <2>3, <2>4
<1>6. CASE ClientCalls /\ At2({1}, {1})
  <2>1. t = "service" /\ pc[t] = 1 /\ Step(t) = At("Recv", "service", 2, 2)
    BY <1>2, <1>6, BrokerSteps DEF ClientCalls, Hart, At2
  <2>2. Refuse(t) \/ DoRecv(t)
    BY <2>1, WhichAct DEF At
  <2>3. CASE Refuse(t)
    <3>1. HartStays /\ Kept /\ verdict' = verdict /\ Moves(t, 2)
      BY <2>1, <2>3, RefuseDoes DEF At, Kept
    <3>2. ServiceOwesNobody'
      BY <1>2, <1>6, <2>1, <3>1 DEF ServiceOwesNobody, HartStays, Moves, Kept, ClientCalls, Owed
    <3> QED BY <1>3, <3>1, <3>2 DEF OffTheWay
  <2>4. CASE DoRecv(t)
    <3>1. Recv("service", "service") /\ Kept /\ Moves("service", 2) /\ verdict' = verdict
          /\ refused' = refused
      BY <2>1, <2>4, Names, RecvDoes DEF At, Kept
    <3>2. ClientServed' /\ Listening(<<>>, <<>>)'
      BY <1>1, <1>6, <3>1, ClientCallsRecv
    <3>3. BrokerWay'
      BY <1>6, <3>1, <3>2, Names DEF BrokerWay, At2, Moves
    <3> QED BY <1>3, <1>4, <3>1, <3>3 DEF Kept
  <2> QED BY <2>2, <2>3, <2>4
<1>7. CASE ClientServed /\ At2({1}, {2, 3})
  <2>1. t = "service"
    BY <1>2, <1>7 DEF ClientServed, Hart
  <2>2. CASE pc["service"] = 2
    <3>1. Step(t) = At("Mint", "none", 3, 0)
      BY <2>1, <2>2, BrokerSteps
    <3>2. Refuse(t) \/ DoMint(t)
      BY <3>1, WhichAct DEF At
    <3>3. CASE Refuse(t)
      <4>1. HartStays /\ Kept /\ verdict' = verdict /\ Moves(t, 0)
        BY <3>1, <3>3, RefuseDoes DEF At, Kept
      <4>2. ServiceSpins'
        BY <1>2, <2>1, <4>1 DEF ServiceSpins, HartStays, Moves
      <4> QED BY <1>3, <4>1, <4>2 DEF OffTheWay
    <3>4. CASE DoMint(t)
      <4>1. HartStays /\ Kept /\ Moves("service", 3) /\ verdict' = verdict /\ refused' = refused
        BY <2>1, <3>1, <3>4, OwnDoes DEF At, Kept
      <4>2. BrokerWay'
        BY <1>1, <1>7, <4>1, Names, StaysWhere DEF BrokerWay, At2, Moves
      <4> QED BY <1>3, <1>4, <4>1, <4>2 DEF Kept
    <3> QED BY <3>2, <3>3, <3>4
  <2>3. CASE pc["service"] = 3
    <3>1. Step(t) = At("Grant", "none", 0, 0)
      BY <2>1, <2>3, BrokerSteps
    <3>2. Refuse(t) \/ DoGrant(t)
      BY <3>1, WhichAct DEF At
    <3>3. CASE Refuse(t)
      <4>1. HartStays /\ Kept /\ verdict' = verdict /\ Moves(t, 0)
        BY <3>1, <3>3, RefuseDoes DEF At, Kept
      <4>2. ServiceSpins'
        BY <1>2, <2>1, <4>1 DEF ServiceSpins, HartStays, Moves
      <4> QED BY <1>3, <4>1, <4>2 DEF OffTheWay
    <3>4. CASE DoGrant(t)
      <4>1. owed["service"] = "client" /\ Step("client") = At("Register", "service", 2, 2)
        BY <1>7, BrokerSteps DEF ClientServed, Owed, At2
      <4>2. Reply("service") /\ Kept /\ Resumes("service", "client", 0, 2)
            /\ verdict' = verdict /\ refused' = refused
        BY <2>1, <3>1, <3>4, <4>1, Names, GrantDoes DEF At, Kept
      <4>3. ClientRuns' /\ Listening(<<>>, <<>>)'
        BY <1>1, <1>7, <4>2, ClientServedReply
      <4>4. BrokerWay'
        BY <4>2, <4>3 DEF BrokerWay, At2, Resumes
      <4> QED BY <1>3, <1>4, <4>2, <4>4 DEF Kept
    <3> QED BY <3>2, <3>3, <3>4
  <2> QED BY <1>7, <2>2, <2>3 DEF At2
<1>8. CASE ClientRuns /\ At2({0, 2}, {0})
  <2>1. t = "client" /\ pc[t] = 2 /\ Step(t) = At("Signal", "DEST", 0, 0)
    BY <1>2, <1>8, BrokerSteps DEF ClientRuns, Hart, At2
  <2>2. Refuse(t) \/ DoSignal(t)
    BY <2>1, WhichAct DEF At
  <2>3. CASE Refuse(t)
    <3>1. HartStays /\ Kept /\ verdict' = verdict /\ Moves(t, 0)
      BY <2>1, <2>3, RefuseDoes DEF At, Kept
    <3>2. ClientFails'
      BY <1>2, <2>1, <3>1 DEF ClientFails, HartStays, Moves
    <3> QED BY <1>3, <3>1, <3>2 DEF OffTheWay
  <2>4. CASE DoSignal(t)
    <3>1. HartStays /\ Kept /\ Moves("client", 0) /\ refused' = refused
      BY <2>1, <2>4, SignalDoes DEF At, Kept
    <3>2. BrokerWay'
      BY <1>1, <1>8, <3>1, Names, StaysWhere DEF BrokerWay, At2, Moves
    <3>3. running' = "client" /\ pc'["client"] = 0
      BY <1>2, <2>1, <3>1 DEF HartStays, Moves
    <3> QED BY <1>1, <3>1, <3>2, <3>3 DEF OnTheWay, Way, Kept
  <2> QED BY <2>2, <2>3, <2>4
<1> QED BY <1>1, <1>5, <1>6, <1>7, <1>8 DEF BrokerWay

-----------------------------------------------------------------------------
(* The frame demo.                                                         *)
LEMMA FrameWayStep ==
  ASSUME Typed, demo = "frame", good["service"], OnTheWay, NEW t \in Threads, ThreadStep(t)
  PROVE  Kept /\ (OnTheWay \/ OffTheWay)'
<1>1. FrameWay /\ refused \subseteq Free(demo) /\ Listening(<<>>, <<>>)
  BY DEF OnTheWay, Way, FrameWay
<1>2. running = t /\ pc[t] # 0
  BY WhoActs
<1>3. verdict = "none"
  BY <1>2 DEF OnTheWay
<1>4. ASSUME demo' = demo, FrameWay', refused' = refused, verdict' = "none"
      PROVE  OnTheWay'
  BY <1>1, <1>4 DEF OnTheWay, Way
<1>5. CASE ClientRuns /\ At2({1}, {1})
  <2>1. t = "client" /\ pc[t] = 1 /\ Step(t) = At("Ask", "service", 2, 3)
    BY <1>2, <1>5, FrameSteps DEF ClientRuns, Hart, At2
  <2>2. Refuse(t) \/ DoCall(t)
    BY <2>1, WhichAct DEF At
  <2>3. CASE Refuse(t)
    <3>1. HartStays /\ Kept /\ verdict' = verdict /\ Moves(t, 3)
      BY <2>1, <2>3, Names, RefuseDoes DEF At, Kept
    <3>2. ClientFails'
      BY <1>2, <2>1, <3>1 DEF ClientFails, HartStays, Moves, Kept
    <3> QED BY <1>3, <3>1, <3>2 DEF OffTheWay
  <2>4. CASE DoCall(t)
    <3>1. Call("client", "service") /\ Kept /\ pc' = pc /\ verdict' = verdict
          /\ refused' = refused
      BY <2>1, <2>4, Names, CallDoes DEF At, Kept
    <3>2. ClientCalls' /\ Listening(<<>>, <<>>)'
      BY <1>1, <1>5, <3>1, ClientRunsCall
    <3>3. FrameWay'
      BY <1>5, <3>1, <3>2 DEF FrameWay, At2
    <3> QED BY <1>3, <1>4, <3>1, <3>3 DEF Kept
  <2> QED BY <2>2, <2>3, <2>4
<1>6. CASE ClientCalls /\ At2({1}, {1})
  <2>1. t = "service" /\ pc[t] = 1 /\ Step(t) = At("Recv", "service", 2, 0)
    BY <1>2, <1>6, FrameSteps DEF ClientCalls, Hart, At2
  <2>2. Refuse(t) \/ DoRecv(t)
    BY <2>1, WhichAct DEF At
  <2>3. CASE Refuse(t)
    <3>1. HartStays /\ Kept /\ verdict' = verdict /\ Moves(t, 0)
      BY <2>1, <2>3, RefuseDoes DEF At, Kept
    <3>2. ServiceSpins'
      BY <1>2, <2>1, <3>1 DEF ServiceSpins, HartStays, Moves
    <3> QED BY <1>3, <3>1, <3>2 DEF OffTheWay
  <2>4. CASE DoRecv(t)
    <3>1. Recv("service", "service") /\ Kept /\ Moves("service", 2) /\ verdict' = verdict
          /\ refused' = refused
      BY <2>1, <2>4, Names, RecvDoes DEF At, Kept
    <3>2. ClientServed' /\ Listening(<<>>, <<>>)'
      BY <1>1, <1>6, <3>1, ClientCallsRecv
    <3>3. FrameWay'
      BY <1>6, <3>1, <3>2, Names DEF FrameWay, At2, Moves
    <3> QED BY <1>3, <1>4, <3>1, <3>3 DEF Kept
  <2> QED BY <2>2, <2>3, <2>4
<1>7. CASE ClientServed /\ At2({1}, {2})
  <2>1. t = "service" /\ Step(t) = At("Answer", "none", 0, 0)
    BY <1>2, <1>7, FrameSteps DEF ClientServed, Hart, At2
  <2>2. Refuse(t) \/ DoAnswer(t)
    BY <2>1, WhichAct DEF At
  <2>3. CASE Refuse(t)
    <3>1. HartStays /\ Kept /\ verdict' = verdict /\ Moves(t, 0)
      BY <2>1, <2>3, RefuseDoes DEF At, Kept
    <3>2. ServiceSpins'
      BY <1>2, <2>1, <3>1 DEF ServiceSpins, HartStays, Moves
    <3> QED BY <1>3, <3>1, <3>2 DEF OffTheWay
  <2>4. CASE DoAnswer(t)
    <3>1. owed["service"] = "client" /\ Step("client") = At("Ask", "service", 2, 3)
      BY <1>7, FrameSteps DEF ClientServed, Owed, At2
    <3>2. Reply("service") /\ Kept /\ Resumes("service", "client", 0, 2)
          /\ verdict' = verdict /\ refused' = refused
      BY <2>1, <2>4, <3>1, Names, AnswerDoes DEF At, Kept
    <3>3. ClientRuns' /\ Listening(<<>>, <<>>)'
      BY <1>1, <1>7, <3>2, ClientServedReply
    <3>4. FrameWay'
      BY <3>2, <3>3 DEF FrameWay, At2, Resumes
    <3> QED BY <1>3, <1>4, <3>2, <3>4 DEF Kept
  <2> QED BY <2>2, <2>3, <2>4
<1>8. CASE ClientRuns /\ At2({0, 2}, {0})
  <2>1. t = "client" /\ pc[t] = 2 /\ Step(t) = At("Signal", "SUCCESS", 0, 0)
    BY <1>2, <1>8, FrameSteps DEF ClientRuns, Hart, At2
  <2>2. Refuse(t) \/ DoSignal(t)
    BY <2>1, WhichAct DEF At
  <2>3. CASE Refuse(t)
    <3>1. HartStays /\ Kept /\ verdict' = verdict /\ Moves(t, 0)
      BY <2>1, <2>3, RefuseDoes DEF At, Kept
    <3>2. ClientFails'
      BY <1>2, <2>1, <3>1 DEF ClientFails, HartStays, Moves
    <3> QED BY <1>3, <3>1, <3>2 DEF OffTheWay
  <2>4. CASE DoSignal(t)
    <3>1. HartStays /\ Kept /\ Moves("client", 0) /\ refused' = refused
      BY <2>1, <2>4, SignalDoes DEF At, Kept
    <3>2. FrameWay'
      BY <1>1, <1>8, <3>1, Names, StaysWhere DEF FrameWay, At2, Moves
    <3>3. running' = "client" /\ pc'["client"] = 0
      BY <1>2, <2>1, <3>1 DEF HartStays, Moves
    <3> QED BY <1>1, <3>1, <3>2, <3>3 DEF OnTheWay, Way, Kept
  <2> QED BY <2>2, <2>3, <2>4
<1> QED BY <1>1, <1>5, <1>6, <1>7, <1>8 DEF FrameWay

-----------------------------------------------------------------------------
(* The keystore's demo, by which of the two runs.                          *)
LEMMA KeystoreKeepsWay ==
  ASSUME demo = "keystore", demo' = demo, KeystoreWay', refused' \subseteq Free("keystore"),
         verdict' = "none"
  PROVE  OnTheWay'
BY DEF OnTheWay, Way

LEMMA KeystoreClientStep ==
  ASSUME Typed, demo = "keystore", good["service"], OnTheWay, ThreadStep("client")
  PROVE  Kept /\ (OnTheWay \/ OffTheWay)'
<1>1. KeystoreWay /\ refused \subseteq Free("keystore") /\ Listening(<<>>, <<>>)
  BY DEF OnTheWay, Way, KeystoreWay
<1>2. running = "client" /\ pc["client"] # 0 /\ "client" \in Threads
  BY Names, WhoActs
<1>3. verdict = "none"
  BY <1>2 DEF OnTheWay
<1>4. /\ ClientRuns
      /\ \/ At2({1}, {1}) /\ "client" \notin granted["service"]
         \/ At2({2}, {4})
         \/ At2({3, 4}, {5})
  BY <1>1, <1>2 DEF KeystoreWay, ClientCalls, ClientServed, Hart, At2
<1>5. ASSUME DoCall("client"), Step("client").at = "service",
             At2({1}, {1}) \/ At2({2, 3}, {4, 5})
      PROVE  Kept /\ OnTheWay'
  <2>1. Call("client", "service") /\ Kept /\ pc' = pc /\ verdict' = verdict
        /\ refused' = refused
    BY <1>5, Names, CallDoes DEF Kept
  <2>2. ClientCalls' /\ Listening(<<>>, <<>>)'
    BY <1>1, <1>4, <2>1, ClientRunsCall
  <2>3. KeystoreWay'
    BY <1>5, <2>1, <2>2 DEF KeystoreWay, At2
  <2> QED BY <1>1, <1>3, <2>1, <2>3, KeystoreKeepsWay DEF Kept
<1>6. ASSUME Refuse("client"), Step("client").orElse \in {0, 5}
      PROVE  Kept /\ OffTheWay'
  <2>1. HartStays /\ Kept /\ verdict' = verdict /\ Moves("client", Step("client").orElse)
    BY <1>2, <1>6, Names, RefuseDoes DEF Kept
  <2>2. ClientFails'
    BY <1>2, <1>6, <2>1 DEF ClientFails, HartStays, Moves, Kept
  <2> QED BY <1>3, <2>1, <2>2 DEF OffTheWay
<1>7. CASE At2({1}, {1}) /\ "client" \notin granted["service"]
  <2>1. pc["client"] = 1 /\ Step("client") = At("Register", "service", 2, 2)
    BY <1>7, KeystoreClientSteps DEF At2
  <2>2. Refuse("client") \/ DoCall("client")
    BY <1>2, <2>1, WhichAct DEF At
  <2>3. CASE Refuse("client")
    <3>1. HartStays /\ Kept /\ granted' = granted /\ verdict' = verdict /\ Moves("client", 2)
      BY <1>2, <2>1, <2>3, RefuseDoes DEF At, Kept
    <3>2. ClientUngranted'
      BY <1>2, <1>7, <3>1 DEF ClientUngranted, HartStays, Moves, Kept
    <3> QED BY <1>3, <3>1, <3>2 DEF OffTheWay
  <2>4. CASE DoCall("client")
    BY <1>5, <1>7, <2>1, <2>4 DEF At
  <2> QED BY <2>2, <2>3, <2>4
<1>8. CASE At2({2}, {4}) \/ At2({3}, {5})
  <2>1. Step("client").sys = "Request" /\ Step("client").at = "service"
        /\ Step("client").orElse = 5
    BY <1>8, KeystoreClientSteps DEF At2, At
  <2>2. Refuse("client") \/ DoCall("client")
    BY <1>2, <2>1, WhichAct
  <2>3. At2({2, 3}, {4, 5})
    BY <1>8 DEF At2
  <2> QED BY <1>5, <1>6, <2>1, <2>2, <2>3
<1>9. CASE At2({4}, {5})
  <2>1. pc["client"] = 4 /\ Step("client") = At("Signal", "SUCCESS", 0, 0)
    BY <1>9, KeystoreClientSteps DEF At2
  <2>2. Refuse("client") \/ DoSignal("client")
    BY <1>2, <2>1, WhichAct DEF At
  <2>3. CASE Refuse("client")
    BY <1>6, <2>1, <2>3 DEF At
  <2>4. CASE DoSignal("client")
    <3>1. HartStays /\ Kept /\ Moves("client", 0) /\ refused' = refused
      BY <1>2, <2>1, <2>4, SignalDoes DEF At, Kept
    <3>2. KeystoreWay'
      BY <1>1, <1>4, <1>9, <3>1, Names, StaysWhere DEF KeystoreWay, At2, Moves
    <3>3. running' = "client" /\ pc'["client"] = 0
      BY <1>2, <3>1 DEF HartStays, Moves
    <3> QED BY <1>1, <3>1, <3>2, <3>3 DEF OnTheWay, Way, Kept
  <2> QED BY <2>2, <2>3, <2>4
<1>10. At2({3, 4}, {5}) => At2({3}, {5}) \/ At2({4}, {5})
  BY DEF At2
<1> QED BY <1>4, <1>7, <1>8, <1>9, <1>10

LEMMA KeystoreServiceStep ==
  ASSUME Typed, demo = "keystore", good["service"], OnTheWay, ThreadStep("service")
  PROVE  Kept /\ (OnTheWay \/ OffTheWay)'
<1>1. KeystoreWay /\ refused \subseteq Free("keystore") /\ Listening(<<>>, <<>>)
  BY DEF OnTheWay, Way, KeystoreWay
<1>2. running = "service" /\ pc["service"] # 0 /\ "service" \in Threads
  BY Names, WhoActs
<1>3. verdict = "none"
  BY <1>2 DEF OnTheWay
<1>4. \/ ClientCalls /\ At2({1}, {1})
      \/ ClientCalls /\ At2({2, 3}, {4})
      \/ ClientCalls /\ At2({2, 3}, {5})
      \/ ClientServed /\ At2({1}, {2})
      \/ ClientServed /\ At2({1}, {3})
      \/ ClientServed /\ At2({2, 3}, {6})
  BY <1>1, <1>2 DEF KeystoreWay, ClientRuns, Hart, At2
<1>5. ASSUME Refuse("service"), Step("service").orElse = 0,
             Step("service").sys \in {"Mint", "Grant"}
      PROVE  Kept /\ OffTheWay'
  <2>1. HartStays /\ Kept /\ verdict' = verdict /\ Moves("service", 0)
    BY <1>2, <1>5, Names, RefuseDoes DEF Kept
  <2>2. ServiceSpins'
    BY <1>2, <2>1 DEF ServiceSpins, HartStays, Moves
  <2> QED BY <1>3, <2>1, <2>2 DEF OffTheWay
<1>6. ASSUME ClientCalls, DoRecv("service"), Step("service").at = "service",
             \/ At2({1}, {1}) /\ Step("service").then = 2
             \/ At2({2, 3}, {5}) /\ Step("service").then = 6
      PROVE  Kept /\ OnTheWay'
  <2>1. Recv("service", "service") /\ Kept /\ Moves("service", Step("service").then)
        /\ verdict' = verdict /\ refused' = refused
    BY <1>2, <1>6, Names, RecvDoes DEF Kept
  <2>2. ClientServed' /\ Listening(<<>>, <<>>)'
    BY <1>1, <1>6, <2>1, ClientCallsRecv
  <2>3. pc'["client"] = pc["client"] /\ pc'["service"] = Step("service").then
    BY <2>1, Names DEF Moves
  <2>4. KeystoreWay'
    BY <1>6, <2>2, <2>3 DEF KeystoreWay, At2
  <2> QED BY <1>1, <1>3, <2>1, <2>4, KeystoreKeepsWay DEF Kept
<1>7. CASE ClientCalls /\ At2({1}, {1})
  <2>1. pc["service"] = 1 /\ Step("service") = At("Recv", "service", 2, 2)
    BY <1>7, KeystoreServiceSteps DEF At2
  <2>2. Refuse("service") \/ DoRecv("service")
    BY <1>2, <2>1, WhichAct DEF At
  <2>3. CASE Refuse("service")
    <3>1. HartStays /\ Kept /\ verdict' = verdict /\ Moves("service", 2)
      BY <1>2, <2>1, <2>3, RefuseDoes DEF At, Kept
    <3>2. ServiceOwesNobody'
      BY <1>2, <1>7, <3>1 DEF ServiceOwesNobody, HartStays, Moves, Kept, ClientCalls, Owed
    <3> QED BY <1>3, <3>1, <3>2 DEF OffTheWay
  <2>4. CASE DoRecv("service")
    BY <1>6, <1>7, <2>1, <2>4 DEF At
  <2> QED BY <2>2, <2>3, <2>4
<1>8. CASE ClientCalls /\ At2({2, 3}, {4})
  <2>1. pc["service"] = 4 /\ Step("service") = At("Delete", "none", 5, 5)
    BY <1>8, KeystoreServiceSteps DEF At2
  <2>2. Refuse("service") \/ DoDelete("service")
    BY <1>2, <2>1, WhichAct DEF At
  <2>3. HartStays /\ Kept /\ verdict' = verdict /\ Moves("service", 5)
        /\ refused' \subseteq Free("keystore")
    <3>1. CASE Refuse("service")
      <4>1. HartStays /\ Kept /\ verdict' = verdict /\ Moves("service", 5)
            /\ refused' \subseteq refused \cup {<<"service", 4>>}
        BY <1>2, <2>1, <3>1, RefuseDoes DEF At, Kept
      <4> QED BY <1>1, <4>1 DEF Free
    <3>2. CASE DoDelete("service")
      BY <1>1, <1>2, <2>1, <3>2, OwnDoes DEF At, Kept
    <3> QED BY <2>2, <3>1, <3>2
  <2>4. KeystoreWay'
    BY <1>1, <1>8, <2>3, Names, StaysWhere DEF KeystoreWay, At2, Moves
  <2> QED BY <1>3, <2>3, <2>4, KeystoreKeepsWay DEF Kept
<1>9. CASE ClientCalls /\ At2({2, 3}, {5})
  <2>1. pc["service"] = 5 /\ Step("service") = At("Recv", "service", 6, 5)
    BY <1>9, KeystoreServiceSteps DEF At2
  <2>2. Refuse("service") \/ DoRecv("service")
    BY <1>2, <2>1, WhichAct DEF At
  <2>3. CASE Refuse("service")
    <3>1. HartStays /\ Kept /\ verdict' = verdict /\ Moves("service", 5)
          /\ refused' \subseteq refused \cup {<<"service", 5>>}
      BY <1>2, <2>1, <2>3, RefuseDoes DEF At, Kept
    <3>2. refused' \subseteq Free("keystore")
      BY <1>1, <3>1 DEF Free
    <3>3. KeystoreWay'
      BY <1>1, <1>9, <3>1, Names, StaysWhere DEF KeystoreWay, At2, Moves
    <3> QED BY <1>3, <3>1, <3>2, <3>3, KeystoreKeepsWay DEF Kept
  <2>4. CASE DoRecv("service")
    BY <1>6, <1>9, <2>1, <2>4 DEF At
  <2> QED BY <2>2, <2>3, <2>4
<1>10. CASE ClientServed /\ At2({1}, {2})
  <2>1. Step("service") = At("Mint", "none", 3, 0)
    BY <1>10, KeystoreServiceSteps DEF At2
  <2>2. Refuse("service") \/ DoMint("service")
    BY <1>2, <2>1, WhichAct DEF At
  <2>3. CASE Refuse("service")
    BY <1>5, <2>1, <2>3 DEF At
  <2>4. CASE DoMint("service")
    <3>1. HartStays /\ Kept /\ Moves("service", 3) /\ verdict' = verdict /\ refused' = refused
      BY <1>2, <2>1, <2>4, OwnDoes DEF At, Kept
    <3>2. KeystoreWay'
      BY <1>1, <1>10, <3>1, Names, StaysWhere DEF KeystoreWay, At2, Moves
    <3> QED BY <1>1, <1>3, <3>1, <3>2, KeystoreKeepsWay DEF Kept
  <2> QED BY <2>2, <2>3, <2>4
<1>11. CASE ClientServed /\ At2({1}, {3})
  <2>1. Step("service") = At("Grant", "none", 4, 0)
    BY <1>11, KeystoreServiceSteps DEF At2
  <2>2. Refuse("service") \/ DoGrant("service")
    BY <1>2, <2>1, WhichAct DEF At
  <2>3. CASE Refuse("service")
    BY <1>5, <2>1, <2>3 DEF At
  <2>4. CASE DoGrant("service")
    <3>1. owed["service"] = "client" /\ Step("client") = At("Register", "service", 2, 2)
      BY <1>11, KeystoreClientSteps DEF ClientServed, Owed, At2
    <3>2. Reply("service") /\ Kept /\ Resumes("service", "client", 4, 2)
          /\ verdict' = verdict /\ refused' = refused
      BY <1>2, <2>1, <2>4, <3>1, GrantDoes DEF At, Kept
    <3>3. ClientRuns' /\ Listening(<<>>, <<>>)'
      BY <1>1, <1>11, <3>2, ClientServedReply
    <3>4. KeystoreWay'
      BY <3>2, <3>3 DEF KeystoreWay, At2, Resumes
    <3> QED BY <1>1, <1>3, <3>2, <3>4, KeystoreKeepsWay DEF Kept
  <2> QED BY <2>2, <2>3, <2>4
<1>12. CASE ClientServed /\ At2({2, 3}, {6})
  <2>1. Step("service") = At("Answer", "none", 5, 5)
    BY <1>12, KeystoreServiceSteps DEF At2
  <2>2. Refuse("service") \/ DoAnswer("service")
    BY <1>2, <2>1, WhichAct DEF At
  <2>3. CASE Refuse("service")
    <3>1. HartStays /\ Kept /\ verdict' = verdict /\ Moves("service", 5)
      BY <1>2, <2>1, <2>3, RefuseDoes DEF At, Kept
    <3>2. ServiceUncalled'
      BY <1>12, <3>1 DEF ServiceUncalled, HartStays, Moves, Kept, ClientServed, Hart, Waiting
    <3> QED BY <1>3, <3>1, <3>2 DEF OffTheWay
  <2>4. CASE DoAnswer("service")
    <3>1. owed["service"] = "client" /\ Step("client").then \in {3, 4}
      BY <1>12, KeystoreClientSteps DEF ClientServed, Owed, At2, At
    <3>2. Reply("service") /\ Kept /\ Resumes("service", "client", 5, Step("client").then)
          /\ verdict' = verdict /\ refused' = refused
      BY <1>2, <2>1, <2>4, <3>1, Names, AnswerDoes DEF At, Kept
    <3>3. ClientRuns' /\ Listening(<<>>, <<>>)'
      BY <1>1, <1>12, <3>2, ClientServedReply
    <3>4. KeystoreWay'
      BY <3>1, <3>2, <3>3 DEF KeystoreWay, At2, Resumes
    <3> QED BY <1>1, <1>3, <3>2, <3>4, KeystoreKeepsWay DEF Kept
  <2> QED BY <2>2, <2>3, <2>4
<1> QED BY <1>4, <1>7, <1>8, <1>9, <1>10, <1>11, <1>12

LEMMA KeystoreWayStep ==
  ASSUME Typed, demo = "keystore", good["service"], OnTheWay, NEW t \in Threads, ThreadStep(t)
  PROVE  Kept /\ (OnTheWay \/ OffTheWay)'
<1>1. running = t
  BY WhoActs
<1>2. t = "client" \/ t = "service"
  BY <1>1 DEF OnTheWay, Way, KeystoreWay, ClientRuns, ClientCalls, ClientServed, Hart
<1> QED BY <1>2, KeystoreClientStep, KeystoreServiceStep

-----------------------------------------------------------------------------
(* The store's demo: where each system call takes the three programs.      *)
LEMMA PlaceStays ==
  ASSUME HartStays, NEW r, NEW q, NEW l, NEW w, NEW s, NEW o, Place(r, q, l, w, s, o)
  PROVE  Place(r, q, l, w, s, o)'
BY DEF HartStays, Place, Hart, Listening, Waiting, Owed

(* The client's Call, when the store does not listen.                      *)
LEMMA PlaceClientCall ==
  ASSUME Typed, NEW l, Call("client", "store")
  PROVE  /\ Place("client", <<"service", "store">>, l, <<>>, Nobody, Nobody)
              => Place("service", <<"store">>, l, <<"client">>, Nobody, Nobody)'
         /\ Place("client", <<"store">>, l, <<>>, Nobody, Nobody)
              => Place("store", <<>>, l, <<"client">>, Nobody, Nobody)'
<1> SUFFICES ASSUME listening["store"] = <<>>, calls["store"] = <<>>
             PROVE  /\ Place("client", <<"service", "store">>, l, <<>>, Nobody, Nobody)
                         => Place("service", <<"store">>, l, <<"client">>, Nobody, Nobody)'
                    /\ Place("client", <<"store">>, l, <<>>, Nobody, Nobody)
                         => Place("store", <<>>, l, <<"client">>, Nobody, Nobody)'
  BY DEF Place, Listening, Waiting
<1>1. /\ Switch /\ listening' = listening /\ owed' = owed
      /\ calls'["store"] = Append(calls["store"], "client")
      /\ calls'["service"] = calls["service"]
  BY Names, CallWaits
<1>2. calls'["store"] = <<"client">>
  BY <1>1, Queues
<1>3. ready = <<"service", "store">> => running' = "service" /\ ready' = <<"store">>
  BY <1>1, Queues DEF Switch
<1>4. ready = <<"store">> => running' = "store" /\ ready' = <<>>
  BY <1>1, Queues DEF Switch
<1> QED BY <1>1, <1>2, <1>3, <1>4 DEF Place, Hart, Listening, Waiting, Owed

LEMMA PlaceServiceRecv ==
  ASSUME Typed, Recv("service", "service"),
         Place("service", <<"store">>, <<>>, <<"client">>, Nobody, Nobody)
  PROVE  Place("store", <<>>, <<"service">>, <<"client">>, Nobody, Nobody)'
<1>1. calls["service"] = <<>> /\ listening["service"] = <<>> /\ ready = <<"store">>
  BY DEF Place, Hart, Listening, Waiting
<1>2. /\ Switch /\ calls' = calls /\ owed' = owed
      /\ listening'["service"] = Append(listening["service"], "service")
      /\ listening'["store"] = listening["store"]
  BY <1>1, Names, RecvWaits
<1>3. listening'["service"] = <<"service">> /\ running' = "store" /\ ready' = <<>>
  BY <1>1, <1>2, Queues DEF Switch
<1> QED BY <1>2, <1>3 DEF Place, Hart, Listening, Waiting, Owed

LEMMA PlaceStoreCall ==
  ASSUME Typed, Call("store", "service"), NEW w, NEW o,
         Place("store", <<>>, <<"service">>, w, Nobody, o)
  PROVE  Place("service", <<>>, <<>>, w, "store", o)'
<1>1. listening["service"] = <<"service">>
  BY DEF Place, Listening
<1>2. /\ running' = "service" /\ ready' = ready /\ calls' = calls
      /\ listening'["service"] = <<>> /\ listening'["store"] = listening["store"]
      /\ owed'["service"] = "store" /\ owed'["store"] = owed["store"]
  BY <1>1, Names, CallSwitches
<1> QED BY <1>2 DEF Place, Hart, Listening, Waiting, Owed

LEMMA PlaceServiceReply ==
  ASSUME Typed, Reply("service"), NEW w, NEW o,
         Place("service", <<>>, <<>>, w, "store", o)
  PROVE  Place("store", <<"service">>, <<>>, w, Nobody, o)'
<1>1. owed["service"] = "store" /\ ready = <<>>
  BY DEF Place, Owed, Hart
<1>2. /\ running' = "store" /\ ready' = Append(ready, "service")
      /\ owed'["service"] = Nobody /\ owed'["store"] = owed["store"]
      /\ calls' = calls /\ listening' = listening
  BY <1>1, Names, ReplyResumes
<1>3. ready' = <<"service">>
  BY <1>1, <1>2, Queues
<1> QED BY <1>2, <1>3 DEF Place, Hart, Listening, Waiting, Owed

LEMMA PlaceStoreRecv ==
  ASSUME Typed, Recv("store", "store"), NEW q, NEW l,
         Place("store", q, l, <<"client">>, Nobody, Nobody)
  PROVE  Place("store", q, l, <<>>, Nobody, "client")'
<1>1. calls["store"] = <<"client">>
  BY DEF Place, Waiting
<1>2. /\ running' = "store" /\ ready' = ready /\ listening' = listening
      /\ calls'["store"] = <<>> /\ calls'["service"] = calls["service"]
      /\ owed'["store"] = "client" /\ owed'["service"] = owed["service"]
  BY <1>1, Names, RecvTakes
<1> QED BY <1>2 DEF Place, Hart, Listening, Waiting, Owed

LEMMA PlaceStoreReply ==
  ASSUME Typed, Reply("store"), NEW q, NEW l,
         Place("store", q, l, <<>>, Nobody, "client")
  PROVE  Place("client", Append(q, "store"), l, <<>>, Nobody, Nobody)'
<1>1. owed["store"] = "client"
  BY DEF Place, Owed
<1>2. /\ running' = "client" /\ ready' = Append(ready, "store")
      /\ owed'["store"] = Nobody /\ owed'["service"] = owed["service"]
      /\ calls' = calls /\ listening' = listening
  BY <1>1, Names, ReplyResumes
<1> QED BY <1>2 DEF Place, Hart, Listening, Waiting, Owed

LEMMA StoreKeepsWay ==
  ASSUME demo = "store", demo' = demo, StoreWay', refused' \subseteq Free("store"),
         verdict' = "none"
  PROVE  OnTheWay'
BY DEF OnTheWay, Way

LEMMA ThreeMove ==
  ASSUME NEW t \in Threads, NEW n, Moves(t, n)
  PROVE  /\ t = "client" => /\ pc'["client"] = n /\ pc'["service"] = pc["service"]
                            /\ pc'["store"] = pc["store"]
         /\ t = "service" => /\ pc'["service"] = n /\ pc'["client"] = pc["client"]
                             /\ pc'["store"] = pc["store"]
         /\ t = "store" => /\ pc'["store"] = n /\ pc'["client"] = pc["client"]
                           /\ pc'["service"] = pc["service"]
BY Names DEF Moves

LEMMA StoreClientWayStep ==
  ASSUME Typed, demo = "store", good["service"], OnTheWay, ThreadStep("client")
  PROVE  Kept /\ (OnTheWay \/ OffTheWay)'
<1> DEFINE Here == Place("client", <<"service", "store">>, <<>>, <<>>, Nobody, Nobody)
<1>1. StoreWay /\ refused \subseteq Free("store")
  BY DEF OnTheWay, Way
<1>2. running = "client" /\ pc["client"] # 0 /\ "client" \in Threads
  BY Names, WhoActs
<1>3. verdict = "none"
  BY <1>2 DEF OnTheWay
<1>4. /\ Here
      /\ \/ At3({1}, {1}, {1}) /\ Unregistered
         \/ At3({2}, {4}, {5})
         \/ At3({3, 4}, {5}, {6})
  BY <1>1, <1>2 DEF StoreWay, Place, Hart, At3, At2
<1>5. ASSUME DoCall("client"), Step("client").at = "store",
             \/ At3({1}, {1}, {1}) /\ Unregistered
             \/ At3({2, 3}, {4, 5}, {5, 6})
      PROVE  Kept /\ OnTheWay'
  <2>1. Call("client", "store") /\ Kept /\ pc' = pc /\ verdict' = verdict
        /\ refused' = refused /\ granted' = granted
    BY <1>5, Names, CallDoes DEF Kept
  <2>2. Place("service", <<"store">>, <<>>, <<"client">>, Nobody, Nobody)'
    BY <1>4, <2>1, PlaceClientCall
  <2>3. StoreWay'
    BY <1>5, <2>1, <2>2 DEF StoreWay, At3, At2, Unregistered
  <2> QED BY <1>1, <1>3, <2>1, <2>3, StoreKeepsWay DEF Kept
<1>6. ASSUME Refuse("client"), Step("client").orElse \in {0, 5}
      PROVE  Kept /\ OffTheWay'
  <2>1. HartStays /\ Kept /\ verdict' = verdict /\ Moves("client", Step("client").orElse)
    BY <1>2, <1>6, Names, RefuseDoes DEF Kept
  <2>2. ClientFails'
    BY <1>2, <1>6, <2>1 DEF ClientFails, HartStays, Moves, Kept
  <2> QED BY <1>3, <2>1, <2>2 DEF OffTheWay
<1>7. CASE At3({1}, {1}, {1}) /\ Unregistered
  <2>1. pc["client"] = 1 /\ Step("client") = At("Register", "store", 2, 2)
    BY <1>7, StoreClientSteps DEF At3, At2
  <2>2. Refuse("client") \/ DoCall("client")
    BY <1>2, <2>1, WhichAct DEF At
  <2>3. CASE Refuse("client")
    <3>1. HartStays /\ Kept /\ granted' = granted /\ verdict' = verdict /\ Moves("client", 2)
      BY <1>2, <2>1, <2>3, RefuseDoes DEF At, Kept
    <3>2. ClientUngranted'
      BY <1>2, <1>7, <3>1 DEF ClientUngranted, HartStays, Moves, Kept, Unregistered
    <3> QED BY <1>3, <3>1, <3>2 DEF OffTheWay
  <2>4. CASE DoCall("client")
    BY <1>5, <1>7, <2>1, <2>4 DEF At
  <2> QED BY <2>2, <2>3, <2>4
<1>8. CASE At3({2}, {4}, {5}) \/ At3({3}, {5}, {6})
  <2>1. Step("client").sys = "Request" /\ Step("client").at = "store"
        /\ Step("client").orElse = 5
    BY <1>8, StoreClientSteps DEF At3, At2, At
  <2>2. Refuse("client") \/ DoCall("client")
    BY <1>2, <2>1, WhichAct
  <2>3. At3({2, 3}, {4, 5}, {5, 6})
    BY <1>8 DEF At3, At2
  <2> QED BY <1>5, <1>6, <2>1, <2>2, <2>3
<1>9. CASE At3({4}, {5}, {6})
  <2>1. pc["client"] = 4 /\ Step("client") = At("Signal", "SUCCESS", 0, 0)
    BY <1>9, StoreClientSteps DEF At3, At2
  <2>2. Refuse("client") \/ DoSignal("client")
    BY <1>2, <2>1, WhichAct DEF At
  <2>3. CASE Refuse("client")
    BY <1>6, <2>1, <2>3 DEF At
  <2>4. CASE DoSignal("client")
    <3>1. HartStays /\ Kept /\ Moves("client", 0) /\ refused' = refused
      BY <1>2, <2>1, <2>4, SignalDoes DEF At, Kept
    <3>2. At3({0}, {5}, {6})'
      BY <1>9, <3>1, Names, ThreeMove DEF At3, At2
    <3>3. Here'
      BY <1>4, <3>1, PlaceStays
    <3>4. StoreWay'
      BY <3>2, <3>3 DEF StoreWay, At3, At2
    <3>5. running' = "client" /\ pc'["client"] = 0
      BY <1>2, <3>1 DEF HartStays, Moves
    <3> QED BY <1>1, <3>1, <3>4, <3>5 DEF OnTheWay, Way, Kept
  <2> QED BY <2>2, <2>3, <2>4
<1>10. At3({3, 4}, {5}, {6}) => At3({3}, {5}, {6}) \/ At3({4}, {5}, {6})
  BY DEF At3, At2
<1> QED BY <1>4, <1>7, <1>8, <1>9, <1>10

LEMMA StoreServiceWayStep ==
  ASSUME Typed, demo = "store", good["service"], OnTheWay, ThreadStep("service")
  PROVE  Kept /\ (OnTheWay \/ OffTheWay)'
<1> DEFINE Called == Place("service", <<"store">>, <<>>, <<"client">>, Nobody, Nobody)
           Asked == Place("service", <<>>, <<>>, <<"client">>, "store", Nobody)
           Used == Place("service", <<>>, <<>>, <<>>, "store", "client")
<1>1. StoreWay /\ refused \subseteq Free("store")
  BY DEF OnTheWay, Way
<1>2. running = "service" /\ pc["service"] # 0 /\ "service" \in Threads
  BY Names, WhoActs
<1>3. verdict = "none"
  BY <1>2 DEF OnTheWay
<1>4. \/ Called /\ At3({1}, {1}, {1}) /\ "store" \notin granted["service"]
      \/ Called /\ At3({2, 3}, {4}, {5, 6})
      \/ Called /\ At3({2, 3}, {5}, {5, 6})
      \/ Asked /\ At3({1}, {2}, {1})
      \/ Asked /\ At3({1}, {3}, {1})
      \/ Used /\ At3({2, 3}, {6}, {7})
  BY <1>1, <1>2 DEF StoreWay, Place, Hart, At3, At2
<1>5. ASSUME Refuse("service"), Step("service").orElse = 0,
             Step("service").sys \in {"Mint", "Grant"}
      PROVE  Kept /\ OffTheWay'
  <2>1. HartStays /\ Kept /\ verdict' = verdict /\ Moves("service", 0)
    BY <1>2, <1>5, Names, RefuseDoes DEF Kept
  <2>2. ServiceSpins'
    BY <1>2, <2>1 DEF ServiceSpins, HartStays, Moves
  <2> QED BY <1>3, <2>1, <2>2 DEF OffTheWay
<1>6. CASE Called /\ At3({1}, {1}, {1}) /\ "store" \notin granted["service"]
  <2>1. pc["service"] = 1 /\ Step("service") = At("Recv", "service", 2, 2)
    BY <1>6, KeystoreServiceSteps DEF At3, At2
  <2>2. Refuse("service") \/ DoRecv("service")
    BY <1>2, <2>1, WhichAct DEF At
  <2>3. CASE Refuse("service")
    <3>1. HartStays /\ Kept /\ verdict' = verdict /\ Moves("service", 2)
      BY <1>2, <2>1, <2>3, RefuseDoes DEF At, Kept
    <3>2. ServiceOwesNobody'
      BY <1>2, <1>6, <3>1 DEF ServiceOwesNobody, HartStays, Moves, Kept, Place, Owed
    <3> QED BY <1>3, <3>1, <3>2 DEF OffTheWay
  <2>4. CASE DoRecv("service")
    <3>1. Recv("service", "service") /\ Kept /\ Moves("service", 2)
          /\ verdict' = verdict /\ refused' = refused /\ granted' = granted
      BY <1>2, <2>1, <2>4, Names, RecvDoes DEF At, Kept
    <3>2. Place("store", <<>>, <<"service">>, <<"client">>, Nobody, Nobody)'
      BY <1>6, <3>1, PlaceServiceRecv
    <3>3. At3({1}, {2}, {1})' /\ "store" \notin granted'["service"]
      BY <1>6, <3>1, Names, ThreeMove DEF At3, At2
    <3>4. StoreWay'
      BY <3>2, <3>3 DEF StoreWay
    <3> QED BY <1>1, <1>3, <3>1, <3>4, StoreKeepsWay DEF Kept
  <2> QED BY <2>2, <2>3, <2>4
<1>7. CASE Called /\ At3({2, 3}, {4}, {5, 6})
  <2>1. pc["service"] = 4 /\ Step("service") = At("Delete", "none", 5, 5)
    BY <1>7, KeystoreServiceSteps DEF At3, At2
  <2>2. Refuse("service") \/ DoDelete("service")
    BY <1>2, <2>1, WhichAct DEF At
  <2>3. HartStays /\ Kept /\ verdict' = verdict /\ Moves("service", 5)
        /\ refused' \subseteq Free("store")
    <3>1. CASE Refuse("service")
      <4>1. HartStays /\ Kept /\ verdict' = verdict /\ Moves("service", 5)
            /\ refused' \subseteq refused \cup {<<"service", 4>>}
        BY <1>2, <2>1, <3>1, RefuseDoes DEF At, Kept
      <4> QED BY <1>1, <4>1 DEF Free
    <3>2. CASE DoDelete("service")
      BY <1>1, <1>2, <2>1, <3>2, OwnDoes DEF At, Kept
    <3> QED BY <2>2, <3>1, <3>2
  <2>4. Called'
    BY <1>7, <2>3, PlaceStays
  <2>5. At3({2, 3}, {4, 5}, {5, 6})'
    BY <1>7, <2>3, Names, ThreeMove DEF At3, At2
  <2>6. StoreWay'
    BY <2>4, <2>5 DEF StoreWay
  <2> QED BY <1>3, <2>3, <2>6, StoreKeepsWay DEF Kept
<1>8. CASE Called /\ At3({2, 3}, {5}, {5, 6})
  <2>1. pc["service"] = 5 /\ Step("service") = At("Recv", "service", 6, 5)
    BY <1>8, KeystoreServiceSteps DEF At3, At2
  <2>2. Refuse("service") \/ DoRecv("service")
    BY <1>2, <2>1, WhichAct DEF At
  <2>3. CASE Refuse("service")
    <3>1. HartStays /\ Kept /\ verdict' = verdict /\ Moves("service", 5)
          /\ refused' \subseteq refused \cup {<<"service", 5>>}
      BY <1>2, <2>1, <2>3, RefuseDoes DEF At, Kept
    <3>2. refused' \subseteq Free("store")
      BY <1>1, <3>1 DEF Free
    <3>3. Called'
      BY <1>8, <3>1, PlaceStays
    <3>4. At3({2, 3}, {4, 5}, {5, 6})'
      BY <1>8, <3>1, Names, ThreeMove DEF At3, At2
    <3>5. StoreWay'
      BY <3>3, <3>4 DEF StoreWay
    <3> QED BY <1>3, <3>1, <3>2, <3>5, StoreKeepsWay DEF Kept
  <2>4. CASE DoRecv("service")
    <3>1. Recv("service", "service") /\ Kept /\ Moves("service", 6)
          /\ verdict' = verdict /\ refused' = refused
      BY <1>2, <2>1, <2>4, Names, RecvDoes DEF At, Kept
    <3>2. Place("store", <<>>, <<"service">>, <<"client">>, Nobody, Nobody)'
      BY <1>8, <3>1, PlaceServiceRecv
    <3>3. At3({2, 3}, {6}, {5, 6})'
      BY <1>8, <3>1, Names, ThreeMove DEF At3, At2
    <3>4. StoreWay'
      BY <3>2, <3>3 DEF StoreWay
    <3> QED BY <1>1, <1>3, <3>1, <3>4, StoreKeepsWay DEF Kept
  <2> QED BY <2>2, <2>3, <2>4
<1>9. CASE Asked /\ At3({1}, {2}, {1})
  <2>1. Step("service") = At("Mint", "none", 3, 0)
    BY <1>9, KeystoreServiceSteps DEF At3, At2
  <2>2. Refuse("service") \/ DoMint("service")
    BY <1>2, <2>1, WhichAct DEF At
  <2>3. CASE Refuse("service")
    BY <1>5, <2>1, <2>3 DEF At
  <2>4. CASE DoMint("service")
    <3>1. HartStays /\ Kept /\ Moves("service", 3) /\ verdict' = verdict /\ refused' = refused
      BY <1>2, <2>1, <2>4, OwnDoes DEF At, Kept
    <3>2. Asked'
      BY <1>9, <3>1, PlaceStays
    <3>3. At3({1}, {2, 3}, {1})'
      BY <1>9, <3>1, Names, ThreeMove DEF At3, At2
    <3>4. StoreWay'
      BY <3>2, <3>3 DEF StoreWay
    <3> QED BY <1>1, <1>3, <3>1, <3>4, StoreKeepsWay DEF Kept
  <2> QED BY <2>2, <2>3, <2>4
<1>10. CASE Asked /\ At3({1}, {3}, {1})
  <2>1. Step("service") = At("Grant", "none", 4, 0)
    BY <1>10, KeystoreServiceSteps DEF At3, At2
  <2>2. Refuse("service") \/ DoGrant("service")
    BY <1>2, <2>1, WhichAct DEF At
  <2>3. CASE Refuse("service")
    BY <1>5, <2>1, <2>3 DEF At
  <2>4. CASE DoGrant("service")
    <3>1. owed["service"] = "store" /\ Step("store") = At("Register", "service", 2, 2)
      BY <1>10, StoreServiceSteps DEF Place, Owed, At3, At2
    <3>2. Reply("service") /\ Kept /\ Resumes("service", "store", 4, 2)
          /\ verdict' = verdict /\ refused' = refused
      BY <1>2, <2>1, <2>4, <3>1, GrantDoes DEF At, Kept
    <3>3. Place("store", <<"service">>, <<>>, <<"client">>, Nobody, Nobody)'
      BY <1>10, <3>2, PlaceServiceReply
    <3>4. At3({1}, {4}, {2})'
      BY <1>10, <3>2, Names DEF At3, At2, Resumes
    <3>5. StoreWay'
      BY <3>3, <3>4 DEF StoreWay
    <3> QED BY <1>1, <1>3, <3>2, <3>5, StoreKeepsWay DEF Kept
  <2> QED BY <2>2, <2>3, <2>4
<1>11. CASE Used /\ At3({2, 3}, {6}, {7})
  <2>1. Step("service") = At("Answer", "none", 5, 5)
    BY <1>11, KeystoreServiceSteps DEF At3, At2
  <2>2. Refuse("service") \/ DoAnswer("service")
    BY <1>2, <2>1, WhichAct DEF At
  <2>3. CASE Refuse("service")
    <3>1. HartStays /\ Kept /\ verdict' = verdict /\ Moves("service", 5)
      BY <1>2, <2>1, <2>3, RefuseDoes DEF At, Kept
    <3>2. ServiceUncalled'
      BY <1>11, <3>1 DEF ServiceUncalled, HartStays, Moves, Kept, Place, Hart, Waiting
    <3> QED BY <1>3, <3>1, <3>2 DEF OffTheWay
  <2>4. CASE DoAnswer("service")
    <3>1. owed["service"] = "store" /\ Step("store") = At("Request", "service", 8, 8)
      BY <1>11, StoreServiceSteps DEF Place, Owed, At3, At2
    <3>2. Reply("service") /\ Kept /\ Resumes("service", "store", 5, 8) /\ good'["store"]
          /\ verdict' = verdict /\ refused' = refused
      BY <1>2, <2>1, <2>4, <3>1, Names, AnswerDoes DEF At, Kept
    <3>3. Place("store", <<"service">>, <<>>, <<>>, Nobody, "client")'
      BY <1>11, <3>2, PlaceServiceReply
    <3>4. At3({2, 3}, {5}, {8})'
      BY <1>11, <3>2, Names DEF At3, At2, Resumes
    <3>5. StoreWay'
      BY <3>2, <3>3, <3>4 DEF StoreWay
    <3> QED BY <1>1, <1>3, <3>2, <3>5, StoreKeepsWay DEF Kept
  <2> QED BY <2>2, <2>3, <2>4
<1> QED BY <1>4, <1>6, <1>7, <1>8, <1>9, <1>10, <1>11

LEMMA StoreStoreWayStep ==
  ASSUME Typed, demo = "store", good["service"], OnTheWay, ThreadStep("store")
  PROVE  Kept /\ (OnTheWay \/ OffTheWay)'
<1> DEFINE Called == Place("store", <<>>, <<"service">>, <<"client">>, Nobody, Nobody)
           Admitted == Place("store", <<"service">>, <<>>, <<"client">>, Nobody, Nobody)
           Serving == Place("store", <<"service">>, <<>>, <<>>, Nobody, "client")
           Using == Place("store", <<>>, <<"service">>, <<>>, Nobody, "client")
<1>1. StoreWay /\ refused \subseteq Free("store")
  BY DEF OnTheWay, Way
<1>2. running = "store" /\ pc["store"] # 0 /\ "store" \in Threads
  BY Names, WhoActs
<1>3. verdict = "none"
  BY <1>2, Names DEF OnTheWay
<1>4. \/ Called /\ At3({1}, {2}, {1}) /\ "store" \notin granted["service"]
      \/ Called /\ At3({2, 3}, {6}, {5})
      \/ Called /\ At3({2, 3}, {6}, {6})
      \/ Admitted /\ At3({1}, {4}, {2})
      \/ Serving /\ At3({1}, {4}, {3})
      \/ Serving /\ At3({1}, {4}, {4})
      \/ Serving /\ At3({2, 3}, {5}, {8}) /\ good["store"]
      \/ Using /\ At3({2, 3}, {6}, {7})
  BY <1>1, <1>2 DEF StoreWay, Place, Hart, At3, At2
<1>5. ASSUME Refuse("store"), Step("store").orElse = 0,
             Step("store").sys \in {"Mint", "Grant"}
      PROVE  Kept /\ OffTheWay'
  <2>1. HartStays /\ Kept /\ verdict' = verdict /\ Moves("store", 0)
    BY <1>2, <1>5, Names, RefuseDoes DEF Kept
  <2>2. StoreSpins'
    BY <1>2, <2>1 DEF StoreSpins, HartStays, Moves, Kept
  <2> QED BY <1>3, <2>1, <2>2 DEF OffTheWay
<1>6. CASE Called /\ At3({1}, {2}, {1}) /\ "store" \notin granted["service"]
  <2>1. pc["store"] = 1 /\ Step("store") = At("Register", "service", 2, 2)
    BY <1>6, StoreServiceSteps DEF At3, At2
  <2>2. Refuse("store") \/ DoCall("store")
    BY <1>2, <2>1, WhichAct DEF At
  <2>3. CASE Refuse("store")
    <3>1. HartStays /\ Kept /\ granted' = granted /\ verdict' = verdict /\ Moves("store", 2)
      BY <1>2, <2>1, <2>3, RefuseDoes DEF At, Kept
    <3>2. Called'
      BY <1>6, <3>1, PlaceStays
    <3>3. pc'["client"] = 1 /\ pc'["store"] = 2
      BY <1>6, <3>1, Names, ThreeMove DEF At3, At2
    <3>4. StoreUnserved'
      BY <1>6, <3>1, <3>2, <3>3 DEF StoreUnserved, Kept
    <3> QED BY <1>3, <3>1, <3>4 DEF OffTheWay
  <2>4. CASE DoCall("store")
    <3>1. Call("store", "service") /\ Kept /\ pc' = pc /\ verdict' = verdict
          /\ refused' = refused
      BY <1>2, <2>1, <2>4, Names, CallDoes DEF At, Kept
    <3>2. Place("service", <<>>, <<>>, <<"client">>, "store", Nobody)'
      BY <1>6, <3>1, PlaceStoreCall
    <3>3. At3({1}, {2, 3}, {1})'
      BY <1>6, <3>1 DEF At3, At2
    <3>4. StoreWay'
      BY <3>2, <3>3 DEF StoreWay
    <3> QED BY <1>1, <1>3, <3>1, <3>4, StoreKeepsWay DEF Kept
  <2> QED BY <2>2, <2>3, <2>4
<1>7. CASE Called /\ At3({2, 3}, {6}, {5})
  <2>1. pc["store"] = 5 /\ Step("store") = At("Delete", "none", 6, 6)
    BY <1>7, StoreServiceSteps DEF At3, At2
  <2>2. Refuse("store") \/ DoDelete("store")
    BY <1>2, <2>1, WhichAct DEF At
  <2>3. HartStays /\ Kept /\ verdict' = verdict /\ Moves("store", 6)
        /\ refused' \subseteq Free("store")
    <3>1. CASE Refuse("store")
      <4>1. HartStays /\ Kept /\ verdict' = verdict /\ Moves("store", 6)
            /\ refused' \subseteq refused \cup {<<"store", 5>>}
        BY <1>2, <2>1, <3>1, RefuseDoes DEF At, Kept
      <4> QED BY <1>1, <4>1 DEF Free
    <3>2. CASE DoDelete("store")
      BY <1>1, <1>2, <2>1, <3>2, OwnDoes DEF At, Kept
    <3> QED BY <2>2, <3>1, <3>2
  <2>4. Called'
    BY <1>7, <2>3, PlaceStays
  <2>5. At3({2, 3}, {6}, {5, 6})'
    BY <1>7, <2>3, Names, ThreeMove DEF At3, At2
  <2>6. StoreWay'
    BY <2>4, <2>5 DEF StoreWay
  <2> QED BY <1>3, <2>3, <2>6, StoreKeepsWay DEF Kept
<1>8. CASE Called /\ At3({2, 3}, {6}, {6})
  <2>1. pc["store"] = 6 /\ Step("store") = At("Recv", "store", 7, 6)
    BY <1>8, StoreServiceSteps DEF At3, At2
  <2>2. Refuse("store") \/ DoRecv("store")
    BY <1>2, <2>1, WhichAct DEF At
  <2>3. CASE Refuse("store")
    <3>1. HartStays /\ Kept /\ verdict' = verdict /\ Moves("store", 6)
          /\ refused' \subseteq refused \cup {<<"store", 6>>}
      BY <1>2, <2>1, <2>3, RefuseDoes DEF At, Kept
    <3>2. refused' \subseteq Free("store")
      BY <1>1, <3>1 DEF Free
    <3>3. Called'
      BY <1>8, <3>1, PlaceStays
    <3>4. At3({2, 3}, {6}, {5, 6})'
      BY <1>8, <3>1, Names, ThreeMove DEF At3, At2
    <3>5. StoreWay'
      BY <3>3, <3>4 DEF StoreWay
    <3> QED BY <1>3, <3>1, <3>2, <3>5, StoreKeepsWay DEF Kept
  <2>4. CASE DoRecv("store")
    <3>1. Recv("store", "store") /\ Kept /\ Moves("store", 7)
          /\ verdict' = verdict /\ refused' = refused
      BY <1>2, <2>1, <2>4, Names, RecvDoes DEF At, Kept
    <3>2. Using'
      BY <1>8, <3>1, PlaceStoreRecv
    <3>3. At3({2, 3}, {6}, {7})'
      BY <1>8, <3>1, Names, ThreeMove DEF At3, At2
    <3>4. StoreWay'
      BY <3>2, <3>3 DEF StoreWay
    <3> QED BY <1>1, <1>3, <3>1, <3>4, StoreKeepsWay DEF Kept
  <2> QED BY <2>2, <2>3, <2>4
<1>9. CASE Admitted /\ At3({1}, {4}, {2})
  <2>1. pc["store"] = 2 /\ Step("store") = At("Recv", "store", 3, 3)
    BY <1>9, StoreServiceSteps DEF At3, At2
  <2>2. Refuse("store") \/ DoRecv("store")
    BY <1>2, <2>1, WhichAct DEF At
  <2>3. CASE Refuse("store")
    <3>1. HartStays /\ Kept /\ verdict' = verdict /\ Moves("store", 3)
      BY <1>2, <2>1, <2>3, RefuseDoes DEF At, Kept
    <3>2. StoreOwesNobody'
      BY <1>2, <1>9, <3>1 DEF StoreOwesNobody, HartStays, Moves, Kept, Place, Owed
    <3> QED BY <1>3, <3>1, <3>2 DEF OffTheWay
  <2>4. CASE DoRecv("store")
    <3>1. Recv("store", "store") /\ Kept /\ Moves("store", 3)
          /\ verdict' = verdict /\ refused' = refused
      BY <1>2, <2>1, <2>4, Names, RecvDoes DEF At, Kept
    <3>2. Serving'
      BY <1>9, <3>1, PlaceStoreRecv
    <3>3. At3({1}, {4}, {3, 4})'
      BY <1>9, <3>1, Names, ThreeMove DEF At3, At2
    <3>4. StoreWay'
      BY <3>2, <3>3 DEF StoreWay
    <3> QED BY <1>1, <1>3, <3>1, <3>4, StoreKeepsWay DEF Kept
  <2> QED BY <2>2, <2>3, <2>4
<1>10. CASE Serving /\ At3({1}, {4}, {3})
  <2>1. Step("store") = At("Mint", "none", 4, 0)
    BY <1>10, StoreServiceSteps DEF At3, At2
  <2>2. Refuse("store") \/ DoMint("store")
    BY <1>2, <2>1, WhichAct DEF At
  <2>3. CASE Refuse("store")
    BY <1>5, <2>1, <2>3 DEF At
  <2>4. CASE DoMint("store")
    <3>1. HartStays /\ Kept /\ Moves("store", 4) /\ verdict' = verdict /\ refused' = refused
      BY <1>2, <2>1, <2>4, OwnDoes DEF At, Kept
    <3>2. Serving'
      BY <1>10, <3>1, PlaceStays
    <3>3. At3({1}, {4}, {3, 4})'
      BY <1>10, <3>1, Names, ThreeMove DEF At3, At2
    <3>4. StoreWay'
      BY <3>2, <3>3 DEF StoreWay
    <3> QED BY <1>1, <1>3, <3>1, <3>4, StoreKeepsWay DEF Kept
  <2> QED BY <2>2, <2>3, <2>4
<1>11. CASE Serving /\ At3({1}, {4}, {4})
  <2>1. Step("store") = At("Grant", "none", 5, 0)
    BY <1>11, StoreServiceSteps DEF At3, At2
  <2>2. Refuse("store") \/ DoGrant("store")
    BY <1>2, <2>1, WhichAct DEF At
  <2>3. CASE Refuse("store")
    BY <1>5, <2>1, <2>3 DEF At
  <2>4. CASE DoGrant("store")
    <3>1. owed["store"] = "client" /\ Step("client") = At("Register", "store", 2, 2)
      BY <1>11, StoreClientSteps DEF Place, Owed, At3, At2
    <3>2. Reply("store") /\ Kept /\ Resumes("store", "client", 5, 2)
          /\ verdict' = verdict /\ refused' = refused
      BY <1>2, <2>1, <2>4, <3>1, GrantDoes DEF At, Kept
    <3>3. Place("client", <<"service", "store">>, <<>>, <<>>, Nobody, Nobody)'
      BY <1>11, <3>2, PlaceStoreReply, Queues
    <3>4. At3({2}, {4}, {5})'
      BY <1>11, <3>2, Names DEF At3, At2, Resumes
    <3>5. StoreWay'
      BY <3>3, <3>4 DEF StoreWay
    <3> QED BY <1>1, <1>3, <3>2, <3>5, StoreKeepsWay DEF Kept
  <2> QED BY <2>2, <2>3, <2>4
<1>12. CASE Serving /\ At3({2, 3}, {5}, {8}) /\ good["store"]
  <2>1. Step("store") = At("Answer", "none", 6, 6)
    BY <1>12, StoreServiceSteps DEF At3, At2
  <2>2. Refuse("store") \/ DoAnswer("store")
    BY <1>2, <2>1, WhichAct DEF At
  <2>3. CASE Refuse("store")
    <3>1. HartStays /\ Kept /\ verdict' = verdict /\ Moves("store", 6)
      BY <1>2, <2>1, <2>3, RefuseDoes DEF At, Kept
    <3>2. pc'["store"] = 6 /\ pc'["service"] = 5
      BY <1>12, <3>1, Names, ThreeMove DEF At3, At2
    <3>3. StoreUncalled'
      BY <1>12, <3>1, <3>2 DEF StoreUncalled, HartStays, Kept, Place, Hart, Waiting
    <3> QED BY <1>3, <3>1, <3>3 DEF OffTheWay
  <2>4. CASE DoAnswer("store")
    <3>1. owed["store"] = "client" /\ Step("client").then \in {3, 4}
      BY <1>12, StoreClientSteps DEF Place, Owed, At3, At2, At
    <3>2. Reply("store") /\ Kept /\ Resumes("store", "client", 6, Step("client").then)
          /\ verdict' = verdict /\ refused' = refused
      BY <1>2, <1>12, <2>1, <2>4, <3>1, Names, AnswerDoes DEF At, Kept
    <3>3. Place("client", <<"service", "store">>, <<>>, <<>>, Nobody, Nobody)'
      BY <1>12, <3>2, PlaceStoreReply, Queues
    <3>4. At3({0, 3, 4}, {5}, {6})'
      BY <1>12, <3>1, <3>2, Names DEF At3, At2, Resumes
    <3>5. StoreWay'
      BY <3>3, <3>4 DEF StoreWay
    <3> QED BY <1>1, <1>3, <3>2, <3>5, StoreKeepsWay DEF Kept
  <2> QED BY <2>2, <2>3, <2>4
<1>13. CASE Using /\ At3({2, 3}, {6}, {7})
  <2>1. Step("store") = At("Request", "service", 8, 8)
    BY <1>13, StoreServiceSteps DEF At3, At2
  <2>2. Refuse("store") \/ DoCall("store")
    BY <1>2, <2>1, WhichAct DEF At
  <2>3. CASE Refuse("store")
    <3>1. HartStays /\ Kept /\ verdict' = verdict /\ Moves("store", 8) /\ ~good'["store"]
      BY <1>2, <2>1, <2>3, Names, RefuseDoes DEF At, Kept
    <3>2. Using'
      BY <1>13, <3>1, PlaceStays
    <3>3. pc'["client"] \in {2, 3} /\ pc'["store"] = 8
      BY <1>13, <3>1, Names, ThreeMove DEF At3, At2
    <3>4. StoreFails'
      BY <3>1, <3>2, <3>3 DEF StoreFails, Kept
    <3> QED BY <1>3, <3>1, <3>4 DEF OffTheWay
  <2>4. CASE DoCall("store")
    <3>1. Call("store", "service") /\ Kept /\ pc' = pc /\ verdict' = verdict
          /\ refused' = refused
      BY <1>2, <2>1, <2>4, Names, CallDoes DEF At, Kept
    <3>2. Place("service", <<>>, <<>>, <<>>, "store", "client")'
      BY <1>13, <3>1, PlaceStoreCall
    <3>3. At3({2, 3}, {6}, {7})'
      BY <1>13, <3>1 DEF At3, At2
    <3>4. StoreWay'
      BY <3>2, <3>3 DEF StoreWay
    <3> QED BY <1>1, <1>3, <3>1, <3>4, StoreKeepsWay DEF Kept
  <2> QED BY <2>2, <2>3, <2>4
<1> QED BY <1>4, <1>6, <1>7, <1>8, <1>9, <1>10, <1>11, <1>12, <1>13

LEMMA StoreWayStep ==
  ASSUME Typed, demo = "store", good["service"], OnTheWay, NEW t \in Threads, ThreadStep(t)
  PROVE  Kept /\ (OnTheWay \/ OffTheWay)'
BY Names, StoreClientWayStep, StoreServiceWayStep, StoreStoreWayStep

-----------------------------------------------------------------------------
(* Off the way: what the client does when it has failed, or asks for what  *)
(* it was not granted.                                                     *)
LEMMA ClientFailsStep ==
  ASSUME Typed, verdict # "SUCCESS", good["service"], ClientFails,
         NEW t \in Threads, ThreadStep(t)
  PROVE  Kept /\ OffTheWay'
<1>1. t = "client" /\ pc["client"] # 0 /\ running = "client"
  BY WhoActs DEF ClientFails
<1>2. Step("client") = At("Signal", "FAILURE", 0, 0)
  BY <1>1, FrameSteps, KeystoreClientSteps, StoreClientSteps DEF ClientFails
<1>3. Refuse("client") \/ DoSignal("client")
  BY <1>1, <1>2, WhichAct DEF At
<1>4. HartStays /\ Kept /\ Moves("client", 0) /\ verdict' # "SUCCESS"
  <2>1. CASE Refuse("client")
    BY <1>1, <1>2, <2>1, RefuseDoes DEF At, Kept
  <2>2. CASE DoSignal("client")
    BY <1>1, <1>2, <2>2, SignalDoes DEF At, Kept
  <2> QED BY <1>3, <2>1, <2>2
<1>5. ClientFails'
  BY <1>1, <1>4 DEF ClientFails, HartStays, Moves
<1> QED BY <1>4, <1>5 DEF OffTheWay

LEMMA ClientUngrantedStep ==
  ASSUME Typed, verdict # "SUCCESS", good["service"], ClientUngranted,
         NEW t \in Threads, ThreadStep(t)
  PROVE  Kept /\ OffTheWay'
<1>1. t = "client" /\ running = "client" /\ pc["client"] = 2
  BY WhoActs DEF ClientUngranted
<1>2. Cause("client") /\ Refuse("client") /\ Step("client").orElse \in {0, 5}
      /\ (Step("client").orElse = 5 => demo \in {"keystore", "store"})
  <2>1. CASE demo = "broker"
    <3>1. Step("client") = At("Signal", "DEST", 0, 0)
      BY <1>1, <2>1, BrokerSteps
    <3>2. Cause("client")
      BY <2>1, <3>1 DEF Cause, ClientUngranted, At
    <3> QED BY <1>1, <3>1, <3>2, WhichAct DEF At, DoSignal
  <2>2. CASE demo \in {"keystore", "store"}
    <3>1. /\ demo = "keystore" => Step("client") = At("Request", "service", 3, 5)
          /\ demo = "store" => Step("client") = At("Request", "store", 3, 5)
      BY <1>1, KeystoreClientSteps, StoreClientSteps
    <3>2. Step("client").sys = "Request" /\ Step("client").orElse = 5
          /\ "client" \notin granted[Step("client").at]
      BY <2>2, <3>1 DEF ClientUngranted, At
    <3>3. Cause("client")
      BY <3>2 DEF Cause
    <3> QED BY <1>1, <2>2, <3>2, <3>3, WhichAct DEF DoCall
  <2> QED BY <2>1, <2>2 DEF ClientUngranted
<1>3. HartStays /\ Kept /\ verdict' = verdict /\ Moves("client", Step("client").orElse)
  BY <1>2, Names, RefuseDoes DEF Kept
<1>4. ClientFails'
  BY <1>1, <1>2, <1>3 DEF ClientFails, HartStays, Moves, Kept
<1> QED BY <1>3, <1>4 DEF OffTheWay

(* What a server does that owes nobody the Reply it comes to.              *)
LEMMA ServiceOwesNobodyStep ==
  ASSUME Typed, demo \in {"broker", "keystore", "store"}, verdict # "SUCCESS",
         good["service"], ServiceOwesNobody, NEW t \in Threads, ThreadStep(t)
  PROVE  Kept /\ OffTheWay'
<1>1. t = "service" /\ running = "service" /\ "service" \in Threads
  BY WhoActs, Names DEF ServiceOwesNobody
<1>2. ASSUME Refuse("service"), Step("service").orElse = 0,
             Step("service").sys \in {"Mint", "Grant"}
      PROVE  Kept /\ OffTheWay'
  <2>1. HartStays /\ Kept /\ verdict' = verdict /\ Moves("service", 0)
    BY <1>1, <1>2, Names, RefuseDoes DEF Kept
  <2>2. ServiceSpins'
    BY <1>1, <2>1 DEF ServiceSpins, HartStays, Moves
  <2> QED BY <2>1, <2>2 DEF OffTheWay
<1>3. CASE pc["service"] = 2
  <2>1. Step("service") = At("Mint", "none", 3, 0)
    BY <1>3, BrokerSteps, KeystoreServiceSteps
  <2>2. CASE DoMint("service")
    <3>1. HartStays /\ Kept /\ Moves("service", 3) /\ verdict' = verdict
      BY <1>1, <2>1, <2>2, OwnDoes DEF At, Kept
    <3>2. ServiceOwesNobody'
      BY <3>1 DEF ServiceOwesNobody, HartStays, Moves, Kept
    <3> QED BY <3>1, <3>2 DEF OffTheWay
  <2> QED BY <1>1, <1>2, <2>1, <2>2, WhichAct DEF At
<1>4. CASE pc["service"] = 3
  <2>1. Step("service").sys = "Grant" /\ Step("service").orElse = 0
    BY <1>4, BrokerSteps, KeystoreServiceSteps DEF At
  <2>2. Cause("service")
    BY <2>1 DEF Cause, ServiceOwesNobody
  <2>3. Refuse("service")
    BY <1>1, <2>1, <2>2, WhichAct DEF DoGrant
  <2> QED BY <1>2, <2>1, <2>3
<1> QED BY <1>3, <1>4 DEF ServiceOwesNobody

LEMMA StoreOwesNobodyStep ==
  ASSUME Typed, verdict # "SUCCESS", good["service"], StoreOwesNobody,
         NEW t \in Threads, ThreadStep(t)
  PROVE  Kept /\ OffTheWay'
<1>1. t = "store" /\ running = "store" /\ "store" \in Threads /\ demo = "store"
  BY WhoActs, Names DEF StoreOwesNobody
<1>2. ASSUME Refuse("store"), Step("store").orElse = 0,
             Step("store").sys \in {"Mint", "Grant"}
      PROVE  Kept /\ OffTheWay'
  <2>1. HartStays /\ Kept /\ verdict' = verdict /\ Moves("store", 0)
    BY <1>1, <1>2, Names, RefuseDoes DEF Kept
  <2>2. StoreSpins'
    BY <1>1, <2>1 DEF StoreSpins, HartStays, Moves, Kept
  <2> QED BY <2>1, <2>2 DEF OffTheWay
<1>3. CASE pc["store"] = 3
  <2>1. Step("store") = At("Mint", "none", 4, 0)
    BY <1>1, <1>3, StoreServiceSteps
  <2>2. CASE DoMint("store")
    <3>1. HartStays /\ Kept /\ Moves("store", 4) /\ verdict' = verdict
      BY <1>1, <2>1, <2>2, OwnDoes DEF At, Kept
    <3>2. StoreOwesNobody'
      BY <3>1 DEF StoreOwesNobody, HartStays, Moves, Kept
    <3> QED BY <3>1, <3>2 DEF OffTheWay
  <2> QED BY <1>1, <1>2, <2>1, <2>2, WhichAct DEF At
<1>4. CASE pc["store"] = 4
  <2>1. Step("store").sys = "Grant" /\ Step("store").orElse = 0
    BY <1>1, <1>4, StoreServiceSteps DEF At
  <2>2. Cause("store")
    BY <2>1 DEF Cause, StoreOwesNobody
  <2>3. Refuse("store")
    BY <1>1, <2>1, <2>2, WhichAct DEF DoGrant
  <2> QED BY <1>2, <2>1, <2>3
<1> QED BY <1>3, <1>4 DEF StoreOwesNobody

(* What a server does that no Call is queued for: it waits for good.       *)
LEMMA ServiceUncalledStep ==
  ASSUME Typed, verdict # "SUCCESS", good["service"], ServiceUncalled,
         NEW t \in Threads, ThreadStep(t)
  PROVE  Kept /\ OffTheWay'
<1>1. t = "service" /\ "service" \in Threads
  BY WhoActs, Names DEF ServiceUncalled, Hart
<1>2. Step("service") = At("Recv", "service", 6, 5)
  BY KeystoreServiceSteps DEF ServiceUncalled
<1>3. Refuse("service") \/ DoRecv("service")
  BY <1>1, <1>2, WhichAct DEF At
<1>4. CASE Refuse("service")
  <2>1. HartStays /\ Kept /\ verdict' = verdict /\ Moves("service", 5)
    BY <1>1, <1>2, <1>4, RefuseDoes DEF At, Kept
  <2>2. ServiceUncalled'
    BY <2>1 DEF ServiceUncalled, HartStays, Moves, Kept, Hart
  <2> QED BY <2>1, <2>2 DEF OffTheWay
<1>5. CASE DoRecv("service")
  <2>1. Recv("service", "service") /\ Kept /\ verdict' = verdict
    BY <1>1, <1>2, <1>5, Names, RecvDoes DEF At, Kept
  <2>2. calls["service"] = <<>> /\ ready = <<>>
    BY DEF ServiceUncalled, Hart
  <2>3. running' = Nobody
    BY <2>1, <2>2, Names, RecvWaits DEF Switch
  <2> QED BY <2>1, <2>3 DEF OffTheWay
<1> QED BY <1>3, <1>4, <1>5

LEMMA StoreUncalledStep ==
  ASSUME Typed, verdict # "SUCCESS", good["service"], StoreUncalled,
         NEW t \in Threads, ThreadStep(t)
  PROVE  Kept /\ OffTheWay'
<1>1. t = "store" /\ "store" \in Threads /\ demo = "store" /\ pc["store"] = 6
      /\ calls["store"] = <<>>
  BY WhoActs, Names DEF StoreUncalled
<1>2. Step("store") = At("Recv", "store", 7, 6)
  BY <1>1, StoreServiceSteps
<1>3. Refuse("store") \/ DoRecv("store")
  BY <1>1, <1>2, WhichAct DEF At
<1>4. CASE Refuse("store")
  <2>1. HartStays /\ Kept /\ verdict' = verdict /\ Moves("store", 6)
    BY <1>1, <1>2, <1>4, RefuseDoes DEF At, Kept
  <2>2. pc'["store"] = 6 /\ pc'["service"] = pc["service"]
    BY <1>1, <2>1, ThreeMove
  <2>3. StoreUncalled'
    BY <2>1, <2>2 DEF StoreUncalled, HartStays, Kept
  <2> QED BY <2>1, <2>3 DEF OffTheWay
<1>5. CASE DoRecv("store")
  <2>1. Recv("store", "store") /\ Kept /\ verdict' = verdict /\ Moves("store", 7)
    BY <1>1, <1>2, <1>5, Names, RecvDoes DEF At, Kept
  <2>2. Switch /\ calls' = calls
    BY <1>1, <2>1, Names, RecvWaits
  <2>3. CASE ready = <<>>
    BY <2>1, <2>2, <2>3 DEF Switch, OffTheWay
  <2>4. CASE ready = <<"service">> /\ calls["service"] = <<>> /\ pc["service"] = 5
    <3>1. running' = "service" /\ ready' = <<>>
      BY <2>2, <2>4, Queues DEF Switch
    <3>2. pc'["service"] = 5 /\ demo' = "store"
      BY <1>1, <2>1, <2>4, ThreeMove DEF Kept
    <3>3. ServiceUncalled'
      BY <2>2, <2>4, <3>1, <3>2 DEF ServiceUncalled, Hart
    <3> QED BY <2>1, <3>3 DEF OffTheWay
  <2> QED BY <2>3, <2>4 DEF StoreUncalled
<1> QED BY <1>3, <1>4, <1>5

(* What the store does without a keystore that would serve it.             *)
LEMMA StoreUnservedCalledStep ==
  ASSUME Typed, verdict # "SUCCESS", good["service"], demo = "store",
         "store" \notin granted["service"],
         Place("store", <<>>, <<"service">>, <<"client">>, Nobody, Nobody),
         \/ pc["client"] = 1 /\ pc["store"] = 2
         \/ pc["client"] = 2 /\ pc["store"] \in {5, 6},
         NEW t \in Threads, ThreadStep(t)
  PROVE  Kept /\ OffTheWay'
<1> DEFINE Called == Place("store", <<>>, <<"service">>, <<"client">>, Nobody, Nobody)
           Using == Place("store", <<>>, <<"service">>, <<>>, Nobody, "client")
<1>1. t = "store" /\ "store" \in Threads
  BY WhoActs, Names DEF Place, Hart
<1>2. ASSUME Recv("store", "store") PROVE Using'
  BY <1>2, PlaceStoreRecv
<1>3. CASE pc["client"] = 1 /\ pc["store"] = 2
  <2>1. Step("store") = At("Recv", "store", 3, 3)
    BY <1>3, StoreServiceSteps
  <2>2. Refuse("store") \/ DoRecv("store")
    BY <1>1, <2>1, WhichAct DEF At
  <2>3. CASE Refuse("store")
    <3>1. HartStays /\ Kept /\ verdict' = verdict /\ Moves("store", 3)
      BY <1>1, <2>1, <2>3, RefuseDoes DEF At, Kept
    <3>2. StoreOwesNobody'
      BY <3>1 DEF StoreOwesNobody, HartStays, Moves, Kept, Place, Owed, Hart
    <3> QED BY <3>1, <3>2 DEF OffTheWay
  <2>4. CASE DoRecv("store")
    <3>1. Recv("store", "store") /\ Kept /\ Moves("store", 3) /\ verdict' = verdict
          /\ granted' = granted
      BY <1>1, <2>1, <2>4, Names, RecvDoes DEF At, Kept
    <3>2. pc'["client"] = 1 /\ pc'["store"] = 3
      BY <1>1, <1>3, <3>1, ThreeMove
    <3>3. StoreUnserved'
      BY <1>2, <3>1, <3>2 DEF StoreUnserved, Kept
    <3> QED BY <3>1, <3>3 DEF OffTheWay
  <2> QED BY <2>2, <2>3, <2>4
<1>4. ASSUME HartStays, Kept, verdict' = verdict, granted' = granted, Moves("store", 6),
             pc["client"] = 2
      PROVE  OffTheWay'
  <2>1. Called'
    BY <1>4, PlaceStays
  <2>2. pc'["client"] = 2 /\ pc'["store"] = 6
    BY <1>1, <1>4, ThreeMove
  <2>3. StoreUnserved'
    BY <1>4, <2>1, <2>2 DEF StoreUnserved, Kept
  <2> QED BY <1>4, <2>3 DEF OffTheWay
<1>5. CASE pc["client"] = 2 /\ pc["store"] = 5
  <2>1. Step("store") = At("Delete", "none", 6, 6)
    BY <1>5, StoreServiceSteps
  <2>2. Refuse("store") \/ DoDelete("store")
    BY <1>1, <2>1, WhichAct DEF At
  <2>3. HartStays /\ Kept /\ verdict' = verdict /\ granted' = granted /\ Moves("store", 6)
    <3>1. CASE Refuse("store")
      BY <1>1, <2>1, <3>1, RefuseDoes DEF At, Kept
    <3>2. CASE DoDelete("store")
      BY <1>1, <2>1, <3>2, OwnDoes DEF At, Kept
    <3> QED BY <2>2, <3>1, <3>2
  <2> QED BY <1>4, <1>5, <2>3
<1>6. CASE pc["client"] = 2 /\ pc["store"] = 6
  <2>1. Step("store") = At("Recv", "store", 7, 6)
    BY <1>6, StoreServiceSteps
  <2>2. Refuse("store") \/ DoRecv("store")
    BY <1>1, <2>1, WhichAct DEF At
  <2>3. CASE Refuse("store")
    <3>1. HartStays /\ Kept /\ verdict' = verdict /\ granted' = granted /\ Moves("store", 6)
      BY <1>1, <2>1, <2>3, RefuseDoes DEF At, Kept
    <3> QED BY <1>4, <1>6, <3>1
  <2>4. CASE DoRecv("store")
    <3>1. Recv("store", "store") /\ Kept /\ Moves("store", 7) /\ verdict' = verdict
          /\ granted' = granted
      BY <1>1, <2>1, <2>4, Names, RecvDoes DEF At, Kept
    <3>2. pc'["client"] = 2 /\ pc'["store"] = 7
      BY <1>1, <1>6, <3>1, ThreeMove
    <3>3. StoreUnserved'
      BY <1>2, <3>1, <3>2 DEF StoreUnserved, Kept
    <3> QED BY <3>1, <3>3 DEF OffTheWay
  <2> QED BY <2>2, <2>3, <2>4
<1> QED BY <1>3, <1>5, <1>6

LEMMA StoreUnservedUsingStep ==
  ASSUME Typed, verdict # "SUCCESS", good["service"], demo = "store",
         "store" \notin granted["service"],
         Place("store", <<>>, <<"service">>, <<>>, Nobody, "client"),
         \/ pc["client"] = 1 /\ pc["store"] \in {3, 4}
         \/ pc["client"] = 2 /\ pc["store"] = 7,
         NEW t \in Threads, ThreadStep(t)
  PROVE  Kept /\ OffTheWay'
<1> DEFINE Using == Place("store", <<>>, <<"service">>, <<>>, Nobody, "client")
<1>1. t = "store" /\ "store" \in Threads /\ running = "store"
  BY WhoActs, Names DEF Place, Hart
<1>2. ASSUME Refuse("store"), Step("store").orElse = 0,
             Step("store").sys \in {"Mint", "Grant"}
      PROVE  Kept /\ OffTheWay'
  <2>1. HartStays /\ Kept /\ verdict' = verdict /\ Moves("store", 0)
    BY <1>1, <1>2, Names, RefuseDoes DEF Kept
  <2>2. StoreSpins'
    BY <1>1, <2>1 DEF StoreSpins, HartStays, Moves, Kept
  <2> QED BY <2>1, <2>2 DEF OffTheWay
<1>3. CASE pc["client"] = 1 /\ pc["store"] = 3
  <2>1. Step("store") = At("Mint", "none", 4, 0)
    BY <1>3, StoreServiceSteps
  <2>2. CASE DoMint("store")
    <3>1. HartStays /\ Kept /\ Moves("store", 4) /\ verdict' = verdict /\ granted' = granted
      BY <1>1, <2>1, <2>2, OwnDoes DEF At, Kept
    <3>2. Using'
      BY <3>1, PlaceStays
    <3>3. pc'["client"] = 1 /\ pc'["store"] = 4
      BY <1>1, <1>3, <3>1, ThreeMove
    <3>4. StoreUnserved'
      BY <3>1, <3>2, <3>3 DEF StoreUnserved, Kept
    <3> QED BY <3>1, <3>4 DEF OffTheWay
  <2> QED BY <1>1, <1>2, <2>1, <2>2, WhichAct DEF At
<1>4. CASE pc["client"] = 1 /\ pc["store"] = 4
  <2>1. Step("store") = At("Grant", "none", 5, 0)
    BY <1>4, StoreServiceSteps
  <2>2. CASE DoGrant("store")
    <3>1. owed["store"] = "client" /\ Step("client") = At("Register", "store", 2, 2)
      BY <1>4, StoreClientSteps DEF Place, Owed
    <3>2. Reply("store") /\ Kept /\ Resumes("store", "client", 5, 2)
          /\ verdict' = verdict
          /\ granted' = [granted EXCEPT !["store"] = @ \cup {owed["store"]}]
      BY <1>1, <2>1, <2>2, <3>1, GrantDoes DEF At, Kept
    <3>3. Place("client", <<"store">>, <<"service">>, <<>>, Nobody, Nobody)'
      BY <3>2, PlaceStoreReply, Queues
    <3>4. pc'["client"] = 2 /\ pc'["store"] = 5
      BY <3>2 DEF Resumes
    <3>5. granted'["service"] = granted["service"]
      BY <3>2, Names DEF Typed
    <3>6. StoreUnserved'
      BY <3>2, <3>3, <3>4, <3>5 DEF StoreUnserved, Kept
    <3> QED BY <3>2, <3>6 DEF OffTheWay
  <2> QED BY <1>1, <1>2, <2>1, <2>2, WhichAct DEF At
<1>5. CASE pc["client"] = 2 /\ pc["store"] = 7
  <2>1. Step("store") = At("Request", "service", 8, 8)
    BY <1>5, StoreServiceSteps
  <2>2. Cause("store")
    BY <2>1 DEF Cause, At
  <2>3. Refuse("store")
    BY <1>1, <2>1, <2>2, WhichAct DEF DoCall, At
  <2>4. HartStays /\ Kept /\ verdict' = verdict /\ Moves("store", 8) /\ ~good'["store"]
    BY <1>1, <2>1, <2>3, Names, RefuseDoes DEF At, Kept
  <2>5. Using'
    BY <2>4, PlaceStays
  <2>6. pc'["client"] = 2 /\ pc'["store"] = 8
    BY <1>1, <1>5, <2>4, ThreeMove
  <2>7. StoreFails'
    BY <2>4, <2>5, <2>6 DEF StoreFails, Kept
  <2> QED BY <2>4, <2>7 DEF OffTheWay
<1> QED BY <1>3, <1>4, <1>5

LEMMA StoreUnservedClientStep ==
  ASSUME Typed, verdict # "SUCCESS", good["service"], demo = "store",
         "store" \notin granted["service"],
         Place("client", <<"store">>, <<"service">>, <<>>, Nobody, Nobody),
         pc["client"] = 2, pc["store"] = 5,
         NEW t \in Threads, ThreadStep(t)
  PROVE  Kept /\ OffTheWay'
<1>1. t = "client" /\ "client" \in Threads /\ running = "client"
  BY WhoActs, Names DEF Place, Hart
<1>2. Step("client") = At("Request", "store", 3, 5)
  BY StoreClientSteps
<1>3. Refuse("client") \/ DoCall("client")
  BY <1>1, <1>2, WhichAct DEF At
<1>4. CASE Refuse("client")
  <2>1. HartStays /\ Kept /\ verdict' = verdict /\ Moves("client", 5)
    BY <1>1, <1>2, <1>4, Names, RefuseDoes DEF At, Kept
  <2>2. ClientFails'
    BY <1>1, <2>1 DEF ClientFails, HartStays, Moves, Kept
  <2> QED BY <2>1, <2>2 DEF OffTheWay
<1>5. CASE DoCall("client")
  <2>1. Call("client", "store") /\ Kept /\ pc' = pc /\ verdict' = verdict /\ granted' = granted
    BY <1>1, <1>2, <1>5, Names, CallDoes DEF At, Kept
  <2>2. Place("store", <<>>, <<"service">>, <<"client">>, Nobody, Nobody)'
    BY <2>1, PlaceClientCall
  <2>3. StoreUnserved'
    BY <2>1, <2>2 DEF StoreUnserved, Kept
  <2> QED BY <2>1, <2>3 DEF OffTheWay
<1> QED BY <1>3, <1>4, <1>5

LEMMA StoreFailsStep ==
  ASSUME Typed, verdict # "SUCCESS", good["service"], StoreFails,
         NEW t \in Threads, ThreadStep(t)
  PROVE  Kept /\ OffTheWay'
<1>1. t = "store" /\ "store" \in Threads /\ demo = "store" /\ pc["client"] \in {2, 3}
  BY WhoActs, Names DEF StoreFails, Place, Hart
<1>2. Step("store") = At("Answer", "none", 6, 6)
  BY StoreServiceSteps DEF StoreFails
<1>3. Refuse("store") \/ DoAnswer("store")
  BY <1>1, <1>2, WhichAct DEF At
<1>4. CASE Refuse("store")
  <2>1. HartStays /\ Kept /\ verdict' = verdict /\ Moves("store", 6)
    BY <1>1, <1>2, <1>4, RefuseDoes DEF At, Kept
  <2>2. StoreUncalled'
    BY <2>1 DEF StoreUncalled, StoreFails, HartStays, Moves, Kept, Place, Hart, Waiting
  <2> QED BY <2>1, <2>2 DEF OffTheWay
<1>5. CASE DoAnswer("store")
  <2>1. owed["store"] = "client" /\ Step("client").orElse = 5
    BY <1>1, StoreClientSteps DEF StoreFails, Place, Owed, At
  <2>2. Reply("store") /\ Kept /\ Resumes("store", "client", 6, 5) /\ verdict' = verdict
    BY <1>1, <1>2, <1>5, <2>1, Names, AnswerDoes DEF At, Kept, StoreFails
  <2>3. running' = "client" /\ pc'["client"] = 5
    BY <1>1, <2>1, <2>2, Names, ReplyResumes DEF Resumes
  <2>4. ClientFails'
    BY <1>1, <2>2, <2>3 DEF ClientFails, Kept
  <2> QED BY <2>2, <2>4 DEF OffTheWay
<1> QED BY <1>3, <1>4, <1>5

LEMMA OffTheWayStep ==
  ASSUME Typed, demo \in {"broker", "frame", "keystore", "store"}, good["service"],
         OffTheWay, NEW t \in Threads, ThreadStep(t)
  PROVE  Kept /\ OffTheWay'
<1>1. running = t /\ running # Nobody /\ pc[t] # 0
  BY WhoActs, ThreadsAssumption
<1>2. verdict # "SUCCESS"
  BY DEF OffTheWay
<1>3. CASE ClientFails
  BY <1>2, <1>3, ClientFailsStep
<1>4. CASE ClientUngranted
  BY <1>2, <1>4, ClientUngrantedStep
<1>5. CASE ServiceSpins \/ StoreSpins
  BY <1>1, <1>5 DEF ServiceSpins, StoreSpins
<1>6. CASE ServiceOwesNobody
  <2>1. demo \in {"broker", "keystore", "store"}
    BY <1>6 DEF ServiceOwesNobody
  <2> QED BY <1>2, <1>6, <2>1, ServiceOwesNobodyStep
<1>7. CASE StoreOwesNobody
  BY <1>2, <1>7, StoreOwesNobodyStep
<1>8. CASE ServiceUncalled
  BY <1>2, <1>8, ServiceUncalledStep
<1>9. CASE StoreUncalled
  BY <1>2, <1>9, StoreUncalledStep
<1>10. CASE StoreUnserved
  <2>1. demo = "store" /\ "store" \notin granted["service"]
    BY <1>10 DEF StoreUnserved
  <2>2. CASE /\ Place("store", <<>>, <<"service">>, <<"client">>, Nobody, Nobody)
             /\ \/ pc["client"] = 1 /\ pc["store"] = 2
                \/ pc["client"] = 2 /\ pc["store"] \in {5, 6}
    BY <1>2, <2>1, <2>2, StoreUnservedCalledStep
  <2>3. CASE /\ Place("store", <<>>, <<"service">>, <<>>, Nobody, "client")
             /\ \/ pc["client"] = 1 /\ pc["store"] \in {3, 4}
                \/ pc["client"] = 2 /\ pc["store"] = 7
    BY <1>2, <2>1, <2>3, StoreUnservedUsingStep
  <2>4. CASE /\ Place("client", <<"store">>, <<"service">>, <<>>, Nobody, Nobody)
             /\ pc["client"] = 2 /\ pc["store"] = 5
    BY <1>2, <2>1, <2>4, StoreUnservedClientStep
  <2> QED BY <1>10, <2>2, <2>3, <2>4 DEF StoreUnserved
<1>11. CASE StoreFails
  BY <1>2, <1>11, StoreFailsStep
<1> QED BY <1>1, <1>3, <1>4, <1>5, <1>6, <1>7, <1>8, <1>9, <1>10, <1>11 DEF OffTheWay

-----------------------------------------------------------------------------
LEMMA InitIInv == Init => IInv
<1> SUFFICES ASSUME Init PROVE IInv
  OBVIOUS
<1>1. demo \in {"broker", "frame", "keystore", "store"}
  BY DEF Init, Programs
<1>2. /\ running = "client" /\ ready = ReadyFirst(demo)
      /\ calls = [e \in Endpoints |-> <<>>] /\ listening = [e \in Endpoints |-> <<>>]
      /\ owed = [t \in Threads |-> Nobody]
      /\ pc = [t \in Threads |-> 1] /\ good = [t \in Threads |-> TRUE]
      /\ granted = [e \in Endpoints |-> {}] /\ refused = {} /\ verdict = "none"
  BY DEF Init, Entered
<1>3. ready \in Seq(Threads)
  <2>1. <<"service">> \in Seq(Threads) /\ <<"service", "store">> \in Seq(Threads)
    OBVIOUS
  <2>2. ready = <<"service">> \/ ready = <<"service", "store">>
    BY <1>2 DEF ReadyFirst
  <2> QED BY <2>1, <2>2
<1>4. KernelTypeOK
  BY <1>2, <1>3, Names DEF KernelTypeOK
<1>5. Typed
  BY <1>2, <1>4 DEF Typed
<1>6. Listening(<<>>, <<>>) /\ Waiting(<<>>, <<>>) /\ Owed(Nobody, Nobody)
  BY <1>2, Names DEF Listening, Waiting, Owed
<1>7. At3({1}, {1}, {1}) /\ Unregistered /\ "client" \notin granted["service"]
  BY <1>2, Names DEF At3, At2, Unregistered
<1>8. demo # "store" => ClientRuns
  BY <1>2, <1>6 DEF ClientRuns, Hart, ReadyFirst
<1>9. demo = "store" => Place("client", <<"service", "store">>, <<>>, <<>>, Nobody, Nobody)
  BY <1>2, <1>6 DEF Place, Hart, ReadyFirst
<1>10. Way
  <2>1. demo = "broker" => BrokerWay
    BY <1>6, <1>7, <1>8 DEF BrokerWay, At3
  <2>2. demo = "frame" => FrameWay
    BY <1>6, <1>7, <1>8 DEF FrameWay, At3
  <2>3. demo = "keystore" => KeystoreWay
    BY <1>6, <1>7, <1>8 DEF KeystoreWay, At3
  <2>4. demo = "store" => StoreWay
    BY <1>7, <1>9 DEF StoreWay
  <2> QED BY <1>1, <2>1, <2>2, <2>3, <2>4 DEF Way
<1>11. OnTheWay
  BY <1>2, <1>10 DEF OnTheWay
<1> QED BY <1>1, <1>2, <1>5, <1>11, Names DEF IInv

LEMMA StepIInv == IInv /\ [Next]_vars => IInv'
<1> SUFFICES ASSUME IInv, [Next]_vars PROVE IInv'
  OBVIOUS
<1> USE DEF IInv
<1>1. CASE UNCHANGED vars
  <2>1. /\ HartStays /\ pc' = pc /\ good' = good /\ granted' = granted /\ demo' = demo
        /\ refused' = refused /\ verdict' = verdict
    BY <1>1 DEF vars, kernel, data, HartStays
  <2>2. Typed'
    BY <2>1 DEF Typed, KernelTypeOK, HartStays
  <2>3. BrokerWay' = BrokerWay
    BY <2>1, StaysWhere DEF BrokerWay, At2
  <2>4. FrameWay' = FrameWay
    BY <2>1, StaysWhere DEF FrameWay, At2
  <2>5. KeystoreWay' = KeystoreWay
    BY <2>1, StaysWhere DEF KeystoreWay, At2
  <2>6. StoreWay' = StoreWay
    BY <2>1 DEF StoreWay, At3, At2, Unregistered, HartStays, Place, Hart, Listening, Waiting, Owed
  <2>7. OnTheWay => OnTheWay'
    BY <2>1, <2>3, <2>4, <2>5, <2>6 DEF OnTheWay, Way, HartStays
  <2>8. StoreUnserved' = StoreUnserved
    BY <2>1 DEF StoreUnserved, HartStays, Place, Hart, Listening, Waiting, Owed
  <2>9. StoreFails' = StoreFails
    BY <2>1 DEF StoreFails, HartStays, Place, Hart, Listening, Waiting, Owed
  <2>10. /\ ClientFails' = ClientFails /\ ClientUngranted' = ClientUngranted
         /\ ServiceSpins' = ServiceSpins /\ StoreSpins' = StoreSpins
         /\ ServiceOwesNobody' = ServiceOwesNobody /\ StoreOwesNobody' = StoreOwesNobody
         /\ ServiceUncalled' = ServiceUncalled /\ StoreUncalled' = StoreUncalled
    BY <2>1 DEF HartStays, ClientFails, ClientUngranted, ServiceSpins, StoreSpins,
                ServiceOwesNobody, StoreOwesNobody, ServiceUncalled, StoreUncalled, Hart
  <2>11. OffTheWay => OffTheWay'
    BY <2>1, <2>8, <2>9, <2>10 DEF OffTheWay, HartStays
  <2> QED BY <2>1, <2>2, <2>7, <2>11
<1>2. CASE Next
  <2>1. PICK t \in Threads : ThreadStep(t)
    BY <1>2 DEF Next
  <2>2. CASE OnTheWay
    <3>1. Kept /\ (OnTheWay \/ OffTheWay)'
      BY <2>1, <2>2, BrokerWayStep, FrameWayStep, KeystoreWayStep, StoreWayStep
    <3> QED BY <3>1 DEF Kept
  <2>3. CASE OffTheWay
    BY <2>1, <2>3, OffTheWayStep DEF Kept
  <2> QED BY <2>2, <2>3
<1> QED BY <1>1, <1>2

-----------------------------------------------------------------------------
(* In the demos of two programs only the service listens and replies, and  *)
(* when it does so the hart is nobody else's to have.                      *)
LEMMA TwoRun ==
  ASSUME IInv, demo # "store", NEW t \in Threads, ThreadStep(t)
  PROVE  /\ t \in {"client", "service"}
         /\ t = "client" => Step(t).sys \notin {"Recv", "Grant", "Answer"}
         /\ t = "service" /\ Step(t).sys = "Recv" => ready = <<>>
<1>1. running = t /\ pc[t] # 0 /\ running # Nobody
  BY WhoActs, ThreadsAssumption
<1>2. CASE OnTheWay
  <2>1. \/ demo = "broker" /\ BrokerWay
        \/ demo = "frame" /\ FrameWay
        \/ demo = "keystore" /\ KeystoreWay
    BY <1>2 DEF OnTheWay, Way, IInv
  <2>2. /\ \/ running = "client"
           \/ running = "service" /\ ready = <<>>
        /\ pc["client"] \in {1, 2, 3, 4} \/ running # "client"
    BY <1>1, <2>1 DEF BrokerWay, FrameWay, KeystoreWay, ClientRuns, ClientCalls, ClientServed, Hart,
                      At2
  <2>3. CASE running = "client"
    <3>1. demo = "broker" => pc["client"] \in {1, 2}
      BY <1>1, <2>1, <2>3, Names DEF BrokerWay, At2
    <3>2. Step("client").sys \notin {"Recv", "Grant", "Answer"}
      BY <2>1, <2>2, <2>3, <3>1, BrokerSteps, FrameSteps, KeystoreClientSteps DEF At, FrameWay, At2
    <3> QED BY <1>1, <2>3, <3>2, Names
  <2> QED BY <1>1, <2>2, <2>3
<1>3. CASE OffTheWay
  <2>1. CASE ClientFails
    <3>1. Step("client").sys = "Signal"
      BY <1>1, <2>1, FrameSteps, KeystoreClientSteps DEF ClientFails, At
    <3> QED BY <1>1, <2>1, <3>1 DEF ClientFails
  <2>2. CASE ClientUngranted
    <3>1. Step("client").sys \in {"Signal", "Request"}
      BY <2>2, BrokerSteps, KeystoreClientSteps DEF ClientUngranted, At
    <3> QED BY <1>1, <2>2, <3>1 DEF ClientUngranted
  <2>3. CASE ServiceOwesNobody
    <3>1. demo \in {"broker", "keystore"}
      BY <2>3 DEF ServiceOwesNobody, IInv
    <3>2. Step("service").sys \in {"Mint", "Grant"}
      BY <2>3, <3>1, BrokerSteps, KeystoreServiceSteps DEF ServiceOwesNobody, At
    <3> QED BY <1>1, <2>3, <3>2 DEF ServiceOwesNobody
  <2>4. CASE ServiceUncalled
    BY <1>1, <2>4 DEF ServiceUncalled, Hart
  <2> QED BY <1>1, <1>3, <2>1, <2>2, <2>3, <2>4 DEF OffTheWay, ServiceSpins, StoreSpins,
             StoreOwesNobody, StoreUncalled, StoreUnserved, StoreFails
<1> QED BY <1>2, <1>3 DEF IInv

(* So a thread that a Reply resumes has no error in its frame: the client  *)
(* lost it when it blocked in its Call.                                    *)
FramesOf ==
  demo # "store" => /\ failed \subseteq {"client", "service"}
                    /\ running = "service" => failed \subseteq {"service"}

LEMMA NarratesFaithfully ==
  ASSUME NEW t, NEW ok \in BOOLEAN, running' # Nobody, Narrates(t, ok),
         ok <=> running' \notin failed'
  PROVE  line'.ok = did'.ok
<1>1. /\ line' = [sys |-> Number(Step(t).sys), ok |-> running' \notin failed']
      /\ did' = [sys |-> Step(t).sys, ok |-> ok]
  BY DEF Narrates
<1>2. line'.ok = (running' \notin failed')
  BY <1>1
<1>3. did'.ok = ok
  BY <1>1
<1>4. (running' \notin failed') = ok
  OBVIOUS
<1> QED BY <1>2, <1>3, <1>4

LEMMA FaithStep ==
  ASSUME IInv, FramesOf, NarrationIsFaithful, demo # "store", NEW t \in Threads, ThreadStep(t)
  PROVE  (FramesOf /\ NarrationIsFaithful)'
<1>1. running = t /\ t \in {"client", "service"} /\ "client" # Nobody /\ "service" # Nobody
  BY WhoActs, TwoRun, Names
<1>2. failed \subseteq {"client", "service"} /\ (running = "service" => failed \subseteq {"service"})
  BY DEF FramesOf
<1>3. CASE Refuse(t)
  <2>1. running' = t /\ failed' = failed \cup {t} /\ Narrates(t, FALSE)
    BY <1>1, <1>3 DEF Refuse, GoesOn, kernel
  <2>2. line'.ok = did'.ok
    BY <1>1, <2>1, NarratesFaithfully
  <2> QED BY <1>1, <1>2, <2>1, <2>2 DEF FramesOf, NarrationIsFaithful
<1>4. CASE DoCall(t)
  <2>1. failed' = failed \ {t} /\ Narrates(t, FALSE) /\ demo' = demo
        /\ Step(t).sys \in {"Register", "Ask", "Request"}
    BY <1>4 DEF DoCall, Blocked, On
  <2>2. CASE running' = Nobody
    BY <1>1, <1>2, <2>1, <2>2 DEF Narrates, FramesOf, NarrationIsFaithful
  <2>3. CASE running' # Nobody
    <3>1. line'.sys = "Call"
      BY <2>1, <2>3 DEF Narrates, Number
    <3> QED BY <1>1, <1>2, <2>1, <3>1 DEF FramesOf, NarrationIsFaithful
  <2> QED BY <2>2, <2>3
<1>5. CASE DoRecv(t)
  <2>1. Step(t).sys = "Recv" /\ Recv(t, Step(t).at) /\ demo' = demo /\ failed' = failed \ {t}
    BY <1>5 DEF DoRecv, On, Done, Blocked
  <2>2. t = "service" /\ ready = <<>>
    BY <1>1, <2>1, TwoRun
  <2>3. running' = t \/ running' = Nobody
    BY <1>1, <2>1, <2>2 DEF Recv, Switch
  <2>4. CASE running' = t
    <3>1. Narrates(t, TRUE)
      BY <1>5, <2>4 DEF DoRecv, Done
    <3>2. line'.ok = did'.ok
      BY <1>1, <2>1, <2>4, <3>1, NarratesFaithfully
    <3> QED BY <1>1, <1>2, <2>1, <2>2, <3>2 DEF FramesOf, NarrationIsFaithful
  <2>5. CASE running' = Nobody
    <3>1. Narrates(t, FALSE)
      BY <1>1, <1>5, <2>5 DEF DoRecv, Blocked
    <3> QED BY <1>1, <1>2, <2>1, <2>5, <3>1 DEF Narrates, FramesOf, NarrationIsFaithful
  <2> QED BY <2>3, <2>4, <2>5
<1>6. CASE DoMint(t) \/ DoDelete(t) \/ DoSignal(t)
  <2>1. running' = t /\ failed' = failed \ {t} /\ Narrates(t, TRUE)
    BY <1>1, <1>6 DEF DoMint, DoDelete, DoSignal, Done, GoesOn, kernel
  <2>2. line'.ok = did'.ok
    BY <1>1, <2>1, NarratesFaithfully
  <2> QED BY <1>1, <1>2, <2>1, <2>2 DEF FramesOf, NarrationIsFaithful
<1>7. CASE DoGrant(t) \/ DoAnswer(t)
  <2>1. Step(t).sys \in {"Grant", "Answer"} /\ Reply(t) /\ failed' = failed \ {t}
        /\ Narrates(t, TRUE)
    BY <1>7 DEF DoGrant, DoAnswer, On, Done
  <2>2. t = "service"
    BY <1>1, <2>1, TwoRun
  <2>3. failed' = {}
    BY <1>1, <1>2, <2>1, <2>2
  <2>4. running' # Nobody
    BY <2>1 DEF Reply
  <2>5. line'.ok = did'.ok
    BY <2>1, <2>3, <2>4, NarratesFaithfully
  <2> QED BY <2>3, <2>5 DEF FramesOf, NarrationIsFaithful
<1> QED BY <1>3, <1>4, <1>5, <1>6, <1>7 DEF ThreadStep

-----------------------------------------------------------------------------
(* What Harmless says of the programs.                                     *)
LEMMA FreeIsHarmless ==
  ASSUME demo \in {"broker", "frame", "keystore", "store"}, refused \subseteq Free(demo)
  PROVE  refused \subseteq Harmless
<1> SUFFICES ASSUME NEW s \in refused
             PROVE  LET step == Programs[demo][s[1]][s[2]]
                    IN  step.sys = "Delete" \/ (step.sys = "Recv" /\ step.orElse = s[2])
  BY DEF Harmless
<1>1. s \in Free(demo)
  OBVIOUS
<1>2. Programs["keystore"]["service"] = KeystoreService
      /\ Programs["store"]["service"] = KeystoreService
      /\ Programs["store"]["store"] = StoreService
  BY DEF Programs, Pair
<1>3. KeystoreService[4].sys = "Delete" /\ KeystoreService[5].sys = "Recv"
      /\ KeystoreService[5].orElse = 5
  BY DEF KeystoreService, At
<1>4. StoreService[5].sys = "Delete" /\ StoreService[6].sys = "Recv"
      /\ StoreService[6].orElse = 6
  BY DEF StoreService, At
<1>5. \/ demo \in {"keystore", "store"} /\ s = <<"service", 4>>
      \/ demo \in {"keystore", "store"} /\ s = <<"service", 5>>
      \/ demo = "store" /\ s = <<"store", 5>>
      \/ demo = "store" /\ s = <<"store", 6>>
  BY <1>1 DEF Free
<1>6. CASE demo \in {"keystore", "store"} /\ s = <<"service", 4>>
  BY <1>2, <1>3, <1>6
<1>7. CASE demo \in {"keystore", "store"} /\ s = <<"service", 5>>
  BY <1>2, <1>3, <1>7
<1>8. CASE demo = "store" /\ s = <<"store", 5>>
  BY <1>2, <1>4, <1>8
<1>9. CASE demo = "store" /\ s = <<"store", 6>>
  BY <1>2, <1>4, <1>9
<1> QED BY <1>5, <1>6, <1>7, <1>8, <1>9

(* The threads are at a place on the way to SUCCESS, or at one from which  *)
(* no way leads there, whichever system calls of the programs that         *)
(* enter_first_thread let loose are refused.                               *)
THEOREM NarrationInvariant == Spec => []IInv
<1>1. Init => IInv
  BY InitIInv
<1>2. IInv /\ [Next]_vars => IInv'
  BY StepIInv
<1> QED BY <1>1, <1>2, PTL DEF Spec

(* SuccessIsEarned: SUCCESS is printed only when every step that matters   *)
(* went through.  In the four demos no answer that a program drops, and no *)
(* failure that a server keeps to itself, is on the way to it.             *)
THEOREM NarrationSuccess == Spec => []SuccessIsEarned
<1>1. IInv => SuccessIsEarned
  <2> SUFFICES ASSUME IInv, verdict = "SUCCESS" PROVE refused \subseteq Harmless
    BY DEF SuccessIsEarned
  <2>1. OnTheWay /\ demo \in {"broker", "frame", "keystore", "store"}
    BY DEF IInv, OffTheWay
  <2> QED BY <2>1, FreeIsHarmless DEF OnTheWay
<1> QED BY <1>1, NarrationInvariant, PTL

(* NarrationIsFaithful: the error bit that a trap handler reads after the  *)
(* dispatch, in the frame of the thread that goes on, is the outcome of    *)
(* the call it narrates, for every call but Call in the demos of two       *)
(* programs.                                                               *)
THEOREM NarrationFaithful == Spec => []NarrationIsFaithful
<1> DEFINE Inv == FramesOf /\ NarrationIsFaithful
<1>1. Init => Inv
  BY DEF Init, FramesOf, NarrationIsFaithful, Nothing
<1>2. IInv /\ Inv /\ [Next]_vars => Inv'
  <2> SUFFICES ASSUME IInv, Inv, [Next]_vars PROVE Inv'
    OBVIOUS
  <2>1. CASE UNCHANGED vars
    BY <2>1 DEF vars, kernel, FramesOf, NarrationIsFaithful
  <2>2. CASE Next
    <3>1. PICK t \in Threads : ThreadStep(t)
      BY <2>2 DEF Next
    <3>2. CASE demo = "store"
      <4>1. demo' = "store"
        BY <3>1, <3>2 DEF ThreadStep, Refuse, DoCall, DoRecv, DoMint, DoDelete, DoGrant, DoAnswer,
                          DoSignal, Done, Blocked
      <4> QED BY <4>1 DEF FramesOf, NarrationIsFaithful
    <3>3. CASE demo # "store"
      BY <3>1, <3>3, FaithStep
    <3> QED BY <3>2, <3>3
  <2> QED BY <2>1, <2>2
<1> HIDE DEF Inv
<1>3. Spec => []Inv
  BY <1>1, <1>2, NarrationInvariant, PTL DEF Spec
<1>4. Inv => NarrationIsFaithful
  BY DEF Inv
<1> QED BY <1>3, <1>4, PTL
=============================================================================
