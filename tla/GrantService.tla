---------------------------- MODULE GrantService ----------------------------
(***************************************************************************)
(* The services (keystore-service, store-service) and the programs that    *)
(* call them.  A service grants badges, revokes them, and answers requests *)
(* that come in several chunks, all on one endpoint; while it waits for a  *)
(* client's next chunk it serves everybody else.  A service may itself be  *)
(* another's client: the store seals through the keystore.                 *)
(*                                                                         *)
(* A step goes from one system call to the next.  Nothing preempts a       *)
(* program (no timer, src/main.rs:126), so one that spins keeps the hart.  *)
(***************************************************************************)
EXTENDS Naturals, Sequences, FiniteSets

CONSTANTS
  Services, Clients, Nobody,
  Elsewhere,       \* the clients whose programs are not in this repository
  Upstream,        \* the service a service calls, or Nobody
  BinderLaunched,  \* the services whose arg0 has the flag
  MaxBadges,       \* badges one Broker's table has room for
  MaxChunks,       \* chunks of one reply
  Launches         \* records: caps and script of each thread

Threads == Services \cup Clients

PLAIN == 0
Minted == 1..MaxBadges
GRANTER_BADGE == MaxBadges + 1
Badges == 0..GRANTER_BADGE

(* A message: who sent it under which badge; label; n, the chunks still to *)
(* come after this one or the badge to revoke; the object of a GRANT;      *)
(* whether a slot for a capability is registered.                          *)
Labels == {"DATA", "GRANT", "REVOKE"}
Objects == {"sound", "unknown", "malformed"}
Messages ==
  [from : Threads, badge : Badges, label : Labels, n : Nat, object : Objects,
   slot : BOOLEAN]
NoMessage == [from |-> Nobody]

(* What a client does next: a call under one of some badges, PASS (hand    *)
(* its badges to another client) or SPIN (signal the verdict, loop).       *)
Ops ==
  [to : Threads, as : SUBSET Badges, label : Labels \cup {"PASS", "SPIN"},
   n : Nat, object : Objects, slot : BOOLEAN]

ASSUME ServicesAssumption ==
  /\ Nobody \notin Threads /\ Services \cap Clients = {}
  /\ Upstream \in [Services -> Services \cup {Nobody}]
  /\ BinderLaunched \subseteq Services /\ Elsewhere \subseteq Clients
  /\ MaxBadges \in Nat /\ MaxChunks \in Nat \ {0}
ASSUME LaunchesAssumption ==
  Launches \subseteq [caps : [Threads -> SUBSET (Services \X Badges)],
                      script : [Clients -> Seq(Ops)]]
(* The loaders hand out endpoints plain or with the binder's badge, and a  *)
(* service that calls another has that one's.                              *)
ASSUME CapsAssumption ==
  \A l \in Launches :
    /\ \A t \in Threads : l.caps[t] \cap (Services \X Minted) = {}
    /\ \A s \in Services : Upstream[s] # Nobody => <<Upstream[s], PLAIN>> \in l.caps[s]

VARIABLES
  svc,     \* the services' own state
  queue,   \* calls no service has received yet, by endpoint
  thread,  \* what each thread's last call was, and the answer
  caps,    \* endpoint capabilities, by thread
  script,  \* what each client will do
  hart     \* the thread that spins for ever, or Nobody

vars == <<svc, queue, thread, caps, script, hart>>

NoExchange == [badge |-> Nobody, left |-> 0]
FirstPhase(s) == IF s \in BinderLaunched THEN 2 ELSE 1
Started(s) ==
  [pc |-> IF Upstream[s] = Nobody THEN "recv" ELSE "register",
   phase |-> FirstPhase(s), received |-> NoMessage, exchange |-> NoExchange,
   scratch |-> PLAIN, ledger |-> <<>>]
NoCall == [reply |-> "none", to |-> Nobody, badge |-> PLAIN, n |-> 0, matched |-> TRUE]

Init ==
  /\ \E l \in Launches : caps = l.caps /\ script = l.script
  /\ svc = [s \in Services |-> Started(s)]
  /\ queue = [s \in Services |-> <<>>]
  /\ thread = [t \in Threads |-> NoCall]
  /\ hart = Nobody

-----------------------------------------------------------------------------
(* keystore-client and store-client: `channel.call(..).ok()?`, then `if    *)
(* status != OK`: one call that fails decides the verdict.                 *)
StillMatches(t) ==
  thread[t].matched /\ thread[t].reply \notin {"ACCESS", "INVALID", "BUSY", "ERROR"}

(* The kernel's Call: the caller waits on the endpoint's queue.            *)
Call(t, s, b, label, n, object, slot) ==
  /\ queue' = [queue EXCEPT ![s] = Append(@,
       [from |-> t, badge |-> b, label |-> label, n |-> n, object |-> object, slot |-> slot])]
  /\ thread' = [thread EXCEPT ![t] =
       [reply |-> "waiting", to |-> s, badge |-> b, n |-> n, matched |-> StillMatches(t)]]
Waits(t) == thread[t].reply = "waiting"
MoreToCome(t) == thread[t].reply \in {"more", "part"}

(* The next message of an exchange: one chunk fewer to send, or an empty   *)
(* one that asks for the next chunk of the reply.                          *)
SendNext(t) ==
  Call(t, thread[t].to, thread[t].badge, "DATA",
       IF thread[t].n = 0 THEN 0 ELSE thread[t].n - 1, "sound", FALSE)

(* Reply to the call that was received; the service goes on as next.       *)
Answer(s, status, next) ==
  /\ thread' = [thread EXCEPT ![svc[s].received.from].reply = status]
  /\ svc' = [svc EXCEPT ![s] = [next EXCEPT !.received = NoMessage]]

-----------------------------------------------------------------------------
(* Clients.                                                                *)
Free(c) == hart = Nobody /\ ~Waits(c) /\ ~MoreToCome(c) /\ script[c] # <<>>
Op(c) == Head(script[c])
CallBadges(c) == {b \in Op(c).as : <<Op(c).to, b>> \in caps[c]}
NextOp(c) == script' = [script EXCEPT ![c] = Tail(@)]

ClientCalls(c) ==
  /\ Free(c) /\ Op(c).label \in Labels
  /\ \E b \in CallBadges(c) :
       Call(c, Op(c).to, b, Op(c).label, Op(c).n, Op(c).object, Op(c).slot)
  /\ NextOp(c)
  /\ UNCHANGED <<svc, caps, hart>>

(* No such capability: the call returns at once.                           *)
ClientRefused(c) ==
  /\ Free(c) /\ Op(c).label \in Labels /\ CallBadges(c) = {}
  /\ thread' = [thread EXCEPT ![c].reply = "ERROR", ![c].matched = StillMatches(c)]
  /\ NextOp(c)
  /\ UNCHANGED <<svc, queue, caps, hart>>

ClientContinues(c) ==
  /\ hart = Nobody /\ MoreToCome(c)
  /\ SendNext(c)
  /\ UNCHANGED <<svc, caps, script, hart>>

(* A client may also wait for something else and never come back.          *)
ClientStops(c) ==
  /\ hart = Nobody /\ MoreToCome(c) /\ c \in Elsewhere
  /\ thread' = [thread EXCEPT ![c].reply = "none", ![c].matched = FALSE]
  /\ script' = [script EXCEPT ![c] = <<>>]
  /\ UNCHANGED <<svc, queue, caps, hart>>

(* The launch binder hands the badges it was granted to the runtime.       *)
PassOn(c) ==
  /\ Free(c) /\ Op(c).label = "PASS"
  /\ caps' = [caps EXCEPT ![Op(c).to] = @ \cup (caps[c] \cap (Services \X Minted))]
  /\ NextOp(c)
  /\ UNCHANGED <<svc, queue, thread, hart>>

(* `sys::signal(if matched ..)`, then `loop { spin_loop() }`.              *)
SignalAndSpin(c) ==
  /\ Free(c) /\ Op(c).label = "SPIN"
  /\ hart' = c
  /\ thread' = [thread EXCEPT ![c].matched = StillMatches(c)]
  /\ NextOp(c)
  /\ UNCHANGED <<svc, queue, caps>>

ClientStep(c) ==
  \/ ClientCalls(c) \/ ClientRefused(c) \/ ClientContinues(c) \/ ClientStops(c)
  \/ PassOn(c) \/ SignalAndSpin(c)

-----------------------------------------------------------------------------
(* Services: starting and receiving.                                       *)
At(s, p) == hart = Nobody /\ svc[s].pc = p
Goto(s, p) == [svc[s] EXCEPT !.pc = p]
Going(s, p) == svc' = [svc EXCEPT ![s].pc = p]
Msg(s) == svc[s].received

(* store-service first asks its keystore for a grant of its own.           *)
Register(s) ==
  /\ At(s, "register")
  /\ Call(s, Upstream[s], PLAIN, "DATA", 0, "sound", TRUE)
  /\ Going(s, "registering")
  /\ UNCHANGED <<caps, script, hart>>
Registered(s) ==
  /\ At(s, "registering") /\ ~Waits(s)
  /\ Going(s, "recv")
  /\ UNCHANGED <<queue, thread, caps, script, hart>>

(* The oldest call, whoever sent it: phase 1 grants it access, phase 2     *)
(* looks at it first.                                                      *)
(* Mutant: while a client's chunks are awaited, only from that client.     *)
OnlyTheClient(s) ==
  svc[s].exchange = NoExchange \/ Head(queue[s]).badge = svc[s].exchange.badge
ReceivesFrom(s) == TRUE
Recv(s) ==
  /\ At(s, "recv") /\ queue[s] # <<>> /\ ReceivesFrom(s)
  /\ svc' = [svc EXCEPT ![s].pc = IF svc[s].phase = 1 THEN "mint" ELSE "serve",
                        ![s].received = Head(queue[s])]
  /\ queue' = [queue EXCEPT ![s] = Tail(@)]
  /\ UNCHANGED <<thread, caps, script, hart>>

-----------------------------------------------------------------------------
(* Granting: request_key_access, deliver_grant_via_reply, delete.          *)

(* grant::classify: only the binder's badge makes a GRANT or a REVOKE one. *)
(* Mutant: by its label.                                                   *)
AnyGrant(m) == m.label = "GRANT"
IsGrant(m) == m.label = "GRANT" /\ m.badge = GRANTER_BADGE
IsRevoke(m) == m.label = "REVOKE" /\ m.badge = GRANTER_BADGE
IsForged(m) == m.label \in {"GRANT", "REVOKE"} /\ m.badge # GRANTER_BADGE

(* serve_grant's first check: the numbers name an object and operations.   *)
ServeGrant(s) ==
  /\ At(s, "serve") /\ IsGrant(Msg(s))
  /\ IF Msg(s).object = "malformed" THEN Answer(s, "INVALID", Goto(s, "recv"))
     ELSE Going(s, "mint") /\ UNCHANGED thread
  /\ UNCHANGED <<queue, caps, script, hart>>

Wanted(s) == svc[s].phase = 1 \/ Msg(s).object = "sound"
(* Mutant: without a look at the room left.                                *)
CanMintMore(s) == Wanted(s) /\ svc[s].scratch = PLAIN
CanMint(s) ==
  Wanted(s) /\ svc[s].scratch = PLAIN /\ Len(svc[s].ledger) < MaxBadges
Mint(s) ==
  /\ At(s, "mint") /\ CanMint(s)
  /\ svc' = [svc EXCEPT ![s].pc = "deliver", ![s].ledger = Append(@, "live"),
                        ![s].scratch = Len(svc[s].ledger) + 1]
  /\ UNCHANGED <<queue, thread, caps, script, hart>>

(* A Reply that carries a capability needs a slot to put it in.            *)
Deliver(s) ==
  /\ At(s, "deliver") /\ Msg(s).slot
  /\ caps' = [caps EXCEPT ![Msg(s).from] = @ \cup {<<s, svc[s].scratch>>}]
  /\ Answer(s, "OK", Goto(s, "delete"))
  /\ UNCHANGED <<queue, script, hart>>

GrantFails(s) ==
  \/ At(s, "mint") /\ ~CanMint(s)
  \/ At(s, "deliver") /\ ~Msg(s).slot

(* In phase 2 the caller is told, and the slot emptied all the same.       *)
(* Mutant: straight back to the next message.                              *)
StraightBack(s) == Goto(s, "recv")
AfterFailure(s) == Goto(s, "delete")
RefuseGrant(s) ==
  /\ GrantFails(s) /\ svc[s].phase = 2
  /\ Answer(s, "INVALID", AfterFailure(s))
  /\ UNCHANGED <<queue, caps, script, hart>>

(* In phase 1 the service spins for ever, and the caller waits.            *)
(* Mutant: on to phase 2.                                                  *)
CarryOn(s) ==
  /\ svc' = [svc EXCEPT ![s] = [Goto(s, "delete") EXCEPT !.received = NoMessage]]
  /\ UNCHANGED hart
GiveUp(s) == hart' = s /\ UNCHANGED svc
FirstGrantFails(s) ==
  /\ GrantFails(s) /\ svc[s].phase = 1
  /\ GiveUp(s)
  /\ UNCHANGED <<queue, thread, caps, script>>

Delete(s) ==
  /\ At(s, "delete")
  /\ svc' = [svc EXCEPT ![s].pc = "recv", ![s].phase = 2, ![s].scratch = PLAIN]
  /\ UNCHANGED <<queue, thread, caps, script, hart>>

-----------------------------------------------------------------------------
(* Others::serve, the other messages that need no exchange.                *)
Known(s, b) == b \in DOMAIN svc[s].ledger
Live(s, b) == Known(s, b) /\ svc[s].ledger[b] = "live"

(* Mutant: the status without the revocation.                              *)
StillLive(ledger, b) == ledger
Revoked(ledger, b) == [ledger EXCEPT ![b] = "revoked"]
ServeRevoke(s) ==
  /\ At(s, "serve") /\ IsRevoke(Msg(s))
  /\ IF Known(s, Msg(s).n)
     THEN Answer(s, "OK", [Goto(s, "recv") EXCEPT !.ledger = Revoked(@, Msg(s).n)])
     ELSE Answer(s, "INVALID", Goto(s, "recv"))
  /\ UNCHANGED <<queue, caps, script, hart>>

ServeForged(s) ==
  /\ At(s, "serve") /\ IsForged(Msg(s))
  /\ Answer(s, "ACCESS", Goto(s, "recv"))
  /\ UNCHANGED <<queue, caps, script, hart>>

Idle(s) == svc[s].exchange = NoExchange
ServeBusy(s) ==
  /\ At(s, "serve") /\ Msg(s).label = "DATA"
  /\ ~Idle(s) /\ Msg(s).badge # svc[s].exchange.badge
  /\ Answer(s, "BUSY", Goto(s, "recv"))
  /\ UNCHANGED <<queue, caps, script, hart>>

-----------------------------------------------------------------------------
(* One exchange: recv_request, handle_request, reply.                      *)

(* Mutant: whoever began may finish.                                       *)
AlwaysAllowed(s, b) == TRUE
StillAllowed(s, b) == ~(Known(s, b) /\ ~Live(s, b))

Chunk(s) ==
  /\ At(s, "serve") /\ Msg(s).label = "DATA"
  /\ Idle(s) \/ Msg(s).badge = svc[s].exchange.badge
Back(s, exchange) == [Goto(s, "recv") EXCEPT !.exchange = exchange]
CutOff(s) == ~Idle(s) /\ ~StillAllowed(s, Msg(s).badge)

(* The badge was revoked since the exchange began.                         *)
RefuseChunk(s) ==
  /\ Chunk(s) /\ CutOff(s)
  /\ Answer(s, "INVALID", Back(s, NoExchange))
  /\ UNCHANGED <<queue, caps, script, hart>>

(* recv_request: a chunk of the request that is not the last.              *)
TakeChunk(s) ==
  /\ Chunk(s) /\ ~CutOff(s) /\ svc[s].exchange.left = 0 /\ Msg(s).n > 0
  /\ Answer(s, "more", Back(s, [badge |-> Msg(s).badge, left |-> 0]))
  /\ UNCHANGED <<queue, caps, script, hart>>
TakeLastChunk(s) ==
  /\ Chunk(s) /\ ~CutOff(s) /\ svc[s].exchange.left = 0 /\ Msg(s).n = 0
  /\ Going(s, "handle")
  /\ UNCHANGED <<queue, thread, caps, script, hart>>

(* reply: the chunk the client came back for.                              *)
GiveChunk(s) ==
  /\ Chunk(s) /\ ~CutOff(s) /\ svc[s].exchange.left > 0
  /\ LET left == svc[s].exchange.left - 1
     IN  IF left = 0 THEN Answer(s, "OK", Back(s, NoExchange))
         ELSE Answer(s, "part", Back(s, [badge |-> Msg(s).badge, left |-> left]))
  /\ UNCHANGED <<queue, caps, script, hart>>

(* reply, its first chunk; what was refused fits in one.                   *)
Respond(s, status) ==
  IF status # "OK" THEN Answer(s, status, Back(s, NoExchange))
  ELSE \E chunks \in 1..MaxChunks :
         IF chunks = 1 THEN Answer(s, "OK", Back(s, NoExchange))
         ELSE Answer(s, "part", Back(s, [badge |-> Msg(s).badge, left |-> chunks - 1]))

(* handle_request: by the badge's grant, with the service's own key.       *)
Handle(s) ==
  /\ At(s, "handle") /\ ~(Live(s, Msg(s).badge) /\ Upstream[s] # Nobody)
  /\ Respond(s, IF Live(s, Msg(s).badge) THEN "OK" ELSE "ACCESS")
  /\ UNCHANGED <<queue, caps, script, hart>>

(* Or through ChannelCipher, under the badge the keystore granted it.      *)
(* Mutant: on the endpoint it asked for the grant.                         *)
UpstreamPlain(s) == {PLAIN}
UpstreamBadges(s) == {b \in Minted : <<Upstream[s], b>> \in caps[s]}
HandleUpstream(s) ==
  /\ At(s, "handle") /\ Live(s, Msg(s).badge) /\ Upstream[s] # Nobody
  /\ IF UpstreamBadges(s) = {}
     THEN Respond(s, "INVALID") /\ UNCHANGED queue
     ELSE /\ \E b \in UpstreamBadges(s), n \in 0..(MaxChunks - 1) :
               Call(s, Upstream[s], b, "DATA", n, "sound", FALSE)
          /\ Going(s, "upstream")
  /\ UNCHANGED <<caps, script, hart>>
UpstreamContinues(s) ==
  /\ At(s, "upstream") /\ MoreToCome(s)
  /\ SendNext(s)
  /\ UNCHANGED <<svc, caps, script, hart>>
UpstreamAnswered(s) ==
  /\ At(s, "upstream") /\ ~Waits(s) /\ ~MoreToCome(s)
  /\ Respond(s, IF thread[s].reply = "OK" THEN "OK" ELSE "INVALID")
  /\ UNCHANGED <<queue, caps, script, hart>>

ServiceStep(s) ==
  \/ Register(s) \/ Registered(s) \/ Recv(s)
  \/ ServeGrant(s) \/ Mint(s) \/ Deliver(s) \/ RefuseGrant(s)
  \/ FirstGrantFails(s) \/ Delete(s)
  \/ ServeRevoke(s) \/ ServeForged(s) \/ ServeBusy(s)
  \/ RefuseChunk(s) \/ TakeChunk(s) \/ TakeLastChunk(s) \/ GiveChunk(s)
  \/ Handle(s) \/ HandleUpstream(s) \/ UpstreamContinues(s) \/ UpstreamAnswered(s)

Next == (\E s \in Services : ServiceStep(s)) \/ (\E c \in Clients : ClientStep(c))
Spec == Init /\ [][Next]_vars /\ WF_vars(Next)
-----------------------------------------------------------------------------
PCs == {"register", "registering", "recv", "serve", "mint", "deliver", "delete",
        "handle", "upstream"}
Replies == {"none", "waiting", "more", "part", "OK", "ACCESS", "INVALID", "BUSY", "ERROR"}

(* Types; a badge in scratch or in an exchange is one the table knows.     *)
TypeOK ==
  /\ svc \in [Services ->
       [pc : PCs, phase : {1, 2}, received : Messages \cup {NoMessage},
        exchange : [badge : Badges \cup {Nobody}, left : 0..MaxChunks],
        scratch : 0..MaxBadges, ledger : Seq({"live", "revoked"})]]
  /\ \A s \in Services : Len(svc[s].ledger) <= MaxBadges
  /\ queue \in [Services -> Seq(Messages)]
  /\ thread \in [Threads ->
       [reply : Replies, to : Services \cup {Nobody}, badge : Badges, n : Nat,
        matched : BOOLEAN]]
  /\ caps \in [Threads -> SUBSET (Services \X Badges)]
  /\ script \in [Clients -> Seq(Ops)]
  /\ hart \in Threads \cup {Nobody}

(* No call is lost, and none is answered twice: whoever waits is in the    *)
(* queue once or is the one being served, and nobody else is in either.    *)
From(s, t) == {k \in DOMAIN queue[s] : queue[s][k].from = t}
NoCallerForgotten ==
  \A t \in Threads, s \in Services :
    Cardinality(From(s, t)) + (IF Msg(s).from = t THEN 1 ELSE 0)
      = IF Waits(t) /\ thread[t].to = s THEN 1 ELSE 0

(* "a later `GRANT` needs this slot empty": a grant that can be made is    *)
(* made, whatever became of the ones before it.                            *)
GrantsFailForCause ==
  \A s \in Services :
    At(s, "mint") /\ ~CanMint(s) =>
      ~Wanted(s) \/ Len(svc[s].ledger) = MaxBadges

(* Once a badge is revoked no data goes out under it: neither to a new     *)
(* request, nor to one half sent, nor the rest of a reply half fetched.    *)
RevocationIsFinal ==
  [][\A t \in Threads :
       /\ Waits(t) /\ thread'[t].reply \in {"part", "OK"}
       /\ thread[t].badge \in Minted
       => Live(thread[t].to, thread[t].badge)]_vars

(* The binder is heard whatever the client whose chunks are awaited does.  *)
RevokesTakeEffect ==
  \A s \in Services, b \in Minted :
    (\E k \in DOMAIN queue[s] : IsRevoke(queue[s][k]) /\ queue[s][k].n = b)
      ~> (hart # Nobody \/ ~Live(s, b))

(* No call waits for ever, unless some program took the hart.              *)
CallsEnd == <>[](hart = Nobody => \A t \in Threads : ~Waits(t))

(* The verdict a demo's client signals is SUCCESS.                         *)
DemoSucceeds == <>(\E c \in Clients : hart = c /\ thread[c].matched)
=============================================================================
