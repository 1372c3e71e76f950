----------------------------- MODULE GrantProofs -----------------------------
(***************************************************************************)
(* Theorems about the services and their callers, for any services,        *)
(* clients, scripts, numbers of badges and lengths of messages: what they  *)
(* never do, and that they implement AbstractService step by step - a call *)
(* is asked when it is made, every answer is one of the abstract answers,  *)
(* and what a service does in between is no step at all.                   *)
(***************************************************************************)
EXTENDS GrantRefinement, FiniteSetTheorems, SequenceTheorems, TLAPS

-----------------------------------------------------------------------------
(* The inductive invariant.                                                *)

(* Where a service is: with a call to answer exactly between two Recvs,    *)
(* and itself waiting only where it called.                                *)
Owing == {"serve", "mint", "deliver", "handle", "upstream"}
ControlOf(s) ==
  /\ svc[s].pc \in Owing <=> Msg(s) # NoMessage
  /\ Waits(s) => svc[s].pc \in {"registering", "upstream"}
  /\ svc[s].pc = "register" => Upstream[s] # Nobody
  /\ svc[s].pc \in {"serve", "handle", "upstream"} => svc[s].phase = 2
  /\ svc[s].pc \in {"handle", "upstream"} => Msg(s).label = "DATA"
  /\ svc[s].pc = "upstream" => Live(s, Msg(s).badge)
  /\ svc[s].pc \in {"mint", "deliver"} /\ svc[s].phase = 2 => IsGrant(Msg(s))
Control == \A s \in Services : ControlOf(s)

(* The table of badges: the scratch slot is full from the mint to the      *)
(* delete, phase 1 ends with the first badge handed out, and only a badge  *)
(* of the table has a reply half sent.                                     *)
GrantingOf(s) ==
  /\ svc[s].scratch # PLAIN => svc[s].pc \in {"deliver", "delete"}
  /\ svc[s].pc = "deliver" =>
       /\ svc[s].scratch = Len(svc[s].ledger)
       /\ Len(svc[s].ledger) > 0 /\ svc[s].ledger[svc[s].scratch] = "live"
  /\ svc[s].phase = 1 /\ svc[s].pc # "delete" =>
       IF svc[s].pc = "deliver" THEN Len(svc[s].ledger) = 1 ELSE svc[s].ledger = <<>>
  /\ svc[s].exchange.left > 0 => Known(s, svc[s].exchange.badge)
Granting == \A s \in Services : GrantingOf(s)

(* Whatever is queued or received is the last call of one who waits for    *)
(* the answer; no two of them have one caller.                             *)
IsCallOf(m, t, s) == m.from = t /\ Waits(t) /\ thread[t].to = s /\ thread[t].badge = m.badge
OwedBy(s) ==
  /\ \A k \in DOMAIN queue[s] :
       /\ IsCallOf(queue[s][k], queue[s][k].from, s)
       /\ queue[s][k].from # Msg(s).from
       /\ \A j \in DOMAIN queue[s] : queue[s][j].from = queue[s][k].from => j = k
  /\ Msg(s) # NoMessage => IsCallOf(Msg(s), Msg(s).from, s)
Owed == \A s \in Services : OwedBy(s)

(* Whoever waits is queued or being served where it called.                *)
Heard ==
  \A t \in Threads, s \in Services : Waits(t) /\ thread[t].to = s =>
    Msg(s).from = t \/ \E k \in DOMAIN queue[s] : queue[s][k].from = t

(* Calls are made under badges their callers hold, and a minted badge is   *)
(* held only once it was issued.                                           *)
IssuedLen(s) == Len(svc[s].ledger) - (IF svc[s].pc = "deliver" THEN 1 ELSE 0)
Backed ==
  /\ \A t \in Threads : Waits(t) \/ MoreToCome(t) =>
       thread[t].to \in Services /\ <<thread[t].to, thread[t].badge>> \in caps[t]
  /\ \A t \in Threads, s \in Services, b \in Minted :
       <<s, b>> \in caps[t] => b <= IssuedLen(s)
  /\ \A s \in Services : Upstream[s] # Nobody => <<Upstream[s], PLAIN>> \in caps[s]

IInv == TypeOK /\ Control /\ Granting /\ Owed /\ Heard /\ Backed

-----------------------------------------------------------------------------
(* Types.                                                                  *)

States ==
  [pc : PCs, phase : {1, 2}, received : Messages \cup {NoMessage},
   exchange : [badge : Badges \cup {Nobody}, left : 0..MaxChunks],
   scratch : 0..MaxBadges, ledger : Seq({"live", "revoked"})]
Calls ==
  [reply : Replies, to : Services \cup {Nobody}, badge : Badges, n : Nat,
   matched : BOOLEAN]

LEMMA TypeFacts ==
  ASSUME TypeOK
  PROVE  /\ svc \in [Services -> States] /\ thread \in [Threads -> Calls]
         /\ queue \in [Services -> Seq(Messages)]
         /\ \A s \in Services : Len(svc[s].ledger) \in 0..MaxBadges
         /\ \A m \in Messages : m # NoMessage /\ m.from \in Threads /\ m.from # Nobody
         /\ MaxBadges \in Nat /\ MaxChunks \in Nat \ {0}
         /\ Nobody \notin Threads /\ Services \subseteq Threads /\ Clients \subseteq Threads
<1>1. svc \in [Services -> States] /\ thread \in [Threads -> Calls]
  BY DEF TypeOK, States, Calls
<1>2. \A s \in Services : svc[s].ledger \in Seq({"live", "revoked"})
  BY <1>1 DEF States
<1>3. Nobody \notin Threads /\ MaxBadges \in Nat /\ MaxChunks \in Nat \ {0}
  BY ServicesAssumption
<1>4. \A m \in Messages : m # NoMessage /\ m.from \in Threads /\ m.from # Nobody
  BY <1>3 DEF Messages, NoMessage
<1> QED
  BY <1>1, <1>2, <1>3, <1>4 DEF TypeOK, Threads

(* A service that owes an answer has received a message.                   *)
LEMMA MsgFacts ==
  ASSUME TypeOK, Control, NEW s \in Services, svc[s].pc \in Owing
  PROVE  Msg(s) \in Messages
  BY TypeFacts DEF Control, ControlOf, States, Msg

LEMMA CallType ==
  ASSUME TypeOK, NEW t \in Threads, NEW s \in Services, NEW b \in Badges,
         NEW label \in Labels, NEW n \in Nat, NEW object \in Objects, NEW slot \in BOOLEAN,
         Call(t, s, b, label, n, object, slot)
  PROVE  queue' \in [Services -> Seq(Messages)] /\ thread' \in [Threads -> Calls]
<1> DEFINE m == [from |-> t, badge |-> b, label |-> label, n |-> n, object |-> object,
                 slot |-> slot]
           c == [reply |-> "waiting", to |-> s, badge |-> b, n |-> n,
                 matched |-> StillMatches(t)]
<1>1. m \in Messages
  BY DEF Messages
<1>2. StillMatches(t) \in BOOLEAN
  BY DEF StillMatches
<1>3. c \in Calls
  BY <1>2 DEF Calls, Replies
<1>4. queue' = [queue EXCEPT ![s] = Append(@, m)] /\ thread' = [thread EXCEPT ![t] = c]
  BY DEF Call
<1>5. queue[s] \in Seq(Messages)
  BY TypeFacts
<1>6. Append(queue[s], m) \in Seq(Messages)
  BY <1>1, <1>5
<1> HIDE DEF m, c
<1> QED
  BY <1>3, <1>4, <1>6, TypeFacts

LEMMA AnswerType ==
  ASSUME TypeOK, Control, NEW s \in Services, svc[s].pc \in Owing,
         NEW status \in Replies, NEW next \in States, Answer(s, status, next)
  PROVE  /\ thread' \in [Threads -> Calls]
         /\ svc' = [svc EXCEPT ![s] = [next EXCEPT !.received = NoMessage]]
         /\ svc' \in [Services -> States]
<1>1. Msg(s).from \in Threads
  BY MsgFacts, TypeFacts
<1>2. [next EXCEPT !.received = NoMessage] \in States
  BY DEF States
<1>3. [thread[Msg(s).from] EXCEPT !.reply = status] \in Calls
  BY <1>1, TypeFacts DEF Calls
<1>4. thread' = [thread EXCEPT ![Msg(s).from] = [thread[Msg(s).from] EXCEPT !.reply = status]]
  BY DEF Answer, Msg
<1> QED
  BY <1>1, <1>2, <1>3, <1>4, TypeFacts DEF Answer

-----------------------------------------------------------------------------
(* Every step has one of four shapes: an answer, a call, a Recv, or a step *)
(* that no message is concerned in.                                        *)

Exchanges == [badge : Badges \cup {Nobody}, left : 0..MaxChunks]

AnswersWith(s, status, next) ==
  /\ svc[s].pc \in Owing /\ ~Waits(s)
  /\ status \in Replies \ {"waiting"} /\ next \in States
  /\ Answer(s, status, next) /\ UNCHANGED <<queue, script, hart>>
  /\ next.pc \in {"recv", "delete"}
  /\ svc[s].pc = "deliver" \/ svc[s].phase = 1 => next.pc = "delete"
  /\ next.phase = svc[s].phase /\ next.scratch = svc[s].scratch
  /\ Len(next.ledger) = Len(svc[s].ledger)
  /\ next.exchange.left > 0 => next.exchange.badge \in DOMAIN svc[s].ledger
Answers(s) == \E status, next : AnswersWith(s, status, next)

Calling(t) ==
  /\ ~Waits(t)
  /\ \E s \in Services, b \in Badges, label \in Labels, n \in Nat, object \in Objects,
        slot \in BOOLEAN :
       <<s, b>> \in caps[t] /\ Call(t, s, b, label, n, object, slot)
  /\ UNCHANGED <<caps, hart>>

(* Back to recv, with the exchange where it is now.                        *)
LEMMA BackFacts ==
  ASSUME TypeOK, NEW s \in Services, NEW x \in Exchanges
  PROVE  /\ Back(s, x) \in States
         /\ Back(s, x) = [svc[s] EXCEPT !.pc = "recv", !.exchange = x]
         /\ Back(s, x).pc = "recv" /\ Back(s, x).exchange = x
         /\ Back(s, x).phase = svc[s].phase /\ Back(s, x).scratch = svc[s].scratch
         /\ Back(s, x).ledger = svc[s].ledger
<1>1. svc[s] \in States
  BY TypeFacts
<1> QED
  BY <1>1 DEF Back, Goto, States, PCs, Exchanges

LEMMA GotoFacts ==
  ASSUME TypeOK, NEW s \in Services, NEW p \in PCs
  PROVE  /\ Goto(s, p) \in States /\ Goto(s, p).pc = p
         /\ Goto(s, p).exchange = svc[s].exchange
         /\ Goto(s, p).phase = svc[s].phase /\ Goto(s, p).scratch = svc[s].scratch
         /\ Goto(s, p).ledger = svc[s].ledger
<1>1. svc[s] \in States
  BY TypeFacts
<1> QED
  BY <1>1 DEF Goto, States

LEMMA NoExchangeFacts ==
  ASSUME TypeOK
  PROVE  NoExchange \in Exchanges /\ NoExchange.left = 0
  BY TypeFacts DEF NoExchange, Exchanges

(* The answers of phase 2 that go back to recv.                            *)
LEMMA AnswerBack ==
  ASSUME IInv, NEW s \in Services, svc[s].pc \in {"serve", "handle", "upstream"}, ~Waits(s),
         NEW status \in Replies \ {"waiting"}, NEW x \in Exchanges,
         Answer(s, status, Back(s, x)), UNCHANGED <<queue, script, hart>>,
         x.left > 0 => x.badge \in DOMAIN svc[s].ledger
  PROVE  AnswersWith(s, status, Back(s, x))
<1>1. svc[s].pc \in Owing /\ svc[s].phase = 2 /\ TypeOK
  BY DEF IInv, Control, ControlOf, Owing
<1>2. Back(s, x) \in States /\ Back(s, x).pc \in {"recv", "delete"}
  BY <1>1, BackFacts
<1>3. /\ Back(s, x).phase = svc[s].phase /\ Back(s, x).scratch = svc[s].scratch
      /\ Back(s, x).ledger = svc[s].ledger /\ Back(s, x).exchange = x
  BY <1>1, BackFacts
<1>4. svc[s].pc # "deliver" /\ svc[s].phase # 1
  BY <1>1
<1> HIDE DEF IInv
<1> QED
  BY <1>1, <1>2, <1>3, <1>4 DEF AnswersWith

(* Respond is one of three answers, and more is to follow only after OK.   *)
LEMMA RespondAnswers ==
  ASSUME IInv, NEW s \in Services, svc[s].pc \in {"handle", "upstream"}, ~Waits(s),
         NEW status \in {"OK", "ACCESS", "INVALID"}, Respond(s, status),
         UNCHANGED <<queue, script, hart>>,
         status = "OK" => Live(s, Msg(s).badge)
  PROVE  \E reply \in {status, "part"}, x \in Exchanges :
           /\ AnswersWith(s, reply, Back(s, x))
           /\ reply = "part" => status = "OK"
<1>1. TypeOK /\ Msg(s).badge \in Badges
  BY MsgFacts DEF IInv, Owing, Messages
<1>2. CASE Answer(s, status, Back(s, NoExchange))
  <2>1. NoExchange \in Exchanges /\ ~(NoExchange.left > 0) /\ status \in Replies \ {"waiting"}
    BY <1>1, NoExchangeFacts DEF Replies
  <2>2. AnswersWith(s, status, Back(s, NoExchange))
    BY <1>2, <2>1, AnswerBack
  <2> QED
    BY <2>1, <2>2
<1>3. ASSUME status = "OK", NEW chunks \in 1..MaxChunks,
             Answer(s, "part", Back(s, [badge |-> Msg(s).badge, left |-> chunks - 1]))
      PROVE  \E reply \in {status, "part"}, x \in Exchanges :
               /\ AnswersWith(s, reply, Back(s, x))
               /\ reply = "part" => status = "OK"
  <2> DEFINE x == [badge |-> Msg(s).badge, left |-> chunks - 1]
  <2>1. x \in Exchanges
    BY <1>1, TypeFacts DEF Exchanges
  <2>2. x.badge \in DOMAIN svc[s].ledger
    BY <1>3 DEF Live, Known
  <2>3. "part" \in Replies \ {"waiting"} /\ Answer(s, "part", Back(s, x))
    BY <1>3 DEF Replies
  <2> HIDE DEF x
  <2>4. AnswersWith(s, "part", Back(s, x))
    BY <2>1, <2>2, <2>3, AnswerBack
  <2> QED
    BY <1>3, <2>1, <2>4
<1> QED
  BY <1>2, <1>3 DEF Respond

(* A service that owes an answer and has called nobody does not wait.      *)
LEMMA NotWaiting ==
  ASSUME IInv, NEW s \in Services, svc[s].pc \in {"serve", "mint", "deliver", "handle"}
  PROVE  ~Waits(s) /\ svc[s].pc \in Owing
  BY DEF IInv, Control, ControlOf, Owing

(* The steps that answer.                                                  *)
AnswerStep(s) ==
  \/ ServeGrant(s) /\ Msg(s).object = "malformed"
  \/ Deliver(s) \/ RefuseGrant(s)
  \/ ServeRevoke(s) \/ ServeForged(s) \/ ServeBusy(s)
  \/ RefuseChunk(s) \/ TakeChunk(s) \/ GiveChunk(s)
  \/ HandleUpstream(s) /\ UpstreamBadges(s) = {}
  \/ Handle(s) \/ UpstreamAnswered(s)

LEMMA AnswerShape ==
  ASSUME IInv, NEW s \in Services, AnswerStep(s)
  PROVE  Answers(s)
<1>1. TypeOK /\ svc[s] \in States
  BY TypeFacts DEF IInv
<1>2. svc[s].exchange \in Exchanges /\ svc[s].ledger \in Seq({"live", "revoked"})
      /\ (svc[s].exchange.left > 0 => svc[s].exchange.badge \in DOMAIN svc[s].ledger)
  BY <1>1 DEF States, Exchanges, IInv, Granting, GrantingOf, Known
<1>3. NoExchange \in Exchanges /\ ~(NoExchange.left > 0)
  BY <1>1, NoExchangeFacts
<1>4. {"INVALID", "OK", "ACCESS", "BUSY", "more", "part"} \subseteq Replies \ {"waiting"}
      /\ {"recv", "delete"} \subseteq PCs
  BY DEF Replies, PCs
<1>5. ASSUME NEW status \in Replies \ {"waiting"}, NEW p \in {"recv", "delete"},
             svc[s].pc \in {"serve", "mint", "deliver"},
             svc[s].pc = "serve" \/ p = "delete",
             Answer(s, status, Goto(s, p)), UNCHANGED <<queue, script, hart>>
      PROVE  Answers(s)
  <2>1. svc[s].pc = "serve" => svc[s].phase # 1
    BY DEF IInv, Control, ControlOf
  <2>2. AnswersWith(s, status, Goto(s, p))
    BY <1>1, <1>2, <1>4, <1>5, <2>1, NotWaiting, GotoFacts DEF AnswersWith
  <2> QED
    BY <2>2 DEF Answers
<1>6. ASSUME NEW status \in Replies \ {"waiting"}, NEW x \in Exchanges,
             svc[s].pc = "serve", Answer(s, status, Back(s, x)),
             UNCHANGED <<queue, script, hart>>,
             x.left > 0 => x.badge \in DOMAIN svc[s].ledger
      PROVE  Answers(s)
  BY <1>6, AnswerBack, NotWaiting DEF Answers
<1>7. CASE ServeGrant(s) /\ Msg(s).object = "malformed"
  BY <1>4, <1>5, <1>7 DEF ServeGrant, At
<1>8. CASE Deliver(s)
  BY <1>4, <1>5, <1>8 DEF Deliver, At
<1>9. CASE RefuseGrant(s)
  BY <1>4, <1>5, <1>9 DEF RefuseGrant, GrantFails, AfterFailure, At
<1>10. CASE ServeRevoke(s)
  <2>1. CASE ~Known(s, Msg(s).n)
    BY <1>4, <1>5, <1>10, <2>1 DEF ServeRevoke, At
  <2>2. CASE Known(s, Msg(s).n)
    <3> DEFINE ledger == Revoked(svc[s].ledger, Msg(s).n)
               next == [Goto(s, "recv") EXCEPT !.ledger = ledger]
    <3>1. ledger \in Seq({"live", "revoked"}) /\ Len(ledger) = Len(svc[s].ledger)
      BY <1>2, <2>2 DEF Known, Revoked
    <3>2. next = [Goto(s, "recv") EXCEPT !.ledger = Revoked(@, Msg(s).n)]
      BY <1>1, <1>4, GotoFacts DEF States
    <3>3. Answer(s, "OK", next) /\ svc[s].pc = "serve" /\ UNCHANGED <<queue, script, hart>>
      BY <1>10, <2>2, <3>2 DEF ServeRevoke, At
    <3>4. svc[s].phase = 2
      BY <3>3 DEF IInv, Control, ControlOf
    <3> HIDE DEF ledger
    <3>5. Goto(s, "recv") \in States
      BY <1>1, <1>4, GotoFacts
    <3>6. /\ next \in States /\ next.ledger = ledger
          /\ next.pc = Goto(s, "recv").pc /\ next.phase = Goto(s, "recv").phase
          /\ next.scratch = Goto(s, "recv").scratch
          /\ next.exchange = Goto(s, "recv").exchange
      BY <3>1, <3>5 DEF States
    <3> HIDE DEF next
    <3>7. AnswersWith(s, "OK", next)
      BY <1>1, <1>2, <1>4, <3>1, <3>3, <3>4, <3>6, NotWaiting, GotoFacts DEF AnswersWith
    <3> QED
      BY <3>7 DEF Answers
  <2> QED
    BY <2>1, <2>2
<1>11. CASE ServeForged(s) \/ ServeBusy(s)
  BY <1>4, <1>5, <1>11 DEF ServeForged, ServeBusy, At
<1>12. CASE RefuseChunk(s)
  BY <1>3, <1>4, <1>6, <1>12 DEF RefuseChunk, Chunk, At
<1>13. CASE TakeChunk(s)
  <2> DEFINE x == [badge |-> Msg(s).badge, left |-> 0]
  <2>1. /\ svc[s].pc = "serve" /\ Answer(s, "more", Back(s, x))
        /\ UNCHANGED <<queue, script, hart>>
    BY <1>13 DEF TakeChunk, Chunk, At
  <2>2. Msg(s).badge \in Badges
    BY <1>1, <2>1, MsgFacts DEF IInv, Owing, Messages
  <2>3. x \in Exchanges /\ ~(x.left > 0)
    BY <2>2, TypeFacts, <1>1 DEF Exchanges
  <2> HIDE DEF x
  <2> QED
    BY <1>4, <1>6, <2>1, <2>3
<1>14. CASE GiveChunk(s)
  <2> DEFINE left == svc[s].exchange.left - 1
             x == [badge |-> Msg(s).badge, left |-> left]
  <2>1. /\ svc[s].pc = "serve" /\ svc[s].exchange.left > 0
        /\ UNCHANGED <<queue, script, hart>>
        /\ Idle(s) \/ Msg(s).badge = svc[s].exchange.badge
        /\ \/ Answer(s, "OK", Back(s, NoExchange))
           \/ Answer(s, "part", Back(s, x))
    BY <1>14 DEF GiveChunk, Chunk, At
  <2>2. Msg(s).badge = svc[s].exchange.badge
    BY <1>3, <2>1 DEF Idle
  <2>3. x \in Exchanges /\ x.badge \in DOMAIN svc[s].ledger
    BY <1>1, <1>2, <2>1, <2>2, TypeFacts DEF Exchanges
  <2> HIDE DEF x
  <2> QED
    BY <1>3, <1>4, <1>6, <2>1, <2>3
<1>15. CASE Handle(s)
  <2> DEFINE status == IF Live(s, Msg(s).badge) THEN "OK" ELSE "ACCESS"
  <2>1. /\ svc[s].pc = "handle" /\ Respond(s, status) /\ UNCHANGED <<queue, script, hart>>
        /\ status \in {"OK", "ACCESS", "INVALID"}
        /\ status = "OK" => Live(s, Msg(s).badge)
    BY <1>15 DEF Handle, At
  <2> HIDE DEF status
  <2> QED
    BY <2>1, RespondAnswers, NotWaiting DEF Answers
<1>16. CASE HandleUpstream(s) /\ UpstreamBadges(s) = {}
  <2>1. /\ svc[s].pc = "handle" /\ Respond(s, "INVALID") /\ UNCHANGED <<queue, script, hart>>
    BY <1>16 DEF HandleUpstream, At
  <2> QED
    BY <2>1, RespondAnswers, NotWaiting DEF Answers
<1>17. CASE UpstreamAnswered(s)
  <2> DEFINE status == IF thread[s].reply = "OK" THEN "OK" ELSE "INVALID"
  <2>1. /\ svc[s].pc = "upstream" /\ Respond(s, status) /\ UNCHANGED <<queue, script, hart>>
        /\ status \in {"OK", "ACCESS", "INVALID"} /\ ~Waits(s)
    BY <1>17 DEF UpstreamAnswered, At
  <2>2. Live(s, Msg(s).badge)
    BY <2>1 DEF IInv, Control, ControlOf
  <2> HIDE DEF status
  <2> QED
    BY <2>1, <2>2, RespondAnswers DEF Answers
<1> QED
  BY <1>7, <1>8, <1>9, <1>10, <1>11, <1>12, <1>13, <1>14, <1>15, <1>16, <1>17
  DEF AnswerStep

(* The steps that call, that stay inside a service, and those of a client  *)
(* that call nobody.                                                       *)
CallStep(t) ==
  \/ t \in Services /\ (Register(t) \/ UpstreamContinues(t))
  \/ t \in Services /\ HandleUpstream(t) /\ UpstreamBadges(t) # {}
  \/ t \in Clients /\ (ClientCalls(t) \/ ClientContinues(t))
InnerStep(s) ==
  \/ Registered(s) \/ Mint(s) \/ FirstGrantFails(s) \/ Delete(s) \/ TakeLastChunk(s)
  \/ ServeGrant(s) /\ Msg(s).object # "malformed"
IdleStep(c) == ClientRefused(c) \/ ClientStops(c) \/ PassOn(c) \/ SignalAndSpin(c)

LEMMA StepCases ==
  ASSUME Next
  PROVE  \/ \E s \in Services : AnswerStep(s) \/ Recv(s) \/ InnerStep(s)
         \/ \E t \in Threads : CallStep(t)
         \/ \E c \in Clients : IdleStep(c)
<1>1. ASSUME NEW s \in Services, ServiceStep(s)
      PROVE  AnswerStep(s) \/ Recv(s) \/ InnerStep(s) \/ CallStep(s)
  BY <1>1, Zenon DEF ServiceStep, AnswerStep, InnerStep, CallStep
<1>2. ASSUME NEW c \in Clients, ClientStep(c)
      PROVE  CallStep(c) \/ IdleStep(c)
  BY <1>2, Zenon DEF ClientStep, IdleStep, CallStep
<1> QED
  BY <1>1, <1>2 DEF Next, Threads

LEMMA CallShape ==
  ASSUME IInv, NEW t \in Threads, CallStep(t)
  PROVE  Calling(t)
<1>1. TypeOK /\ "DATA" \in Labels /\ "sound" \in Objects /\ FALSE \in BOOLEAN
  BY DEF IInv, Labels, Objects
<1>2. ASSUME MoreToCome(t), SendNext(t), UNCHANGED <<caps, hart>>
      PROVE  Calling(t)
    <2> DEFINE n == IF thread[t].n = 0 THEN 0 ELSE thread[t].n - 1
    <2>1. thread[t] \in Calls
      BY <1>1, TypeFacts
    <2>2. thread[t].badge \in Badges /\ n \in Nat
      BY <2>1 DEF Calls
    <2>3. thread[t].to \in Services /\ <<thread[t].to, thread[t].badge>> \in caps[t]
      BY <1>2 DEF Backed, IInv
    <2>4. Call(t, thread[t].to, thread[t].badge, "DATA", n, "sound", FALSE)
      BY <1>2 DEF SendNext
    <2>5. ~Waits(t)
      BY <1>2 DEF Waits, MoreToCome
    <2> QED
      BY <1>1, <1>2, <2>2, <2>3, <2>4, <2>5 DEF Calling
<1>3. CASE t \in Services /\ Register(t)
  <2>1. /\ svc[t].pc = "register" /\ Call(t, Upstream[t], PLAIN, "DATA", 0, "sound", TRUE)
        /\ UNCHANGED <<caps, hart>>
    BY <1>3 DEF Register, At
  <2>2. ~Waits(t) /\ Upstream[t] # Nobody
    BY <1>3, <2>1 DEF IInv, Control, ControlOf
  <2>3. Upstream[t] \in Services /\ <<Upstream[t], PLAIN>> \in caps[t]
    BY <1>3, <2>2, ServicesAssumption DEF IInv, Backed
  <2>4. PLAIN \in Badges /\ 0 \in Nat /\ TRUE \in BOOLEAN
    BY ServicesAssumption DEF PLAIN, Badges, GRANTER_BADGE
  <2> QED
    BY <1>1, <2>1, <2>2, <2>3, <2>4 DEF Calling
<1>4. CASE t \in Services /\ UpstreamContinues(t)
  BY <1>2, <1>4 DEF UpstreamContinues
<1>5. CASE t \in Services /\ HandleUpstream(t) /\ UpstreamBadges(t) # {}
  <2>1. PICK b \in UpstreamBadges(t), n \in 0..(MaxChunks - 1) :
          Call(t, Upstream[t], b, "DATA", n, "sound", FALSE)
    BY <1>5 DEF HandleUpstream
  <2>2. ~Waits(t) /\ Upstream[t] \in Services /\ UNCHANGED <<caps, hart>>
    BY <1>5, NotWaiting, ServicesAssumption DEF HandleUpstream, At
  <2>3. b \in Badges /\ <<Upstream[t], b>> \in caps[t] /\ n \in Nat
    BY <1>1, <2>1, TypeFacts DEF UpstreamBadges, Minted, Badges, GRANTER_BADGE
  <2> QED
    BY <1>1, <2>1, <2>2, <2>3 DEF Calling
<1>6. CASE t \in Clients /\ ClientCalls(t)
  <2>1. PICK b \in CallBadges(t) :
          Call(t, Op(t).to, b, Op(t).label, Op(t).n, Op(t).object, Op(t).slot)
    BY <1>6 DEF ClientCalls
  <2>2. Op(t) \in Ops
    <3>1. script[t] \in Seq(Ops) /\ script[t] # <<>>
      BY <1>1, <1>6 DEF TypeOK, ClientCalls, Free
    <3> QED
      BY <3>1 DEF Op
  <2>3. <<Op(t).to, b>> \in caps[t] /\ Op(t).label \in Labels
    BY <1>6, <2>1 DEF CallBadges, ClientCalls
  <2>4. Op(t).to \in Services /\ b \in Badges
    BY <1>1, <2>3 DEF TypeOK
  <2>5. Op(t).n \in Nat /\ Op(t).object \in Objects /\ Op(t).slot \in BOOLEAN
    BY <2>2 DEF Ops
  <2>6. ~Waits(t) /\ UNCHANGED <<caps, hart>>
    BY <1>6 DEF ClientCalls, Free
  <2> QED
    BY <2>1, <2>3, <2>4, <2>5, <2>6 DEF Calling
<1>7. CASE t \in Clients /\ ClientContinues(t)
  BY <1>2, <1>7 DEF ClientContinues
<1> QED
  BY <1>3, <1>4, <1>5, <1>6, <1>7 DEF CallStep

(* Only a delivery and a hand-over change who holds what.                  *)
LEMMA CapsStep ==
  ASSUME [Next]_vars
  PROVE  \/ caps' = caps
         \/ \E s \in Services : Deliver(s)
         \/ \E c \in Clients : PassOn(c)
<1>1. ASSUME NEW s \in Services, AnswerStep(s) \/ Recv(s) \/ InnerStep(s), ~Deliver(s)
      PROVE  caps' = caps
  BY <1>1
  DEF AnswerStep, InnerStep, ServeGrant, RefuseGrant, ServeRevoke, ServeForged, ServeBusy,
      RefuseChunk, TakeChunk, GiveChunk, Handle, HandleUpstream, UpstreamAnswered, Recv,
      Registered, Mint, FirstGrantFails, Delete, TakeLastChunk
<1>2. ASSUME NEW t \in Threads, CallStep(t)
      PROVE  caps' = caps
  BY <1>2 DEF CallStep, Register, UpstreamContinues, HandleUpstream, ClientCalls,
              ClientContinues
<1>3. ASSUME NEW c \in Clients, IdleStep(c), ~PassOn(c)
      PROVE  caps' = caps
  BY <1>3 DEF IdleStep, ClientRefused, ClientStops, SignalAndSpin
<1> QED
  BY <1>1, <1>2, <1>3, StepCases DEF vars

LEMMA CapsType ==
  ASSUME IInv, [Next]_vars
  PROVE  caps' \in [Threads -> SUBSET (Services \X Badges)]
<1>1. caps \in [Threads -> SUBSET (Services \X Badges)] /\ TypeOK
  BY DEF IInv, TypeOK
<1>2. ASSUME NEW s \in Services, Deliver(s)
      PROVE  caps' \in [Threads -> SUBSET (Services \X Badges)]
  <2>1. svc[s].scratch \in Badges /\ Msg(s).from \in Threads
    <3>1. svc[s] \in States /\ svc[s].pc \in Owing
      BY <1>1, <1>2, TypeFacts DEF Deliver, At, Owing
    <3>2. svc[s].scratch \in Badges
      BY <1>1, <3>1, TypeFacts DEF States, Badges, GRANTER_BADGE
    <3> QED
      BY <1>1, <3>1, <3>2, MsgFacts, TypeFacts DEF IInv
  <2>2. caps' = [caps EXCEPT ![Msg(s).from] = @ \cup {<<s, svc[s].scratch>>}]
    BY <1>2 DEF Deliver
  <2> QED
    BY <1>1, <2>1, <2>2
<1>3. ASSUME NEW c \in Clients, PassOn(c)
      PROVE  caps' \in [Threads -> SUBSET (Services \X Badges)]
  <2>1. /\ script[c] \in Seq(Ops) /\ script[c] # <<>>
        /\ caps' = [caps EXCEPT ![Op(c).to] = @ \cup (caps[c] \cap (Services \X Minted))]
    BY <1>1, <1>3 DEF TypeOK, PassOn, Free
  <2>2. Op(c) \in Ops
    BY <2>1 DEF Op
  <2>3. Op(c).to \in Threads /\ caps[c] \in SUBSET (Services \X Badges)
    BY <1>1, <2>2, TypeFacts DEF Ops
  <2> QED
    BY <1>1, <2>1, <2>3
<1> QED
  BY <1>1, <1>2, <1>3, CapsStep

(* What is left of the scripts, and who has the hart.                      *)
LEMMA ScriptType ==
  ASSUME IInv, [Next]_vars
  PROVE  script' \in [Clients -> Seq(Ops)] /\ hart' \in Threads \cup {Nobody}
<1>1. script \in [Clients -> Seq(Ops)] /\ hart \in Threads \cup {Nobody}
      /\ Services \subseteq Threads /\ Clients \subseteq Threads
  BY TypeFacts DEF IInv, TypeOK
<1>2. ASSUME NEW s \in Services, AnswerStep(s) \/ Recv(s) \/ InnerStep(s)
      PROVE  script' = script /\ hart' \in {hart, s}
  <2>1. CASE AnswerStep(s)
    BY <2>1, AnswerShape DEF Answers, AnswersWith
  <2>2. CASE Recv(s) \/ InnerStep(s)
    BY <2>2
    DEF InnerStep, ServeGrant, Recv, Registered, Mint, FirstGrantFails, GiveUp, Delete,
        TakeLastChunk
  <2> QED
    BY <1>2, <2>1, <2>2
<1>3. ASSUME NEW c \in Clients, NextOp(c), script[c] # <<>>
      PROVE  script' \in [Clients -> Seq(Ops)]
  <2>1. script' = [script EXCEPT ![c] = Tail(script[c])] /\ script[c] \in Seq(Ops)
    BY <1>1, <1>3 DEF NextOp
  <2>2. Tail(script[c]) \in Seq(Ops)
    BY <1>3, <2>1
  <2> QED
    BY <1>1, <2>1, <2>2
<1>4. ASSUME NEW t \in Threads, CallStep(t)
      PROVE  script' \in [Clients -> Seq(Ops)] /\ hart' = hart
  <2>1. CASE t \in Clients /\ ClientCalls(t)
    BY <1>3, <2>1 DEF ClientCalls, Free
  <2>2. CASE ~(t \in Clients /\ ClientCalls(t))
    BY <1>1, <1>4, <2>2
    DEF CallStep, Register, UpstreamContinues, HandleUpstream, ClientContinues
  <2> QED
    BY <2>1, <2>2
<1>5. ASSUME NEW c \in Clients, IdleStep(c)
      PROVE  script' \in [Clients -> Seq(Ops)] /\ hart' \in {hart, c}
  <2>1. CASE ClientStops(c)
    <3>1. script' = [script EXCEPT ![c] = <<>>] /\ hart' = hart
      BY <2>1 DEF ClientStops
    <3> QED
      BY <1>1, <3>1
  <2>2. CASE ClientRefused(c) \/ PassOn(c) \/ SignalAndSpin(c)
    <3>1. NextOp(c) /\ script[c] # <<>> /\ hart' \in {hart, c}
      BY <2>2 DEF ClientRefused, PassOn, SignalAndSpin, Free
    <3> QED
      BY <1>3, <3>1
  <2> QED
    BY <1>5, <2>1, <2>2 DEF IdleStep
<1>6. CASE UNCHANGED vars
  BY <1>1, <1>6 DEF vars
<1> QED
  BY <1>1, <1>2, <1>4, <1>5, <1>6, StepCases

(* The services' own state.                                                *)
LEMMA SvcType ==
  ASSUME IInv, [Next]_vars
  PROVE  /\ svc' \in [Services -> States]
         /\ \A s \in Services : Len(svc'[s].ledger) <= MaxBadges
<1>1. TypeOK /\ svc \in [Services -> States]
      /\ \A s \in Services : Len(svc[s].ledger) \in 0..MaxBadges
  BY TypeFacts DEF IInv
<1>2. ASSUME NEW s \in Services, NEW r \in States, svc' = [svc EXCEPT ![s] = r],
             Len(r.ledger) <= MaxBadges
      PROVE  /\ svc' \in [Services -> States]
             /\ \A u \in Services : Len(svc'[u].ledger) <= MaxBadges
  BY <1>1, <1>2, TypeFacts
<1>3. ASSUME NEW s \in Services, NEW p \in PCs, Going(s, p)
      PROVE  /\ svc' \in [Services -> States]
             /\ \A u \in Services : Len(svc'[u].ledger) <= MaxBadges
  <2>1. svc' = [svc EXCEPT ![s] = [svc[s] EXCEPT !.pc = p]]
    BY <1>3 DEF Going
  <2>2. [svc[s] EXCEPT !.pc = p] \in States /\ [svc[s] EXCEPT !.pc = p].ledger = svc[s].ledger
    BY <1>1 DEF States
  <2> QED
    BY <1>1, <1>2, <2>1, <2>2
<1>4. ASSUME NEW s \in Services, AnswerStep(s)
      PROVE  /\ svc' \in [Services -> States]
             /\ \A u \in Services : Len(svc'[u].ledger) <= MaxBadges
  <2>1. PICK status, next : AnswersWith(s, status, next)
    BY <1>4, AnswerShape DEF Answers
  <2>2. svc' = [svc EXCEPT ![s] = [next EXCEPT !.received = NoMessage]] /\ next \in States
        /\ Len(next.ledger) = Len(svc[s].ledger)
    BY <2>1 DEF AnswersWith, Answer
  <2>3. [next EXCEPT !.received = NoMessage] \in States
        /\ [next EXCEPT !.received = NoMessage].ledger = next.ledger
    BY <2>2 DEF States
  <2> QED
    BY <1>1, <1>2, <2>2, <2>3
<1>5. ASSUME NEW s \in Services, Recv(s)
      PROVE  /\ svc' \in [Services -> States]
             /\ \A u \in Services : Len(svc'[u].ledger) <= MaxBadges
  <2> DEFINE p == IF svc[s].phase = 1 THEN "mint" ELSE "serve"
             m == Head(queue[s])
             r == [svc[s] EXCEPT !.pc = p, !.received = m]
  <2>1. svc' = [svc EXCEPT ![s] = r]
    BY <1>1, <1>5 DEF Recv
  <2>2. queue[s] \in Seq(Messages) /\ queue[s] # <<>>
    BY <1>1, <1>5, TypeFacts DEF Recv
  <2>3. m \in Messages /\ p \in PCs
    BY <2>2 DEF PCs
  <2> HIDE DEF m, p
  <2>4. r \in States /\ r.ledger = svc[s].ledger
    BY <1>1, <2>3 DEF States
  <2> HIDE DEF r
  <2> QED
    BY <1>1, <1>2, <2>1, <2>4
<1>6. ASSUME NEW s \in Services, InnerStep(s)
      PROVE  /\ svc' \in [Services -> States]
             /\ \A u \in Services : Len(svc'[u].ledger) <= MaxBadges
  <2>1. CASE Registered(s) \/ TakeLastChunk(s) \/ (ServeGrant(s) /\ Msg(s).object # "malformed")
    <3>1. \E p \in {"recv", "handle", "mint"} : Going(s, p)
      BY <2>1 DEF Registered, TakeLastChunk, ServeGrant
    <3> QED
      BY <1>3, <3>1 DEF PCs
  <2>2. CASE Mint(s)
    <3> DEFINE n == Len(svc[s].ledger)
               r == [svc[s] EXCEPT !.pc = "deliver", !.ledger = Append(@, "live"),
                                   !.scratch = n + 1]
    <3>1. svc' = [svc EXCEPT ![s] = r] /\ n < MaxBadges
      BY <1>1, <2>2 DEF Mint, CanMint
    <3>2. svc[s] \in States /\ svc[s].ledger \in Seq({"live", "revoked"})
      BY <1>1 DEF States
    <3>3. Append(svc[s].ledger, "live") \in Seq({"live", "revoked"})
          /\ Len(Append(svc[s].ledger, "live")) = n + 1
      BY <3>2
    <3>4. n + 1 \in 0..MaxBadges
      BY <1>1, <3>1, TypeFacts
    <3> HIDE DEF n
    <3>5. r \in States /\ r.ledger = Append(svc[s].ledger, "live")
      BY <3>2, <3>3, <3>4 DEF States, PCs
    <3>6. Len(r.ledger) <= MaxBadges
      BY <1>1, <3>3, <3>4, <3>5, TypeFacts
    <3> HIDE DEF r
    <3> QED
      BY <1>2, <3>1, <3>5, <3>6
  <2>3. CASE Delete(s)
    <3> DEFINE r == [svc[s] EXCEPT !.pc = "recv", !.phase = 2, !.scratch = PLAIN]
    <3>1. svc' = [svc EXCEPT ![s] = r]
      BY <1>1, <2>3 DEF Delete
    <3>2. svc[s] \in States /\ 0 \in 0..MaxBadges
      BY <1>1, TypeFacts
    <3>3. r \in States /\ r.ledger = svc[s].ledger
      BY <3>2 DEF States, PCs, PLAIN
    <3> HIDE DEF r
    <3> QED
      BY <1>1, <1>2, <3>1, <3>3
  <2>4. CASE FirstGrantFails(s)
    BY <1>1, <2>4, TypeFacts DEF FirstGrantFails, GiveUp
  <2> QED
    BY <1>6, <2>1, <2>2, <2>3, <2>4 DEF InnerStep
<1>7. ASSUME NEW t \in Threads, CallStep(t)
      PROVE  /\ svc' \in [Services -> States]
             /\ \A u \in Services : Len(svc'[u].ledger) <= MaxBadges
  <2>1. svc' = svc \/ (t \in Services /\ \E p \in {"registering", "upstream"} : Going(t, p))
    BY <1>7 DEF CallStep, Register, UpstreamContinues, HandleUpstream, ClientCalls,
                ClientContinues
  <2> QED
    BY <1>1, <1>3, <2>1, TypeFacts DEF PCs
<1>8. CASE svc' = svc
  BY <1>1, <1>8, TypeFacts
<1>9. ASSUME NEW c \in Clients, IdleStep(c)
      PROVE  svc' = svc
  BY <1>9 DEF IdleStep, ClientRefused, ClientStops, PassOn, SignalAndSpin
<1> QED
  BY <1>4, <1>5, <1>6, <1>7, <1>8, <1>9, StepCases DEF vars

(* The kernel's queues and the threads' calls.                             *)
LEMMA KernelType ==
  ASSUME IInv, [Next]_vars
  PROVE  queue' \in [Services -> Seq(Messages)] /\ thread' \in [Threads -> Calls]
<1>1. TypeOK /\ Control /\ queue \in [Services -> Seq(Messages)]
      /\ thread \in [Threads -> Calls]
  BY TypeFacts DEF IInv
<1>2. ASSUME NEW s \in Services, AnswerStep(s)
      PROVE  queue' = queue /\ thread' \in [Threads -> Calls]
  <2>1. PICK status, next : AnswersWith(s, status, next)
    BY <1>2, AnswerShape DEF Answers
  <2> QED
    BY <1>1, <2>1, AnswerType DEF AnswersWith
<1>3. ASSUME NEW s \in Services, Recv(s)
      PROVE  queue' \in [Services -> Seq(Messages)] /\ thread' = thread
  <2>1. /\ queue' = [queue EXCEPT ![s] = Tail(queue[s])] /\ queue[s] \in Seq(Messages)
        /\ queue[s] # <<>> /\ thread' = thread
    BY <1>1, <1>3 DEF Recv
  <2>2. Tail(queue[s]) \in Seq(Messages)
    BY <2>1
  <2> QED
    BY <1>1, <2>1, <2>2
<1>4. ASSUME NEW s \in Services, InnerStep(s)
      PROVE  queue' = queue /\ thread' = thread
  BY <1>4 DEF InnerStep, ServeGrant, Registered, Mint, FirstGrantFails, Delete, TakeLastChunk
<1>5. ASSUME NEW t \in Threads, CallStep(t)
      PROVE  queue' \in [Services -> Seq(Messages)] /\ thread' \in [Threads -> Calls]
  <2>1. Calling(t)
    BY <1>5, CallShape
  <2>2. PICK s \in Services, b \in Badges, label \in Labels, n \in Nat, object \in Objects,
           slot \in BOOLEAN : Call(t, s, b, label, n, object, slot)
    BY <2>1 DEF Calling
  <2> QED
    BY <1>1, <2>2, CallType
<1>6. ASSUME NEW c \in Clients, IdleStep(c)
      PROVE  queue' = queue /\ thread' \in [Threads -> Calls]
  <2>1. StillMatches(c) \in BOOLEAN /\ FALSE \in BOOLEAN
    BY DEF StillMatches
  <2>2. c \in Threads /\ thread[c] \in Calls
    BY <1>1, TypeFacts
  <2>3. ASSUME NEW reply \in Replies, NEW matched \in BOOLEAN,
               thread' = [thread EXCEPT ![c].reply = reply, ![c].matched = matched]
        PROVE  thread' \in [Threads -> Calls]
    BY <1>1, <2>2, <2>3 DEF Calls
  <2>4. CASE ClientRefused(c)
    BY <2>1, <2>3, <2>4 DEF ClientRefused, Replies
  <2>5. CASE ClientStops(c)
    BY <2>1, <2>3, <2>5 DEF ClientStops, Replies
  <2>6. CASE SignalAndSpin(c)
    BY <1>1, <2>1, <2>2, <2>6 DEF SignalAndSpin, Calls
  <2>7. CASE PassOn(c)
    BY <1>1, <2>7 DEF PassOn
  <2>8. queue' = queue
    BY <1>6 DEF IdleStep, ClientRefused, ClientStops, PassOn, SignalAndSpin
  <2> QED
    BY <1>6, <2>4, <2>5, <2>6, <2>7, <2>8 DEF IdleStep
<1>7. CASE UNCHANGED vars
  BY <1>1, <1>7 DEF vars
<1> QED
  BY <1>1, <1>2, <1>3, <1>4, <1>5, <1>6, <1>7, StepCases

LEMMA TypeStep ==
  ASSUME IInv, [Next]_vars
  PROVE  TypeOK'
  BY SvcType, KernelType, CapsType, ScriptType DEF TypeOK, States, Calls

-----------------------------------------------------------------------------
(* What the four shapes do to the messages under way.                      *)

LEMMA AnswerEffect ==
  ASSUME IInv, NEW s \in Services, NEW status, NEW next, AnswersWith(s, status, next)
  PROVE  /\ Msg(s) \in Messages /\ Msg(s).from \in Threads /\ Waits(Msg(s).from)
         /\ thread[Msg(s).from].to = s /\ thread[Msg(s).from].badge = Msg(s).badge
         /\ \A t \in Threads :
              /\ thread'[t].to = thread[t].to /\ thread'[t].badge = thread[t].badge
              /\ t # Msg(s).from => thread'[t] = thread[t]
         /\ thread'[Msg(s).from].reply = status
         /\ svc'[s].received = NoMessage
         /\ svc'[s].pc = next.pc /\ svc'[s].phase = next.phase
         /\ svc'[s].scratch = next.scratch /\ svc'[s].ledger = next.ledger
         /\ svc'[s].exchange = next.exchange
         /\ \A u \in Services \ {s} : svc'[u] = svc[u]
         /\ queue' = queue
<1>1. TypeOK /\ Control /\ svc \in [Services -> States] /\ thread \in [Threads -> Calls]
  BY TypeFacts DEF IInv
<1>2. /\ status \in Replies \ {"waiting"} /\ next \in States /\ svc[s].pc \in Owing
      /\ thread' = [thread EXCEPT ![Msg(s).from].reply = status]
      /\ svc' = [svc EXCEPT ![s] = [next EXCEPT !.received = NoMessage]]
      /\ queue' = queue
  BY DEF AnswersWith, Answer, Msg
<1>3. Msg(s) \in Messages /\ Msg(s).from \in Threads /\ Msg(s) # NoMessage
  BY <1>1, <1>2, MsgFacts, TypeFacts
<1>4. Waits(Msg(s).from) /\ thread[Msg(s).from].to = s /\ thread[Msg(s).from].badge = Msg(s).badge
  BY <1>3 DEF IInv, Owed, OwedBy, IsCallOf
<1>5. /\ svc'[s] = [next EXCEPT !.received = NoMessage]
      /\ \A u \in Services \ {s} : svc'[u] = svc[u]
  BY <1>1, <1>2
<1>6. /\ svc'[s].received = NoMessage
      /\ svc'[s].pc = next.pc /\ svc'[s].phase = next.phase
      /\ svc'[s].scratch = next.scratch /\ svc'[s].ledger = next.ledger
      /\ svc'[s].exchange = next.exchange
  BY <1>2, <1>5 DEF States
<1>7. /\ \A t \in Threads :
           /\ thread'[t].to = thread[t].to /\ thread'[t].badge = thread[t].badge
           /\ t # Msg(s).from => thread'[t] = thread[t]
      /\ thread'[Msg(s).from].reply = status
  BY <1>1, <1>2, <1>3 DEF Calls
<1> QED
  BY <1>2, <1>3, <1>4, <1>5, <1>6, <1>7

SameBut(r, q) ==   \* the states r and q of a service, apart from pc
  /\ r.received = q.received /\ r.phase = q.phase /\ r.exchange = q.exchange
  /\ r.scratch = q.scratch /\ r.ledger = q.ledger

LEMMA GoingEffect ==
  ASSUME TypeOK, NEW s \in Services, NEW p, Going(s, p)
  PROVE  /\ svc'[s].pc = p /\ SameBut(svc'[s], svc[s])
         /\ \A u \in Services \ {s} : svc'[u] = svc[u]
         /\ \A u \in Services : svc'[u].received = svc[u].received
<1>1. svc \in [Services -> States] /\ svc[s] \in States
  BY TypeFacts
<1>2. svc' = [svc EXCEPT ![s] = [svc[s] EXCEPT !.pc = p]]
  BY DEF Going
<1>3. svc'[s] = [svc[s] EXCEPT !.pc = p] /\ \A u \in Services \ {s} : svc'[u] = svc[u]
  BY <1>1, <1>2
<1>4. svc'[s].pc = p /\ SameBut(svc'[s], svc[s])
  BY <1>1, <1>3 DEF States, SameBut
<1> QED
  BY <1>3, <1>4 DEF SameBut

LEMMA MintEffect ==
  ASSUME TypeOK, NEW s \in Services, Mint(s)
  PROVE  /\ svc[s].pc = "mint" /\ svc'[s].pc = "deliver"
         /\ svc'[s].ledger = Append(svc[s].ledger, "live")
         /\ svc'[s].scratch = Len(svc[s].ledger) + 1
         /\ Len(svc'[s].ledger) = Len(svc[s].ledger) + 1
         /\ svc'[s].ledger[Len(svc[s].ledger) + 1] = "live"
         /\ \A k \in 1..Len(svc[s].ledger) : svc'[s].ledger[k] = svc[s].ledger[k]
         /\ svc'[s].received = svc[s].received /\ svc'[s].phase = svc[s].phase
         /\ svc'[s].exchange = svc[s].exchange
         /\ \A u \in Services \ {s} : svc'[u] = svc[u]
<1>1. svc \in [Services -> States] /\ svc[s] \in States
      /\ svc[s].ledger \in Seq({"live", "revoked"})
  BY TypeFacts DEF States
<1> DEFINE r == [svc[s] EXCEPT !.pc = "deliver", !.ledger = Append(@, "live"),
                               !.scratch = Len(svc[s].ledger) + 1]
<1>2. svc' = [svc EXCEPT ![s] = r] /\ svc[s].pc = "mint"
  BY <1>1 DEF Mint, At
<1>3. /\ r.pc = "deliver" /\ r.ledger = Append(svc[s].ledger, "live")
      /\ r.scratch = Len(svc[s].ledger) + 1 /\ r.received = svc[s].received
      /\ r.phase = svc[s].phase /\ r.exchange = svc[s].exchange
  BY <1>1 DEF States
<1> HIDE DEF r
<1>4. svc'[s] = r /\ \A u \in Services \ {s} : svc'[u] = svc[u]
  BY <1>1, <1>2
<1>5. /\ Len(r.ledger) = Len(svc[s].ledger) + 1
      /\ r.ledger[Len(svc[s].ledger) + 1] = "live"
      /\ \A k \in 1..Len(svc[s].ledger) : r.ledger[k] = svc[s].ledger[k]
  BY <1>1, <1>3
<1> QED
  BY <1>2, <1>3, <1>4, <1>5

LEMMA DeleteEffect ==
  ASSUME TypeOK, NEW s \in Services, Delete(s)
  PROVE  /\ svc[s].pc = "delete" /\ svc'[s].pc = "recv"
         /\ svc'[s].phase = 2 /\ svc'[s].scratch = PLAIN
         /\ svc'[s].ledger = svc[s].ledger /\ svc'[s].received = svc[s].received
         /\ svc'[s].exchange = svc[s].exchange
         /\ \A u \in Services \ {s} : svc'[u] = svc[u]
<1>1. svc \in [Services -> States] /\ svc[s] \in States
  BY TypeFacts
<1> DEFINE r == [svc[s] EXCEPT !.pc = "recv", !.phase = 2, !.scratch = PLAIN]
<1>2. svc' = [svc EXCEPT ![s] = r] /\ svc[s].pc = "delete"
  BY <1>1 DEF Delete, At
<1>3. /\ r.pc = "recv" /\ r.phase = 2 /\ r.scratch = PLAIN
      /\ r.ledger = svc[s].ledger /\ r.received = svc[s].received
      /\ r.exchange = svc[s].exchange
  BY <1>1 DEF States
<1> HIDE DEF r
<1> QED
  BY <1>1, <1>2, <1>3

IsNewCall(t, s, m) ==
  /\ m.from = t /\ ~Waits(t) /\ <<s, m.badge>> \in caps[t]
  /\ queue' = [queue EXCEPT ![s] = Append(queue[s], m)]
  /\ thread'[t].reply = "waiting" /\ thread'[t].to = s /\ thread'[t].badge = m.badge
  /\ \A u \in Threads \ {t} : thread'[u] = thread[u]

LEMMA CallEffect ==
  ASSUME IInv, NEW t \in Threads, CallStep(t)
  PROVE  /\ \E s \in Services, m \in Messages : IsNewCall(t, s, m)
         /\ \A u \in Services : svc'[u].received = svc[u].received
         /\ \/ svc' = svc
            \/ t \in Services /\ svc[t].pc = "register" /\ Going(t, "registering")
            \/ /\ t \in Services /\ svc[t].pc = "handle" /\ Going(t, "upstream")
               /\ Live(t, Msg(t).badge)
         /\ caps' = caps
<1>1. /\ svc \in [Services -> States] /\ thread \in [Threads -> Calls]
      /\ queue \in [Services -> Seq(Messages)]
  BY TypeFacts DEF IInv
<1>2. Calling(t)
  BY CallShape
<1>3. PICK s \in Services, b \in Badges, label \in Labels, n \in Nat, object \in Objects,
         slot \in BOOLEAN :
           <<s, b>> \in caps[t] /\ Call(t, s, b, label, n, object, slot)
  BY <1>2 DEF Calling
<1> DEFINE m == [from |-> t, badge |-> b, label |-> label, n |-> n, object |-> object,
                 slot |-> slot]
<1>4. m \in Messages /\ m.from = t /\ m.badge = b
  BY DEF Messages
<1>5. queue' = [queue EXCEPT ![s] = Append(queue[s], m)]
  BY <1>1, <1>3 DEF Call
<1>6. /\ thread'[t].reply = "waiting" /\ thread'[t].to = s /\ thread'[t].badge = b
      /\ \A u \in Threads \ {t} : thread'[u] = thread[u]
  BY <1>1, <1>3 DEF Call
<1> HIDE DEF m
<1>7. IsNewCall(t, s, m)
  BY <1>2, <1>3, <1>4, <1>5, <1>6 DEF IsNewCall, Calling
<1>8. \/ svc' = svc
      \/ t \in Services /\ svc[t].pc = "register" /\ Going(t, "registering")
      \/ /\ t \in Services /\ svc[t].pc = "handle" /\ Going(t, "upstream")
         /\ Live(t, Msg(t).badge)
  BY DEF CallStep, Register, UpstreamContinues, HandleUpstream, ClientCalls,
         ClientContinues, At
<1>9. \A u \in Services : svc'[u].received = svc[u].received
  BY <1>8, GoingEffect DEF IInv
<1> QED
  BY <1>2, <1>4, <1>7, <1>8, <1>9 DEF Calling

LEMMA RecvEffect ==
  ASSUME IInv, NEW s \in Services, Recv(s)
  PROVE  /\ svc[s].pc = "recv" /\ Msg(s) = NoMessage /\ queue[s] # <<>>
         /\ svc'[s].received = Head(queue[s]) /\ Head(queue[s]) = queue[s][1]
         /\ Head(queue[s]) \in Messages
         /\ svc'[s].pc = (IF svc[s].phase = 1 THEN "mint" ELSE "serve")
         /\ svc'[s].phase = svc[s].phase /\ svc'[s].scratch = svc[s].scratch
         /\ svc'[s].ledger = svc[s].ledger /\ svc'[s].exchange = svc[s].exchange
         /\ \A u \in Services \ {s} : svc'[u] = svc[u] /\ queue'[u] = queue[u]
         /\ queue'[s] = Tail(queue[s]) /\ thread' = thread /\ caps' = caps
<1>1. /\ svc \in [Services -> States] /\ queue \in [Services -> Seq(Messages)]
      /\ svc[s] \in States
  BY TypeFacts DEF IInv
<1>2. svc[s].pc = "recv" /\ Msg(s) = NoMessage /\ queue[s] # <<>>
  BY DEF Recv, At, IInv, Control, ControlOf, Owing
<1>3. queue[s] \in Seq(Messages) /\ Head(queue[s]) = queue[s][1] /\ Head(queue[s]) \in Messages
  BY <1>1, <1>2
<1> DEFINE p == IF svc[s].phase = 1 THEN "mint" ELSE "serve"
           r == [svc[s] EXCEPT !.pc = p, !.received = Head(queue[s])]
<1>4. svc' = [svc EXCEPT ![s] = r] /\ queue' = [queue EXCEPT ![s] = Tail(queue[s])]
      /\ thread' = thread /\ caps' = caps
  BY <1>1 DEF Recv
<1>5. /\ r.received = Head(queue[s]) /\ r.pc = p
      /\ r.phase = svc[s].phase /\ r.scratch = svc[s].scratch
      /\ r.ledger = svc[s].ledger /\ r.exchange = svc[s].exchange
  BY <1>1 DEF States
<1> HIDE DEF r
<1>6. svc'[s] = r /\ \A u \in Services \ {s} : svc'[u] = svc[u] /\ queue'[u] = queue[u]
  BY <1>1, <1>4
<1> QED
  BY <1>1, <1>2, <1>3, <1>4, <1>5, <1>6

(* The rest touches no message, and nobody who waits.                      *)
LEMMA InnerEffect ==
  ASSUME IInv, NEW s \in Services, InnerStep(s)
  PROVE  /\ \A u \in Services : svc'[u].received = svc[u].received
         /\ \A u \in Services \ {s} : svc'[u] = svc[u]
         /\ UNCHANGED <<queue, thread, caps>>
<1>1. TypeOK
  BY DEF IInv
<1>2. CASE Mint(s)
  BY <1>1, <1>2, MintEffect DEF Mint
<1>3. CASE Delete(s)
  BY <1>1, <1>3, DeleteEffect DEF Delete
<1>4. CASE FirstGrantFails(s)
  BY <1>4 DEF FirstGrantFails, GiveUp
<1>5. CASE Registered(s) \/ TakeLastChunk(s) \/ (ServeGrant(s) /\ Msg(s).object # "malformed")
  <2>1. /\ \E p \in {"recv", "handle", "mint"} : Going(s, p)
        /\ UNCHANGED <<queue, thread, caps>>
    BY <1>5 DEF Registered, TakeLastChunk, ServeGrant
  <2> QED
    BY <1>1, <2>1, GoingEffect
<1> QED
  BY <1>2, <1>3, <1>4, <1>5 DEF InnerStep

LEMMA IdleEffect ==
  ASSUME IInv, NEW c \in Clients, IdleStep(c)
  PROVE  /\ UNCHANGED <<svc, queue>>
         /\ \A t \in Threads : thread'[t] = thread[t] \/ t = c
         /\ thread'[c].to = thread[c].to /\ thread'[c].badge = thread[c].badge
         /\ ~Waits(c) /\ thread'[c].reply # "waiting"
         /\ thread'[c].reply \in {"none", "ERROR", thread[c].reply}
<1>1. thread \in [Threads -> Calls] /\ c \in Threads
  BY TypeFacts DEF IInv
<1>2. UNCHANGED <<svc, queue>> /\ ~Waits(c)
  BY DEF IdleStep, ClientRefused, ClientStops, PassOn, SignalAndSpin, Free, MoreToCome, Waits
<1>3. \/ thread' = thread
      \/ thread' = [thread EXCEPT ![c].matched = StillMatches(c)]
      \/ \E reply \in {"none", "ERROR"} : \E x :
           thread' = [thread EXCEPT ![c].reply = reply, ![c].matched = x]
  BY DEF IdleStep, ClientRefused, ClientStops, PassOn, SignalAndSpin
<1> QED
  BY <1>1, <1>2, <1>3 DEF Calls, Waits

-----------------------------------------------------------------------------
(* No call is lost, and none is answered twice.                            *)

(* Who is queued or received somewhere waits, and for that service.        *)
LEMMA PendingWaits ==
  ASSUME IInv, NEW s \in Services
  PROVE  /\ \A k \in DOMAIN queue[s] :
              /\ queue[s][k] \in Messages /\ queue[s][k].from \in Threads
              /\ Waits(queue[s][k].from) /\ thread[queue[s][k].from].to = s
         /\ Msg(s) = NoMessage => Msg(s).from = Nobody
         /\ Msg(s) # NoMessage =>
              /\ Msg(s) \in Messages /\ Msg(s).from \in Threads
              /\ Waits(Msg(s).from) /\ thread[Msg(s).from].to = s
<1>1. /\ queue[s] \in Seq(Messages) /\ Msg(s) \in Messages \cup {NoMessage}
      /\ \A m \in Messages : m.from \in Threads
  BY TypeFacts DEF IInv, States, Msg
<1>2. \A k \in DOMAIN queue[s] : queue[s][k] \in Messages
  BY <1>1
<1> QED
  BY <1>1, <1>2 DEF IInv, Owed, OwedBy, IsCallOf, NoMessage

LEMMA OwedStep ==
  ASSUME IInv, [Next]_vars
  PROVE  Owed'
<1>1. Nobody \notin Threads /\ Services \subseteq Threads /\ Clients \subseteq Threads
      /\ queue \in [Services -> Seq(Messages)]
  BY TypeFacts DEF IInv
<1>2. SUFFICES ASSUME NEW u \in Services
      PROVE  OwedBy(u)'
  BY DEF Owed
<1>3. OwedBy(u)
  BY DEF IInv, Owed
<1>4. ASSUME NEW s \in Services, AnswerStep(s)
      PROVE  OwedBy(u)'
  <2>1. PICK status, next : AnswersWith(s, status, next)
    BY <1>4, AnswerShape DEF Answers
  <2>2. /\ thread[Msg(s).from].to = s /\ queue' = queue
        /\ \A t \in Threads : t # Msg(s).from => thread'[t] = thread[t]
        /\ svc'[s].received = NoMessage /\ \A w \in Services \ {s} : svc'[w] = svc[w]
    BY <2>1, AnswerEffect
  <2>3. \A k \in DOMAIN queue[u] : thread'[queue[u][k].from] = thread[queue[u][k].from]
    BY <1>3, <2>2, PendingWaits DEF OwedBy
  <2>4. CASE u = s
    BY <1>1, <1>3, <2>2, <2>3, <2>4, PendingWaits DEF OwedBy, IsCallOf, Waits, Msg, NoMessage
  <2>5. CASE u # s
    <3>1. svc'[u] = svc[u] /\ (Msg(u) # NoMessage => thread'[Msg(u).from] = thread[Msg(u).from])
      BY <2>2, <2>5, PendingWaits
    <3> QED
      BY <1>3, <2>2, <2>3, <3>1 DEF OwedBy, IsCallOf, Waits, Msg
  <2> QED
    BY <2>4, <2>5
<1>5. ASSUME NEW s \in Services, Recv(s)
      PROVE  OwedBy(u)'
  <2>1. /\ queue[s] # <<>> /\ svc'[s].received = queue[s][1] /\ queue'[s] = Tail(queue[s])
        /\ thread' = thread
        /\ \A w \in Services \ {s} : svc'[w] = svc[w] /\ queue'[w] = queue[w]
    BY <1>5, RecvEffect
  <2>2. CASE u = s
    <3>1. /\ 1 \in DOMAIN queue[s]
          /\ \A k \in DOMAIN queue'[s] :
               k \in Nat /\ k + 1 \in DOMAIN queue[s] /\ queue'[s][k] = queue[s][k + 1]
               /\ k + 1 # 1
      BY <1>1, <2>1
    <3>2. Msg(s)' = queue[s][1] /\ thread' = thread
      BY <2>1 DEF Msg
    <3>3. IsCallOf(Msg(s), Msg(s).from, s)'
      BY <1>3, <2>2, <3>1, <3>2 DEF OwedBy, IsCallOf, Waits
    <3>4. ASSUME NEW k \in DOMAIN queue'[s]
          PROVE  /\ IsCallOf(queue[s][k], queue[s][k].from, s)'
                 /\ queue'[s][k].from # Msg(s)'.from
      BY <1>3, <2>2, <3>1, <3>2 DEF OwedBy, IsCallOf, Waits
    <3>5. ASSUME NEW k \in DOMAIN queue'[s], NEW j \in DOMAIN queue'[s],
                 queue'[s][j].from = queue'[s][k].from
          PROVE  j = k
      <4>1. j + 1 = k + 1
        BY <1>3, <2>2, <3>1, <3>5 DEF OwedBy
      <4> QED
        BY <3>1, <4>1
    <3> QED
      BY <2>2, <3>3, <3>4, <3>5 DEF OwedBy
  <2>3. CASE u # s
    BY <1>3, <2>1, <2>3 DEF OwedBy, IsCallOf, Waits, Msg
  <2> QED
    BY <2>2, <2>3
<1>6. ASSUME NEW t \in Threads, CallStep(t)
      PROVE  OwedBy(u)'
  <2>1. PICK s \in Services, m \in Messages : IsNewCall(t, s, m)
    BY <1>6, CallEffect
  <2>2. Msg(u)' = Msg(u)
    BY <1>6, CallEffect DEF Msg
  <2>3. \A w \in Services :
          (\A k \in DOMAIN queue[w] : queue[w][k].from # t) /\ Msg(w).from # t
    BY <1>1, <2>1, PendingWaits DEF IsNewCall
  <2>4. /\ \A k \in DOMAIN queue[u] : thread'[queue[u][k].from] = thread[queue[u][k].from]
        /\ Msg(u) # NoMessage => thread'[Msg(u).from] = thread[Msg(u).from]
    BY <2>1, <2>3, PendingWaits DEF IsNewCall
  <2>5. CASE u # s
    <3>1. queue'[u] = queue[u]
      BY <1>1, <2>1, <2>5 DEF IsNewCall
    <3> QED
      BY <1>3, <2>2, <2>4, <3>1 DEF OwedBy, IsCallOf, Waits
  <2>6. CASE u = s
    <3> DEFINE n == Len(queue[u])
    <3>1. /\ DOMAIN queue'[u] = DOMAIN queue[u] \cup {n + 1} /\ n + 1 \notin DOMAIN queue[u]
          /\ queue'[u][n + 1] = m
          /\ \A k \in DOMAIN queue[u] : queue'[u][k] = queue[u][k]
      <4>1. queue'[u] = Append(queue[u], m) /\ queue[u] \in Seq(Messages)
        BY <1>1, <2>1, <2>6 DEF IsNewCall
      <4> QED
        BY <4>1
    <3>2. IsCallOf(m, m.from, u)' /\ m.from = t
      BY <2>1, <2>6 DEF IsNewCall, IsCallOf, Waits
    <3> HIDE DEF n
    <3> QED
      BY <1>3, <2>2, <2>3, <2>4, <3>1, <3>2 DEF OwedBy, IsCallOf, Waits
  <2> QED
    BY <2>5, <2>6
<1>7. ASSUME NEW s \in Services, InnerStep(s)
      PROVE  /\ \A w \in Services : Msg(w)' = Msg(w)
             /\ queue' = queue /\ thread' = thread
  BY <1>7, InnerEffect DEF Msg
<1>8. ASSUME NEW c \in Clients, IdleStep(c)
      PROVE  /\ \A w \in Services : Msg(w)' = Msg(w)
             /\ queue' = queue /\ \A t \in Threads : Waits(t) => thread'[t] = thread[t]
  BY <1>8, IdleEffect DEF Msg
<1>9. ASSUME Msg(u)' = Msg(u), queue' = queue,
             \A t \in Threads : Waits(t) => thread'[t] = thread[t]
      PROVE  OwedBy(u)'
  BY <1>3, <1>9, PendingWaits DEF OwedBy, IsCallOf, Waits
<1>10. CASE UNCHANGED vars
  BY <1>9, <1>10 DEF vars, Msg
<1> QED
  BY <1>4, <1>5, <1>6, <1>7, <1>8, <1>9, <1>10, StepCases

LEMMA HeardStep ==
  ASSUME IInv, [Next]_vars
  PROVE  Heard'
<1>1. Nobody \notin Threads /\ queue \in [Services -> Seq(Messages)] /\ Heard
  BY TypeFacts DEF IInv
<1>2. SUFFICES ASSUME NEW t \in Threads, NEW u \in Services,
                      Waits(t)', thread'[t].to = u
      PROVE  Msg(u)'.from = t \/ \E k \in DOMAIN queue'[u] : queue'[u][k].from = t
  BY DEF Heard
<1>3. Waits(t) /\ thread[t].to = u =>
        Msg(u).from = t \/ \E k \in DOMAIN queue[u] : queue[u][k].from = t
  BY <1>1 DEF Heard
<1>4. ASSUME NEW s \in Services, AnswerStep(s)
      PROVE  Msg(u)'.from = t \/ \E k \in DOMAIN queue'[u] : queue'[u][k].from = t
  <2>1. PICK status, next : AnswersWith(s, status, next)
    BY <1>4, AnswerShape DEF Answers
  <2>2. /\ Msg(s).from \in Threads /\ thread[Msg(s).from].to = s /\ queue' = queue
        /\ \A f \in Threads : f # Msg(s).from => thread'[f] = thread[f]
        /\ thread'[Msg(s).from].reply = status /\ status # "waiting"
        /\ \A w \in Services \ {s} : svc'[w] = svc[w]
    BY <2>1, AnswerEffect DEF AnswersWith
  <2>3. t # Msg(s).from /\ thread'[t] = thread[t]
    BY <1>2, <2>2 DEF Waits
  <2> QED
    BY <1>2, <1>3, <2>2, <2>3 DEF Waits, Msg
<1>5. ASSUME NEW s \in Services, Recv(s)
      PROVE  Msg(u)'.from = t \/ \E k \in DOMAIN queue'[u] : queue'[u][k].from = t
  <2>1. /\ queue[s] # <<>> /\ svc'[s].received = queue[s][1] /\ queue'[s] = Tail(queue[s])
        /\ Msg(s) = NoMessage /\ thread' = thread
        /\ \A w \in Services \ {s} : svc'[w] = svc[w] /\ queue'[w] = queue[w]
    BY <1>5, RecvEffect
  <2>2. CASE u = s
    <3>1. PICK k \in DOMAIN queue[s] : queue[s][k].from = t
      BY <1>1, <1>2, <1>3, <2>1, <2>2 DEF Waits, NoMessage
    <3>2. k = 1 \/ (k - 1 \in DOMAIN queue'[s] /\ queue'[s][k - 1] = queue[s][k])
      BY <1>1, <2>1
    <3> QED
      BY <2>1, <2>2, <3>1, <3>2 DEF Msg
  <2>3. CASE u # s
    BY <1>2, <1>3, <2>1, <2>3 DEF Waits, Msg
  <2> QED
    BY <2>2, <2>3
<1>6. ASSUME NEW f \in Threads, CallStep(f)
      PROVE  Msg(u)'.from = t \/ \E k \in DOMAIN queue'[u] : queue'[u][k].from = t
  <2>1. PICK s \in Services, m \in Messages : IsNewCall(f, s, m)
    BY <1>6, CallEffect
  <2>2. Msg(u)' = Msg(u)
    BY <1>6, CallEffect DEF Msg
  <2>3. /\ \A k \in DOMAIN queue[u] : k \in DOMAIN queue'[u] /\ queue'[u][k] = queue[u][k]
        /\ u = s => \E k \in DOMAIN queue'[u] : queue'[u][k] = m
    <3>1. queue[u] \in Seq(Messages) /\ queue'[u] \in {queue[u], Append(queue[u], m)}
          /\ (u = s => queue'[u] = Append(queue[u], m))
      BY <1>1, <2>1 DEF IsNewCall
    <3>2. LET q == Append(queue[u], m)
          IN  /\ \A k \in DOMAIN queue[u] : k \in DOMAIN q /\ q[k] = queue[u][k]
              /\ Len(queue[u]) + 1 \in DOMAIN q /\ q[Len(queue[u]) + 1] = m
      BY <3>1
    <3> QED
      BY <3>1, <3>2
  <2>4. CASE t = f
    BY <1>2, <2>1, <2>3, <2>4 DEF IsNewCall
  <2>5. CASE t # f
    BY <1>2, <1>3, <2>1, <2>2, <2>3, <2>5 DEF IsNewCall, Waits
  <2> QED
    BY <2>4, <2>5
<1>7. ASSUME NEW s \in Services, InnerStep(s)
      PROVE  Msg(u)' = Msg(u) /\ queue' = queue /\ thread' = thread
  BY <1>7, InnerEffect DEF Msg
<1>8. ASSUME NEW c \in Clients, IdleStep(c)
      PROVE  Msg(u)' = Msg(u) /\ queue' = queue /\ thread'[t] = thread[t]
  BY <1>2, <1>8, IdleEffect DEF Msg, Waits
<1>9. ASSUME Msg(u)' = Msg(u), queue' = queue, thread'[t] = thread[t]
      PROVE  Msg(u)'.from = t \/ \E k \in DOMAIN queue'[u] : queue'[u][k].from = t
  BY <1>2, <1>3, <1>9 DEF Waits
<1>10. CASE UNCHANGED vars
  BY <1>9, <1>10 DEF vars, Msg
<1> QED
  BY <1>4, <1>5, <1>6, <1>7, <1>8, <1>9, <1>10, StepCases

-----------------------------------------------------------------------------
(* Where the services are, and their tables.                               *)

(* What an answer leaves of a service: back at recv, or on to delete.      *)
LEMMA AnsweredState ==
  ASSUME IInv, NEW s \in Services, NEW status, NEW next, AnswersWith(s, status, next)
  PROVE  /\ svc'[s].pc \in {"recv", "delete"} /\ Msg(s)' = NoMessage /\ ~Waits(s)'
         /\ svc[s].pc = "deliver" \/ svc[s].phase = 1 => svc'[s].pc = "delete"
         /\ svc'[s].phase = svc[s].phase /\ svc'[s].scratch = svc[s].scratch
         /\ Len(svc'[s].ledger) = Len(svc[s].ledger)
         /\ svc'[s].exchange.left > 0 => Known(s, svc'[s].exchange.badge)
<1>1. /\ svc'[s].received = NoMessage /\ svc'[s].pc = next.pc
      /\ svc'[s].phase = next.phase /\ svc'[s].scratch = next.scratch
      /\ svc'[s].ledger = next.ledger /\ svc'[s].exchange = next.exchange
      /\ \A t \in Threads : t # Msg(s).from => thread'[t] = thread[t]
      /\ thread'[Msg(s).from].reply = status
  BY AnswerEffect
<1>2. s \in Threads
  BY TypeFacts DEF IInv
<1>3. ~Waits(s)'
  BY <1>1, <1>2 DEF AnswersWith, Waits
<1> QED
  BY <1>1, <1>3 DEF AnswersWith, Msg, Known

(* The moves from one place to another that are not an answer.             *)
LEMMA InnerMoves ==
  ASSUME IInv, NEW s \in Services, InnerStep(s)
  PROVE  \/ Mint(s) /\ svc[s].scratch = PLAIN
         \/ Delete(s)
         \/ svc' = svc
         \/ svc[s].pc = "registering" /\ ~Waits(s) /\ Going(s, "recv")
         \/ svc[s].pc = "serve" /\ Msg(s).label = "DATA" /\ Going(s, "handle")
         \/ svc[s].pc = "serve" /\ IsGrant(Msg(s)) /\ Going(s, "mint")
<1>1. CASE Mint(s)
  BY <1>1 DEF Mint, CanMint
<1>2. CASE FirstGrantFails(s)
  BY <1>2 DEF FirstGrantFails, GiveUp
<1>3. CASE Registered(s)
  BY <1>3 DEF Registered, At
<1>4. CASE TakeLastChunk(s)
  BY <1>4 DEF TakeLastChunk, Chunk, At
<1>5. CASE ServeGrant(s) /\ Msg(s).object # "malformed"
  BY <1>5 DEF ServeGrant, At
<1> QED
  BY <1>1, <1>2, <1>3, <1>4, <1>5 DEF InnerStep

LEMMA ControlStep ==
  ASSUME IInv, [Next]_vars
  PROVE  Control'
<1>1. TypeOK /\ Services \subseteq Threads /\ Clients \subseteq Threads
      /\ Services \cap Clients = {}
  BY TypeFacts, ServicesAssumption DEF IInv
<1>2. SUFFICES ASSUME NEW u \in Services
      PROVE  ControlOf(u)'
  BY DEF Control
<1>3. ControlOf(u)
  BY DEF IInv, Control
<1>4. ASSUME svc'[u] = svc[u], Waits(u)' => Waits(u)
      PROVE  ControlOf(u)'
  BY <1>3, <1>4 DEF ControlOf, Msg, Live, Known
<1>5. ASSUME NEW s \in Services, AnswerStep(s)
      PROVE  ControlOf(u)'
  <2>1. PICK status, next : AnswersWith(s, status, next)
    BY <1>5, AnswerShape DEF Answers
  <2>2. CASE u = s
    BY <1>1, <1>3, <2>1, <2>2, AnsweredState DEF ControlOf, Owing
  <2>3. CASE u # s
    <3>1. svc'[u] = svc[u] /\ (u # Msg(s).from => thread'[u] = thread[u])
          /\ Waits(Msg(s).from)
      BY <1>1, <2>1, <2>3, AnswerEffect
    <3> QED
      BY <1>4, <3>1 DEF Waits
  <2> QED
    BY <2>2, <2>3
<1>6. ASSUME NEW s \in Services, Recv(s)
      PROVE  ControlOf(u)'
  <2>1. CASE u = s
    <3>1. /\ svc[s].pc = "recv" /\ Msg(s)' \in Messages /\ thread' = thread
          /\ svc'[s].pc = (IF svc[s].phase = 1 THEN "mint" ELSE "serve")
          /\ svc'[s].phase = svc[s].phase
      BY <1>6, RecvEffect DEF Msg
    <3>2. Msg(s)' # NoMessage /\ ~Waits(s) /\ svc[s].phase \in {1, 2}
      BY <1>1, <1>3, <2>1, <3>1, TypeFacts DEF ControlOf, States
    <3> QED
      BY <2>1, <3>1, <3>2 DEF ControlOf, Owing, Waits
  <2>2. CASE u # s
    BY <1>4, <1>6, <2>2, RecvEffect DEF Waits
  <2> QED
    BY <2>1, <2>2
<1>7. ASSUME NEW s \in Services, InnerStep(s)
      PROVE  ControlOf(u)'
  <2>1. thread' = thread /\ (u # s => svc'[u] = svc[u])
    BY <1>7, InnerEffect
  <2>2. CASE u = s /\ Mint(s)
    BY <1>1, <1>3, <2>1, <2>2, MintEffect DEF ControlOf, Owing, Waits, Msg
  <2>3. CASE u = s /\ Delete(s)
    BY <1>1, <1>3, <2>1, <2>3, DeleteEffect DEF ControlOf, Owing, Waits, Msg
  <2>4. CASE u = s /\ svc[s].pc = "registering" /\ ~Waits(s) /\ Going(s, "recv")
    BY <1>1, <1>3, <2>1, <2>4, GoingEffect DEF ControlOf, Owing, Waits, Msg, SameBut
  <2>5. CASE u = s /\ svc[s].pc = "serve" /\ Msg(s).label = "DATA" /\ Going(s, "handle")
    BY <1>1, <1>3, <2>1, <2>5, GoingEffect DEF ControlOf, Owing, Waits, Msg, SameBut
  <2>6. CASE u = s /\ svc[s].pc = "serve" /\ IsGrant(Msg(s)) /\ Going(s, "mint")
    BY <1>1, <1>3, <2>1, <2>6, GoingEffect DEF ControlOf, Owing, Waits, Msg, SameBut
  <2>7. CASE svc'[u] = svc[u]
    BY <1>4, <2>1, <2>7 DEF Waits
  <2> QED
    BY <1>7, <2>1, <2>2, <2>3, <2>4, <2>5, <2>6, <2>7, InnerMoves
<1>8. ASSUME NEW t \in Threads, CallStep(t)
      PROVE  ControlOf(u)'
  <2>1. PICK s \in Services, m \in Messages : IsNewCall(t, s, m)
    BY <1>8, CallEffect
  <2>2. CASE u = t
    <3>1. CASE svc[t].pc = "register" /\ Going(t, "registering")
      BY <1>1, <1>3, <2>2, <3>1, GoingEffect DEF ControlOf, Owing, Msg, SameBut
    <3>2. CASE svc[t].pc = "handle" /\ Going(t, "upstream") /\ Live(t, Msg(t).badge)
      BY <1>1, <1>3, <2>2, <3>2, GoingEffect
      DEF ControlOf, Owing, Msg, SameBut, Live, Known
    <3>3. CASE svc' = svc
      <4>1. svc[t].pc = "upstream"
        <5>1. Register(t) \/ UpstreamContinues(t)
              \/ (HandleUpstream(t) /\ UpstreamBadges(t) # {})
          BY <1>1, <1>8, <2>2 DEF CallStep
        <5>2. Register(t) => svc[t].pc = "register" /\ Going(t, "registering")
          BY DEF Register, At
        <5>3. HandleUpstream(t) /\ UpstreamBadges(t) # {} =>
                svc[t].pc = "handle" /\ Going(t, "upstream")
          BY DEF HandleUpstream, At
        <5>4. UpstreamContinues(t) => svc[t].pc = "upstream"
          BY DEF UpstreamContinues, At
        <5>5. \A p : Going(t, p) => svc'[t].pc = p
          BY <1>1, <2>2, GoingEffect
        <5> QED
          BY <3>3, <5>1, <5>2, <5>3, <5>4, <5>5
      <4> QED
        BY <1>3, <2>2, <3>3, <4>1 DEF ControlOf, Msg, Live, Known
    <3> QED
      BY <1>8, <3>1, <3>2, <3>3, CallEffect
  <2>3. CASE u # t
    <3>1. svc'[u] = svc[u]
      BY <1>1, <1>8, <2>3, CallEffect, GoingEffect
    <3> QED
      BY <1>1, <1>4, <2>1, <2>3, <3>1 DEF IsNewCall, Waits
  <2> QED
    BY <2>2, <2>3
<1>9. ASSUME NEW c \in Clients, IdleStep(c)
      PROVE  ControlOf(u)'
  BY <1>1, <1>4, <1>9, IdleEffect DEF Waits
<1>10. CASE UNCHANGED vars
  BY <1>4, <1>10 DEF vars, Waits
<1> QED
  BY <1>5, <1>6, <1>7, <1>8, <1>9, <1>10, StepCases

LEMMA GrantingStep ==
  ASSUME IInv, [Next]_vars
  PROVE  Granting'
<1>1. TypeOK /\ svc \in [Services -> States]
  BY TypeFacts DEF IInv
<1>2. SUFFICES ASSUME NEW u \in Services
      PROVE  GrantingOf(u)'
  BY DEF Granting
<1>3. GrantingOf(u) /\ ControlOf(u)
  BY DEF IInv, Granting, Control
<1>4. svc[u].ledger \in Seq({"live", "revoked"}) /\ svc'[u].ledger \in Seq({"live", "revoked"})
  BY <1>1, SvcType DEF States
<1>5. ASSUME svc'[u] = svc[u]
      PROVE  GrantingOf(u)'
  BY <1>3, <1>5 DEF GrantingOf, Known
<1>6. ASSUME NEW p, Going(u, p), svc[u].pc \notin {"deliver", "delete"},
             p \notin {"deliver", "delete"}
      PROVE  GrantingOf(u)'
  BY <1>1, <1>3, <1>6, GoingEffect DEF GrantingOf, Known, SameBut
<1>7. ASSUME NEW s \in Services, AnswerStep(s)
      PROVE  GrantingOf(u)'
  <2>1. PICK status, next : AnswersWith(s, status, next)
    BY <1>7, AnswerShape DEF Answers
  <2>2. CASE u = s
    <3>1. svc[s].pc \in Owing /\ svc[s].pc # "delete"
      BY <2>1 DEF AnswersWith, Owing
    <3>2. /\ svc'[s].pc \in {"recv", "delete"} /\ Len(svc'[s].ledger) = Len(svc[s].ledger)
          /\ svc[s].pc = "deliver" \/ svc[s].phase = 1 => svc'[s].pc = "delete"
          /\ svc'[s].phase = svc[s].phase /\ svc'[s].scratch = svc[s].scratch
          /\ svc'[s].exchange.left > 0 => Known(s, svc'[s].exchange.badge)
      BY <2>1, AnsweredState
    <3>3. DOMAIN svc'[s].ledger = DOMAIN svc[s].ledger
      BY <1>4, <2>2, <3>2
    <3> QED
      BY <1>3, <2>2, <3>1, <3>2, <3>3 DEF GrantingOf, Known
  <2>3. CASE u # s
    BY <1>5, <2>1, <2>3, AnswerEffect
  <2> QED
    BY <2>2, <2>3
<1>8. ASSUME NEW s \in Services, Recv(s)
      PROVE  GrantingOf(u)'
  <2>1. CASE u = s
    BY <1>3, <1>8, <2>1, RecvEffect DEF GrantingOf, Known
  <2>2. CASE u # s
    BY <1>5, <1>8, <2>2, RecvEffect
  <2> QED
    BY <2>1, <2>2
<1>9. ASSUME NEW s \in Services, InnerStep(s)
      PROVE  GrantingOf(u)'
  <2>1. CASE u = s /\ Mint(s)
    <3>1. DOMAIN svc[s].ledger \subseteq DOMAIN svc'[s].ledger
      BY <1>1, <1>4, <2>1, MintEffect
    <3>2. Len(svc[s].ledger) \in Nat /\ (svc[s].ledger = <<>> => Len(svc[s].ledger) = 0)
      BY <1>4, <2>1
    <3>3. /\ svc[s].pc = "mint" /\ svc'[s].pc = "deliver"
          /\ svc'[s].scratch = Len(svc[s].ledger) + 1
          /\ Len(svc'[s].ledger) = Len(svc[s].ledger) + 1
          /\ svc'[s].ledger[Len(svc[s].ledger) + 1] = "live"
          /\ svc'[s].phase = svc[s].phase /\ svc'[s].exchange = svc[s].exchange
      BY <1>1, <2>1, MintEffect
    <3>4. svc[s].phase = 1 => Len(svc'[s].ledger) = 1
      BY <1>3, <2>1, <3>2, <3>3 DEF GrantingOf
    <3> QED
      BY <1>3, <2>1, <3>1, <3>2, <3>3, <3>4 DEF GrantingOf, Known
  <2>2. CASE u = s /\ Delete(s)
    BY <1>1, <1>3, <2>2, DeleteEffect DEF GrantingOf, Known
  <2>3. CASE svc'[u] = svc[u]
    BY <1>5, <2>3
  <2> QED
    BY <1>6, <1>9, <2>1, <2>2, <2>3, InnerMoves, InnerEffect
<1>10. ASSUME NEW t \in Threads, CallStep(t)
       PROVE  GrantingOf(u)'
  <2>1. CASE svc'[u] = svc[u]
    BY <1>5, <2>1
  <2>2. CASE svc'[u] # svc[u]
    <3>1. u = t /\ \/ svc[t].pc = "register" /\ Going(t, "registering")
                   \/ svc[t].pc = "handle" /\ Going(t, "upstream")
      BY <1>1, <1>10, <2>2, CallEffect, GoingEffect
    <3> QED
      BY <1>6, <3>1
  <2> QED
    BY <2>1, <2>2
<1>11. ASSUME NEW c \in Clients, IdleStep(c)
       PROVE  GrantingOf(u)'
  BY <1>5, <1>11, IdleEffect
<1>12. CASE UNCHANGED vars
  BY <1>5, <1>12 DEF vars
<1> QED
  BY <1>7, <1>8, <1>9, <1>10, <1>11, <1>12, StepCases

-----------------------------------------------------------------------------
(* Who holds which badges.                                                 *)

(* Nobody loses a capability.                                              *)
LEMMA CapsGrow ==
  ASSUME IInv, [Next]_vars, NEW t \in Threads
  PROVE  caps[t] \subseteq caps'[t]
<1>1. caps \in [Threads -> SUBSET (Services \X Badges)]
  BY DEF IInv, TypeOK
<1>2. ASSUME NEW s \in Services, Deliver(s)
      PROVE  caps[t] \subseteq caps'[t]
  <2>1. caps' = [caps EXCEPT ![Msg(s).from] = @ \cup {<<s, svc[s].scratch>>}]
    BY <1>2 DEF Deliver
  <2> QED
    BY <1>1, <2>1
<1>3. ASSUME NEW c \in Clients, PassOn(c)
      PROVE  caps[t] \subseteq caps'[t]
  <2>1. caps' = [caps EXCEPT ![Op(c).to] = @ \cup (caps[c] \cap (Services \X Minted))]
    BY <1>3 DEF PassOn
  <2> QED
    BY <1>1, <2>1
<1> QED
  BY <1>2, <1>3, CapsStep

(* A badge once issued stays issued.                                       *)
LEMMA IssuedGrows ==
  ASSUME IInv, [Next]_vars, NEW u \in Services
  PROVE  /\ IssuedLen(u) \in Nat /\ IssuedLen(u)' \in Nat
         /\ IssuedLen(u) <= IssuedLen(u)'
<1>1. TypeOK /\ svc \in [Services -> States] /\ GrantingOf(u)
  BY TypeFacts DEF IInv, Granting
<1>2. svc[u].ledger \in Seq({"live", "revoked"}) /\ svc'[u].ledger \in Seq({"live", "revoked"})
  BY <1>1, SvcType DEF States
<1>3. Len(svc[u].ledger) \in Nat /\ Len(svc'[u].ledger) \in Nat
  BY <1>2
<1>4. IssuedLen(u) \in Nat /\ (svc[u].pc # "deliver" => IssuedLen(u) = Len(svc[u].ledger))
  <2>1. CASE svc[u].pc = "deliver"
    <3>1. Len(svc[u].ledger) > 0 /\ IssuedLen(u) = Len(svc[u].ledger) - 1
      BY <1>1, <2>1 DEF GrantingOf, IssuedLen
    <3> QED
      BY <1>3, <2>1, <3>1
  <2>2. CASE svc[u].pc # "deliver"
    BY <1>3, <2>2 DEF IssuedLen
  <2> QED
    BY <2>1, <2>2
<1>5. ASSUME svc'[u].pc # "deliver", Len(svc'[u].ledger) = Len(svc[u].ledger)
      PROVE  IssuedLen(u)' \in Nat /\ IssuedLen(u) <= IssuedLen(u)'
  BY <1>3, <1>4, <1>5 DEF IssuedLen
<1>6. ASSUME svc'[u] = svc[u]
      PROVE  IssuedLen(u)' \in Nat /\ IssuedLen(u) <= IssuedLen(u)'
  BY <1>4, <1>6 DEF IssuedLen
<1>7. ASSUME NEW p, Going(u, p), p # "deliver"
      PROVE  IssuedLen(u)' \in Nat /\ IssuedLen(u) <= IssuedLen(u)'
  BY <1>1, <1>5, <1>7, GoingEffect DEF SameBut
<1>8. ASSUME NEW s \in Services, AnswerStep(s)
      PROVE  IssuedLen(u)' \in Nat /\ IssuedLen(u) <= IssuedLen(u)'
  <2>1. PICK status, next : AnswersWith(s, status, next)
    BY <1>8, AnswerShape DEF Answers
  <2>2. CASE u = s
    BY <1>5, <2>1, <2>2, AnsweredState
  <2>3. CASE u # s
    BY <1>6, <2>1, <2>3, AnswerEffect
  <2> QED
    BY <2>2, <2>3
<1>9. ASSUME NEW s \in Services, Recv(s)
      PROVE  IssuedLen(u)' \in Nat /\ IssuedLen(u) <= IssuedLen(u)'
  <2>1. CASE u = s
    BY <1>5, <1>9, <2>1, RecvEffect
  <2>2. CASE u # s
    BY <1>6, <1>9, <2>2, RecvEffect
  <2> QED
    BY <2>1, <2>2
<1>10. ASSUME NEW s \in Services, InnerStep(s)
       PROVE  IssuedLen(u)' \in Nat /\ IssuedLen(u) <= IssuedLen(u)'
  <2>1. CASE u = s /\ Mint(s)
    <3>1. /\ svc[u].pc = "mint" /\ svc'[u].pc = "deliver"
          /\ Len(svc'[u].ledger) = Len(svc[u].ledger) + 1
      BY <1>1, <2>1, MintEffect
    <3>2. IssuedLen(u)' = Len(svc[u].ledger) /\ IssuedLen(u) = Len(svc[u].ledger)
      BY <1>3, <3>1 DEF IssuedLen
    <3> QED
      BY <1>3, <3>2
  <2>2. CASE u = s /\ Delete(s)
    BY <1>1, <1>5, <2>2, DeleteEffect
  <2>3. CASE svc'[u] = svc[u]
    BY <1>6, <2>3
  <2> QED
    BY <1>7, <1>10, <2>1, <2>2, <2>3, InnerMoves, InnerEffect
<1>11. ASSUME NEW t \in Threads, CallStep(t)
       PROVE  IssuedLen(u)' \in Nat /\ IssuedLen(u) <= IssuedLen(u)'
  <2>1. CASE svc'[u] = svc[u]
    BY <1>6, <2>1
  <2>2. CASE svc'[u] # svc[u]
    <3>1. u = t /\ (Going(t, "registering") \/ Going(t, "upstream"))
      BY <1>1, <1>11, <2>2, CallEffect, GoingEffect
    <3> QED
      BY <1>7, <3>1
  <2> QED
    BY <2>1, <2>2
<1>12. ASSUME NEW c \in Clients, IdleStep(c)
       PROVE  IssuedLen(u)' \in Nat /\ IssuedLen(u) <= IssuedLen(u)'
  BY <1>6, <1>12, IdleEffect
<1>13. CASE UNCHANGED vars
  <2>1. svc' = svc
    BY <1>13 DEF vars
  <2> QED
    BY <1>4, <1>6, <2>1
<1> QED
  BY <1>4, <1>8, <1>9, <1>10, <1>11, <1>12, <1>13, StepCases

LEMMA BackedStep ==
  ASSUME IInv, [Next]_vars
  PROVE  Backed'
<1>1. TypeOK /\ svc \in [Services -> States] /\ Services \subseteq Threads
      /\ Clients \subseteq Threads /\ caps \in [Threads -> SUBSET (Services \X Badges)]
      /\ thread \in [Threads -> Calls] /\ Backed
  BY TypeFacts DEF IInv, TypeOK
<1>2. ASSUME NEW t \in Threads, Waits(t)' \/ MoreToCome(t)'
      PROVE  thread'[t].to \in Services /\ <<thread'[t].to, thread'[t].badge>> \in caps'[t]
  <2>1. ASSUME Waits(t) \/ MoreToCome(t),
               thread'[t].to = thread[t].to /\ thread'[t].badge = thread[t].badge
        PROVE  thread'[t].to \in Services /\ <<thread'[t].to, thread'[t].badge>> \in caps'[t]
    BY <1>1, <2>1, CapsGrow DEF Backed
  <2>2. ASSUME thread'[t] = thread[t]
        PROVE  thread'[t].to \in Services /\ <<thread'[t].to, thread'[t].badge>> \in caps'[t]
    BY <1>2, <2>1, <2>2 DEF Waits, MoreToCome
  <2>3. ASSUME NEW s \in Services, AnswerStep(s)
        PROVE  thread'[t].to \in Services /\ <<thread'[t].to, thread'[t].badge>> \in caps'[t]
    <3>1. PICK status, next : AnswersWith(s, status, next)
      BY <2>3, AnswerShape DEF Answers
    <3>2. /\ thread'[t].to = thread[t].to /\ thread'[t].badge = thread[t].badge
          /\ t # Msg(s).from => thread'[t] = thread[t]
          /\ Waits(Msg(s).from)
      BY <3>1, AnswerEffect
    <3> QED
      BY <2>1, <2>2, <3>2
  <2>4. ASSUME NEW f \in Threads, CallStep(f)
        PROVE  thread'[t].to \in Services /\ <<thread'[t].to, thread'[t].badge>> \in caps'[t]
    <3>1. PICK s \in Services, m \in Messages : IsNewCall(f, s, m)
      BY <2>4, CallEffect
    <3>2. caps' = caps
      BY <2>4, CallEffect
    <3> QED
      BY <2>2, <3>1, <3>2 DEF IsNewCall
  <2>5. ASSUME NEW c \in Clients, IdleStep(c)
        PROVE  thread'[t].to \in Services /\ <<thread'[t].to, thread'[t].badge>> \in caps'[t]
    <3>1. CASE t = c
      <4>1. /\ thread'[c].to = thread[c].to /\ thread'[c].badge = thread[c].badge
            /\ thread'[c].reply \in {"none", "ERROR", thread[c].reply}
        BY <2>5, IdleEffect
      <4> QED
        BY <1>2, <2>1, <3>1, <4>1 DEF Waits, MoreToCome
    <3>2. CASE t # c
      BY <2>2, <2>5, <3>2, IdleEffect
    <3> QED
      BY <3>1, <3>2
  <2>6. ASSUME NEW s \in Services, Recv(s) \/ InnerStep(s)
        PROVE  thread' = thread
    BY <2>6, RecvEffect, InnerEffect
  <2>7. CASE UNCHANGED vars
    BY <2>2, <2>7 DEF vars
  <2> QED
    BY <2>2, <2>3, <2>4, <2>5, <2>6, <2>7, StepCases
<1>3. ASSUME NEW t \in Threads, NEW s \in Services, NEW b \in Minted, <<s, b>> \in caps'[t]
      PROVE  b <= IssuedLen(s)'
  <2>1. b \in Nat /\ IssuedLen(s) \in Nat /\ IssuedLen(s)' \in Nat
        /\ IssuedLen(s) <= IssuedLen(s)'
    BY IssuedGrows DEF Minted
  <2>2. ASSUME NEW f \in Threads, <<s, b>> \in caps[f]
        PROVE  b <= IssuedLen(s)'
    <3>1. b <= IssuedLen(s)
      BY <1>1, <2>2 DEF Backed
    <3> QED
      BY <2>1, <3>1
  <2>3. ASSUME NEW d \in Services, Deliver(d)
        PROVE  b <= IssuedLen(s)'
    <3>1. caps' = [caps EXCEPT ![Msg(d).from] = @ \cup {<<d, svc[d].scratch>>}]
      BY <2>3 DEF Deliver
    <3>2. CASE <<s, b>> \in caps[t]
      BY <2>2, <3>2
    <3>3. CASE <<s, b>> \notin caps[t]
      <4>1. s = d /\ b = svc[d].scratch
        BY <1>1, <1>3, <3>1, <3>3
      <4>2. svc[d].pc = "deliver" /\ svc[d].scratch = Len(svc[d].ledger)
        BY <2>3 DEF Deliver, At, IInv, Granting, GrantingOf
      <4>3. PICK status, next : AnswersWith(d, status, next)
        BY <2>3, AnswerShape DEF AnswerStep, Answers
      <4>4. svc'[d].pc = "delete" /\ Len(svc'[d].ledger) = Len(svc[d].ledger)
        BY <4>2, <4>3, AnsweredState
      <4>5. IssuedLen(s)' = b
        BY <2>1, <4>1, <4>2, <4>4 DEF IssuedLen
      <4> QED
        BY <2>1, <4>5
    <3> QED
      BY <3>2, <3>3
  <2>4. ASSUME NEW c \in Clients, PassOn(c)
        PROVE  b <= IssuedLen(s)'
    <3>1. caps' = [caps EXCEPT ![Op(c).to] = @ \cup (caps[c] \cap (Services \X Minted))]
      BY <2>4 DEF PassOn
    <3>2. <<s, b>> \in caps[t] \/ <<s, b>> \in caps[c]
      BY <1>1, <1>3, <3>1
    <3> QED
      BY <1>1, <2>2, <3>2
  <2> QED
    BY <1>3, <2>2, <2>3, <2>4, CapsStep
<1>4. ASSUME NEW s \in Services, Upstream[s] # Nobody
      PROVE  <<Upstream[s], PLAIN>> \in caps'[s]
  BY <1>1, <1>4, CapsGrow DEF Backed
<1> QED
  BY <1>2, <1>3, <1>4 DEF Backed

-----------------------------------------------------------------------------
(* The inductive invariant holds.                                          *)

LEMMA InitIInv ==
  ASSUME Init
  PROVE  IInv
<1>1. PICK l \in Launches : caps = l.caps /\ script = l.script
  BY DEF Init
<1>2. /\ svc = [s \in Services |-> Started(s)]
      /\ queue = [s \in Services |-> <<>>]
      /\ thread = [t \in Threads |-> NoCall] /\ hart = Nobody
  BY DEF Init
<1>3. /\ caps \in [Threads -> SUBSET (Services \X Badges)] /\ script \in [Clients -> Seq(Ops)]
  BY <1>1, LaunchesAssumption
<1>4. MaxBadges \in Nat /\ MaxChunks \in Nat \ {0} /\ Services \subseteq Threads
  BY ServicesAssumption DEF Threads
<1>5. ASSUME NEW s \in Services
      PROVE  /\ svc[s] \in States /\ svc[s].ledger = <<>> /\ Len(svc[s].ledger) = 0
             /\ svc[s].received = NoMessage /\ svc[s].scratch = PLAIN
             /\ svc[s].pc = (IF Upstream[s] = Nobody THEN "recv" ELSE "register")
             /\ svc[s].exchange.left = 0 /\ ~Waits(s) /\ ~MoreToCome(s)
  <2>1. svc[s] = Started(s) /\ thread[s] = NoCall
    BY <1>2, <1>4
  <2>2. <<>> \in Seq({"live", "revoked"}) /\ Len(<<>>) = 0
    OBVIOUS
  <2> QED
    BY <1>4, <2>1, <2>2
    DEF Started, States, PCs, FirstPhase, NoExchange, PLAIN, Waits, MoreToCome, NoCall
<1>6. TypeOK
  <2>1. NoCall \in Calls
    <3>1. TRUE \in BOOLEAN /\ PLAIN \in Badges /\ "none" \in Replies /\ 0 \in Nat
      BY <1>4 DEF PLAIN, Badges, GRANTER_BADGE, Replies
    <3> QED
      BY <3>1 DEF NoCall, Calls
  <2>2. svc \in [Services -> States]
    BY <1>2, <1>5
  <2>3. queue \in [Services -> Seq(Messages)]
    BY <1>2
  <2>4. thread \in [Threads -> Calls]
    BY <1>2, <2>1
  <2>5. \A s \in Services : Len(svc[s].ledger) <= MaxBadges
    BY <1>4, <1>5
  <2> QED
    BY <1>2, <1>3, <2>2, <2>3, <2>4, <2>5 DEF TypeOK, States, Calls
<1>7. Control
  BY <1>5 DEF Control, ControlOf, Owing, Msg
<1>8. Granting
  BY <1>5 DEF Granting, GrantingOf
<1>9. Owed
  BY <1>2, <1>5 DEF Owed, OwedBy, Msg
<1>10. \A t \in Threads : ~Waits(t) /\ ~MoreToCome(t)
  BY <1>2 DEF Waits, MoreToCome, NoCall
<1>11. Backed
  <2>1. ASSUME NEW t \in Threads, NEW s \in Services, NEW b \in Minted
        PROVE  <<s, b>> \notin caps[t]
    BY <1>1, CapsAssumption
  <2>2. ASSUME NEW s \in Services, Upstream[s] # Nobody
        PROVE  <<Upstream[s], PLAIN>> \in caps[s]
    BY <1>1, <2>2, CapsAssumption
  <2> QED
    BY <1>10, <2>1, <2>2 DEF Backed
<1> QED
  BY <1>6, <1>7, <1>8, <1>9, <1>10, <1>11 DEF IInv, Heard

LEMMA Invariance ==
  Spec => []IInv
<1>1. IInv /\ [Next]_vars => IInv'
  BY TypeStep, ControlStep, GrantingStep, OwedStep, HeardStep, BackedStep DEF IInv
<1> QED
  BY InitIInv, <1>1, PTL DEF Spec

(* Types, for any services and clients; scratch and exchanges name badges  *)
(* of the table.                                                           *)
THEOREM TypeCorrect ==
  Spec => []TypeOK
<1>1. IInv => TypeOK
  BY DEF IInv
<1> QED
  BY <1>1, Invariance, PTL

(* The scratch slot is empty whenever a grant is about to be minted, so    *)
(* the only grants that fail are of no object and of no badge left.        *)
THEOREM GrantsFailForCauseOnly ==
  Spec => []GrantsFailForCause
<1>1. IInv => GrantsFailForCause
  <2>1. SUFFICES ASSUME IInv, NEW s \in Services, At(s, "mint"), ~CanMint(s), Wanted(s)
        PROVE  Len(svc[s].ledger) = MaxBadges
    BY DEF GrantsFailForCause
  <2>2. svc[s].scratch = PLAIN
    BY <2>1 DEF IInv, Granting, GrantingOf, At
  <2>3. Len(svc[s].ledger) \in 0..MaxBadges /\ MaxBadges \in Nat
    BY <2>1, TypeFacts DEF IInv
  <2> QED
    BY <2>1, <2>2, <2>3 DEF CanMint
<1> QED
  BY <1>1, Invariance, PTL

(* Whoever waits is queued once at the service it called, or is the one    *)
(* being served there; and nobody else is queued or served anywhere.       *)
THEOREM EveryCallIsKept ==
  Spec => []NoCallerForgotten
<1>1. IInv => NoCallerForgotten
  <2>1. SUFFICES ASSUME IInv, NEW t \in Threads, NEW s \in Services
        PROVE  Cardinality(From(s, t)) + (IF Msg(s).from = t THEN 1 ELSE 0)
                 = IF Waits(t) /\ thread[t].to = s THEN 1 ELSE 0
    BY DEF NoCallerForgotten
  <2>2. OwedBy(s) /\ Nobody \notin Threads
    BY <2>1, TypeFacts DEF IInv, Owed
  <2>3. CASE Msg(s).from = t
    <3>1. Waits(t) /\ thread[t].to = s
      BY <2>1, <2>2, <2>3, PendingWaits
    <3>2. From(s, t) = {}
      BY <2>2, <2>3 DEF From, OwedBy
    <3> QED
      BY <2>3, <3>1, <3>2, FS_EmptySet
  <2>4. CASE Msg(s).from # t /\ From(s, t) # {}
    <3>1. PICK k \in DOMAIN queue[s] : queue[s][k].from = t
      BY <2>4 DEF From
    <3>2. Waits(t) /\ thread[t].to = s
      BY <2>1, <3>1, PendingWaits
    <3>3. From(s, t) = {k}
      BY <2>2, <3>1 DEF From, OwedBy
    <3>4. Cardinality(From(s, t)) = 1
      BY <3>3, FS_Singleton
    <3> QED
      BY <2>4, <3>2, <3>4
  <2>5. CASE Msg(s).from # t /\ From(s, t) = {}
    <3>1. ~(Waits(t) /\ thread[t].to = s)
      BY <2>1, <2>5 DEF IInv, Heard, From
    <3> QED
      BY <2>5, <3>1, FS_EmptySet
  <2> QED
    BY <2>3, <2>4, <2>5
<1> QED
  BY <1>1, Invariance, PTL

-----------------------------------------------------------------------------
(* What the answers say.                                                   *)

LEMMA Says ==
  ASSUME IInv, NEW s \in Services, svc[s].pc \in Owing, NEW status, NEW next,
         Answer(s, status, next)
  PROVE  thread'[Msg(s).from].reply = status
<1>1. thread \in [Threads -> Calls] /\ Msg(s).from \in Threads
  BY MsgFacts, TypeFacts DEF IInv
<1>2. thread' = [thread EXCEPT ![Msg(s).from].reply = status]
  BY DEF Answer, Msg
<1> QED
  BY <1>1, <1>2 DEF Calls

LEMMA LedgerKept ==
  ASSUME IInv, NEW s \in Services, NEW status, NEW p, NEW x,
         \/ Answer(s, status, Goto(s, p))
         \/ Answer(s, status, Back(s, x))
  PROVE  svc'[s].ledger = svc[s].ledger
<1>1. svc \in [Services -> States] /\ svc[s] \in States
  BY TypeFacts DEF IInv
<1>2. ASSUME NEW r, r.ledger = svc[s].ledger, "ledger" \in DOMAIN r,
             svc' = [svc EXCEPT ![s] = [r EXCEPT !.received = NoMessage]]
      PROVE  svc'[s].ledger = svc[s].ledger
  BY <1>1, <1>2
<1>3. /\ Goto(s, p).ledger = svc[s].ledger /\ "ledger" \in DOMAIN Goto(s, p)
      /\ Back(s, x).ledger = svc[s].ledger /\ "ledger" \in DOMAIN Back(s, x)
  BY <1>1 DEF Goto, Back, States
<1> QED
  BY <1>2, <1>3 DEF Answer

(* The answers to DATA.                                                    *)
DataStep(s) ==
  \/ ServeBusy(s) \/ RefuseChunk(s) \/ TakeChunk(s) \/ GiveChunk(s)
  \/ HandleUpstream(s) /\ UpstreamBadges(s) = {}
  \/ Handle(s) \/ UpstreamAnswered(s)
DataStatuses == {"OK", "part", "more", "ACCESS", "INVALID", "BUSY"}

LEMMA RespondSays ==
  ASSUME IInv, NEW s \in Services, svc[s].pc \in Owing, NEW status, Respond(s, status)
  PROVE  /\ svc'[s].ledger = svc[s].ledger
         /\ \/ thread'[Msg(s).from].reply = status
            \/ thread'[Msg(s).from].reply = "part" /\ status = "OK"
  BY Says, LedgerKept DEF Respond

(* Data is given under a badge that is live at that moment, and ACCESS is  *)
(* said only of one that is not.                                           *)
LEMMA DataAnswer ==
  ASSUME IInv, NEW s \in Services, DataStep(s)
  PROVE  /\ svc[s].pc \in {"serve", "handle", "upstream"} /\ svc[s].phase = 2
         /\ hart = Nobody /\ caps' = caps
         /\ Msg(s).label = "DATA" /\ svc'[s].ledger = svc[s].ledger
         /\ thread'[Msg(s).from].reply \in DataStatuses
         /\ thread'[Msg(s).from].reply \in {"OK", "part"} => Live(s, Msg(s).badge)
         /\ thread'[Msg(s).from].reply = "ACCESS" => ~Live(s, Msg(s).badge)
<1> DEFINE said == thread'[Msg(s).from].reply
<1>1. ControlOf(s) /\ GrantingOf(s)
  BY DEF IInv, Control, Granting
<1>2. ASSUME svc[s].pc \in {"serve", "handle", "upstream"}
      PROVE  svc[s].phase = 2 /\ svc[s].pc \in Owing
             /\ (svc[s].pc # "serve" => Msg(s).label = "DATA")
  BY <1>1, <1>2 DEF ControlOf, Owing
<1> HIDE DEF said
<1>3. CASE ServeBusy(s)
  <2>1. /\ svc[s].pc = "serve" /\ Msg(s).label = "DATA" /\ hart = Nobody /\ caps' = caps
        /\ Answer(s, "BUSY", Goto(s, "recv"))
    BY <1>3 DEF ServeBusy, At
  <2>2. said = "BUSY" /\ svc'[s].ledger = svc[s].ledger
    BY <1>2, <2>1, Says, LedgerKept DEF said
  <2> QED
    BY <1>2, <2>1, <2>2 DEF said, DataStatuses
<1>4. CASE RefuseChunk(s)
  <2>1. /\ svc[s].pc = "serve" /\ Msg(s).label = "DATA" /\ hart = Nobody /\ caps' = caps
        /\ Answer(s, "INVALID", Back(s, NoExchange))
    BY <1>4 DEF RefuseChunk, Chunk, At
  <2>2. said = "INVALID" /\ svc'[s].ledger = svc[s].ledger
    BY <1>2, <2>1, Says, LedgerKept DEF said
  <2> QED
    BY <1>2, <2>1, <2>2 DEF said, DataStatuses
<1>5. CASE TakeChunk(s)
  <2>1. /\ svc[s].pc = "serve" /\ Msg(s).label = "DATA" /\ hart = Nobody /\ caps' = caps
        /\ \E x : Answer(s, "more", Back(s, x))
    BY <1>5 DEF TakeChunk, Chunk, At
  <2>2. said = "more" /\ svc'[s].ledger = svc[s].ledger
    BY <1>2, <2>1, Says, LedgerKept DEF said
  <2> QED
    BY <1>2, <2>1, <2>2 DEF said, DataStatuses
<1>6. CASE GiveChunk(s)
  <2>1. /\ svc[s].pc = "serve" /\ Msg(s).label = "DATA" /\ hart = Nobody /\ caps' = caps
        /\ ~CutOff(s) /\ svc[s].exchange.left > 0
        /\ Idle(s) \/ Msg(s).badge = svc[s].exchange.badge
        /\ \/ \E x : Answer(s, "OK", Back(s, x))
           \/ \E x : Answer(s, "part", Back(s, x))
    BY <1>6 DEF GiveChunk, Chunk, At
  <2>2. said \in {"OK", "part"} /\ svc'[s].ledger = svc[s].ledger
    BY <1>2, <2>1, Says, LedgerKept DEF said
  <2>3. ~Idle(s) /\ Msg(s).badge = svc[s].exchange.badge
    <3>1. ~(0 > 0)
      OBVIOUS
    <3> QED
      BY <2>1, <3>1 DEF Idle, NoExchange
  <2>4. Live(s, Msg(s).badge)
    BY <1>1, <2>1, <2>3 DEF CutOff, StillAllowed, GrantingOf
  <2> QED
    BY <1>2, <2>1, <2>2, <2>4 DEF said, DataStatuses
<1>7. CASE HandleUpstream(s) /\ UpstreamBadges(s) = {}
  <2>1. svc[s].pc = "handle" /\ hart = Nobody /\ caps' = caps /\ Respond(s, "INVALID")
    BY <1>7 DEF HandleUpstream, At
  <2>2. said = "INVALID" /\ svc'[s].ledger = svc[s].ledger
    BY <1>2, <2>1, RespondSays DEF said
  <2> QED
    BY <1>2, <2>1, <2>2 DEF said, DataStatuses
<1>8. CASE Handle(s)
  <2>1. /\ svc[s].pc = "handle" /\ hart = Nobody /\ caps' = caps
        /\ Respond(s, IF Live(s, Msg(s).badge) THEN "OK" ELSE "ACCESS")
    BY <1>8 DEF Handle, At
  <2>2. /\ svc'[s].ledger = svc[s].ledger
        /\ IF Live(s, Msg(s).badge) THEN said \in {"OK", "part"} ELSE said = "ACCESS"
    BY <1>2, <2>1, RespondSays DEF said
  <2> QED
    BY <1>2, <2>1, <2>2 DEF said, DataStatuses
<1>9. CASE UpstreamAnswered(s)
  <2>1. /\ svc[s].pc = "upstream" /\ hart = Nobody /\ caps' = caps
        /\ Respond(s, IF thread[s].reply = "OK" THEN "OK" ELSE "INVALID")
    BY <1>9 DEF UpstreamAnswered, At
  <2>2. said \in {"OK", "part", "INVALID"} /\ svc'[s].ledger = svc[s].ledger
    BY <1>2, <2>1, RespondSays DEF said
  <2>3. Live(s, Msg(s).badge)
    BY <1>1, <2>1 DEF ControlOf
  <2> QED
    BY <1>2, <2>1, <2>2, <2>3 DEF said, DataStatuses
<1> QED
  BY <1>3, <1>4, <1>5, <1>6, <1>7, <1>8, <1>9 DEF DataStep

(* Grants, revocations and forgeries are answered by the badge of the      *)
(* call: the binder's, unless the first caller is given its badge.         *)
BadgeStep(s) ==
  \/ Deliver(s) \/ RefuseGrant(s)
  \/ ServeGrant(s) /\ Msg(s).object = "malformed"

LEMMA Entitlement ==
  ASSUME IInv, NEW s \in Services, BadgeStep(s)
  PROVE  /\ svc[s].phase = 2 => IsGrant(Msg(s))
         /\ svc[s].phase = 1 => svc[s].pc = "deliver" /\ Deliver(s)
<1>1. ControlOf(s)
  BY DEF IInv, Control
<1>2. CASE Deliver(s)
  BY <1>1, <1>2 DEF Deliver, At, ControlOf
<1>3. CASE RefuseGrant(s)
  BY <1>1, <1>3 DEF RefuseGrant, GrantFails, At, ControlOf
<1>4. CASE ServeGrant(s)
  BY <1>1, <1>4 DEF ServeGrant, At, ControlOf
<1> QED
  BY <1>2, <1>3, <1>4 DEF BadgeStep

(* Nobody gets data under a badge that was revoked, nor one that was never *)
(* issued: what is given for a minted badge is given while it is live.     *)
THEOREM RevocationHolds ==
  Spec => RevocationIsFinal
<1>1. ASSUME IInv, [Next]_vars, NEW t \in Threads,
             Waits(t), thread'[t].reply \in {"part", "OK"}, thread[t].badge \in Minted
      PROVE  Live(thread[t].to, thread[t].badge)
  <2>1. GRANTER_BADGE \notin Minted /\ \A b \in Minted : ~(b <= 0)
    BY <1>1, TypeFacts DEF IInv, Minted, GRANTER_BADGE
  <2>2. thread'[t] # thread[t]
    BY <1>1 DEF Waits
  <2>3. ASSUME NEW s \in Services, AnswerStep(s)
        PROVE  Live(thread[t].to, thread[t].badge)
    <3>1. PICK status, next : AnswersWith(s, status, next)
      BY <1>1, <2>3, AnswerShape DEF Answers
    <3>2. /\ t = Msg(s).from /\ thread[t].to = s /\ thread[t].badge = Msg(s).badge
          /\ Msg(s) \in Messages
      BY <1>1, <2>2, <3>1, AnswerEffect
    <3>3. CASE DataStep(s)
      BY <1>1, <3>2, <3>3, DataAnswer
    <3>4. CASE BadgeStep(s)
      <4>1. svc[s].phase # 2
        BY <1>1, <2>1, <3>2, <3>4, Entitlement DEF IsGrant
      <4>2. svc[s].phase = 1 /\ svc[s].pc = "deliver"
        <5>1. svc[s] \in States
          BY <1>1, TypeFacts DEF IInv
        <5> QED
          BY <1>1, <3>4, <4>1, <5>1, Entitlement DEF States
      <4>3. IssuedLen(s) = 0
        BY <1>1, <4>2 DEF IInv, Granting, GrantingOf, IssuedLen
      <4>4. <<s, Msg(s).badge>> \in caps[t]
        BY <1>1, <3>2 DEF IInv, Backed
      <4>5. Msg(s).badge <= 0
        BY <1>1, <3>2, <4>3, <4>4 DEF IInv, Backed
      <4> QED
        BY <1>1, <2>1, <3>2, <4>5
    <3>5. CASE ServeRevoke(s)
      BY <1>1, <2>1, <3>2, <3>5 DEF ServeRevoke, IsRevoke
    <3>6. CASE ServeForged(s)
      <4>1. svc[s].pc \in Owing /\ Answer(s, "ACCESS", Goto(s, "recv"))
        BY <3>6 DEF ServeForged, At, Owing
      <4> QED
        BY <1>1, <3>2, <4>1, Says
    <3> QED
      BY <2>3, <3>3, <3>4, <3>5, <3>6, Zenon DEF AnswerStep, DataStep, BadgeStep
  <2>4. ASSUME NEW s \in Services, Recv(s) \/ InnerStep(s)
        PROVE  thread' = thread
    BY <1>1, <2>4, RecvEffect, InnerEffect
  <2>5. ASSUME NEW f \in Threads, CallStep(f)
        PROVE  thread'[t] = thread[t]
    <3>1. PICK s \in Services, m \in Messages : IsNewCall(f, s, m)
      BY <1>1, <2>5, CallEffect
    <3> QED
      BY <1>1, <3>1 DEF IsNewCall
  <2>6. ASSUME NEW c \in Clients, IdleStep(c)
        PROVE  thread'[t] = thread[t]
    BY <1>1, <2>6, IdleEffect
  <2>7. ~UNCHANGED vars
    BY <2>2 DEF vars
  <2> QED
    BY <1>1, <2>2, <2>3, <2>4, <2>5, <2>6, <2>7, StepCases
<1>2. IInv /\ [Next]_vars =>
        [\A t \in Threads :
           /\ Waits(t) /\ thread'[t].reply \in {"part", "OK"}
           /\ thread[t].badge \in Minted
           => Live(thread[t].to, thread[t].badge)]_vars
  BY <1>1
<1> QED
  BY <1>2, Invariance, PTL DEF Spec, RevocationIsFinal

-----------------------------------------------------------------------------
(* The abstract state.                                                     *)

Unclaimed == {s \in Services : svc[s].phase = 1 /\ svc[s].pc # "delete"}

LEMMA PendingFacts ==
  ASSUME IInv, NEW s \in Services
  PROVE  /\ Msg(s) # NoMessage =>
              Msg(s) \in Pending(s) /\ Msg(s) \notin Range(queue[s])
              /\ Pending(s) \ {Msg(s)} = Range(queue[s])
         /\ Msg(s) = NoMessage => Pending(s) = Range(queue[s])
         /\ NoMessage \notin Range(queue[s])
<1>1. OwedBy(s) /\ NoMessage.from \notin Threads
  BY TypeFacts DEF IInv, Owed, NoMessage
<1>2. NoMessage \notin Range(queue[s])
  BY <1>1, PendingWaits DEF Range
<1>3. Msg(s) # NoMessage => Msg(s) \notin Range(queue[s])
  BY <1>1 DEF OwedBy, Range
<1> QED
  BY <1>2, <1>3 DEF Pending

LEMMA FrontFacts ==
  ASSUME NEW S, NEW q \in Seq(S), Len(q) > 0
  PROVE  LET i == SubSeq(q, 1, Len(q) - 1)
         IN  i \in Seq(S) /\ Len(i) = Len(q) - 1 /\ \A k \in 1..(Len(q) - 1) : i[k] = q[k]
<1> DEFINE n == Len(q) - 1
           i == SubSeq(q, 1, n)
<1>1. n \in Nat /\ n \in Int /\ 1 \in Int /\ (IF 1 <= n THEN n - 1 + 1 ELSE 0) = n
  OBVIOUS
<1>2. \A k \in 1..n : q[k] \in S
  OBVIOUS
<1> HIDE DEF n
<1>3. /\ i \in Seq(S) /\ Len(i) = IF 1 <= n THEN n - 1 + 1 ELSE 0
      /\ \A k \in 1..(n - 1 + 1) : i[k] = q[1 + k - 1]
  BY <1>1, <1>2, SubSeqProperties
<1> HIDE DEF i
<1>4. Len(i) = n
  BY <1>1, <1>3
<1>5. \A k \in 1..n : i[k] = q[k]
  BY <1>1, <1>3
<1> QED
  BY <1>3, <1>4, <1>5 DEF n, i

LEMMA RangeOfTail ==
  ASSUME NEW S, NEW q \in Seq(S), q # <<>>
  PROVE  Range(q) = {q[1]} \cup Range(Tail(q))
<1> DEFINE r == Tail(q)
<1>1. /\ 1 \in DOMAIN q
      /\ \A k \in DOMAIN q : k = 1 \/ (k - 1 \in DOMAIN r /\ r[k - 1] = q[k])
      /\ \A k \in DOMAIN r : k + 1 \in DOMAIN q /\ r[k] = q[k + 1]
  OBVIOUS
<1> HIDE DEF r
<1>2. Range(q) \subseteq {q[1]} \cup Range(r)
  <2>1. SUFFICES ASSUME NEW k \in DOMAIN q
        PROVE  q[k] \in {q[1]} \cup Range(r)
    BY DEF Range
  <2> QED
    BY <1>1 DEF Range
<1>3. Range(r) \subseteq Range(q)
  <2>1. SUFFICES ASSUME NEW k \in DOMAIN r
        PROVE  r[k] \in Range(q)
    BY DEF Range
  <2> QED
    BY <1>1 DEF Range
<1>4. q[1] \in Range(q)
  BY <1>1 DEF Range
<1> QED
  BY <1>2, <1>3, <1>4 DEF r

LEMMA FrontOfAppend ==
  ASSUME NEW S, NEW q \in Seq(S), NEW e \in S
  PROVE  SubSeq(Append(q, e), 1, Len(Append(q, e)) - 1) = q
<1> DEFINE r == Append(q, e)
<1>1. /\ r \in Seq(S) /\ Len(r) > 0 /\ Len(r) - 1 = Len(q)
      /\ \A k \in 1..Len(q) : r[k] = q[k]
  OBVIOUS
<1> HIDE DEF r
<1> DEFINE i == SubSeq(r, 1, Len(r) - 1)
<1>2. i \in Seq(S) /\ Len(i) = Len(q) /\ \A k \in 1..Len(q) : i[k] = q[k]
  BY <1>1, FrontFacts
<1> HIDE DEF i
<1>3. i = q
  BY <1>2
<1> QED
  BY <1>3 DEF i, r

LEMMA IssuedFacts ==
  ASSUME IInv, NEW s \in Services
  PROVE  /\ svc[s].pc # "deliver" => Issued(s) = svc[s].ledger
         /\ svc[s].pc = "deliver" =>
              /\ Len(Issued(s)) = Len(svc[s].ledger) - 1
              /\ Len(Issued(s)) + 1 = svc[s].scratch
              /\ Append(Issued(s), "live") = svc[s].ledger
              /\ Len(Issued(s)) < MaxBadges
<1>1. /\ svc[s].ledger \in Seq({"live", "revoked"}) /\ Len(svc[s].ledger) \in 0..MaxBadges
      /\ MaxBadges \in Nat /\ GrantingOf(s)
  BY TypeFacts DEF IInv, States, Granting
<1>2. ASSUME svc[s].pc = "deliver"
      PROVE  /\ Len(Issued(s)) = Len(svc[s].ledger) - 1
             /\ Len(Issued(s)) + 1 = svc[s].scratch
             /\ Append(Issued(s), "live") = svc[s].ledger
             /\ Len(Issued(s)) < MaxBadges
  <2> DEFINE l == svc[s].ledger
             i == SubSeq(l, 1, Len(l) - 1)
  <2>1. Issued(s) = i
    BY <1>2 DEF Issued
  <2>2. l \in Seq({"live", "revoked"}) /\ Len(l) > 0 /\ Len(l) \in 0..MaxBadges
        /\ svc[s].scratch = Len(l) /\ l[Len(l)] = "live"
    BY <1>1, <1>2 DEF GrantingOf
  <2> HIDE DEF l
  <2>3. i \in Seq({"live", "revoked"}) /\ Len(i) = Len(l) - 1
        /\ \A k \in 1..(Len(l) - 1) : i[k] = l[k]
    BY <1>1, <2>2, FrontFacts
  <2> HIDE DEF i
  <2>4. Append(i, "live") \in Seq({"live", "revoked"}) /\ Len(Append(i, "live")) = Len(l)
        /\ \A k \in 1..Len(l) : Append(i, "live")[k] = l[k]
    BY <2>2, <2>3
  <2>5. Append(i, "live") = l
    BY <2>2, <2>4
  <2> QED
    BY <1>1, <2>1, <2>2, <2>3, <2>5 DEF l
<1> QED
  BY <1>2 DEF Issued

-----------------------------------------------------------------------------
(* Every answer is told to the one caller who waits for it.                *)
LEMMA Telling ==
  ASSUME IInv, NEW s \in Services, NEW m, m = Msg(s), NEW status, NEW next, AnswersWith(s, status, next),
         hart = Nobody
  PROVE  Abstract!Tell(s, m, status)
<1>1. /\ Msg(s) \in Messages /\ Msg(s).from \in Threads /\ Waits(Msg(s).from)
      /\ Msg(s) # NoMessage
      /\ \A u \in Services \ {s} : svc'[u] = svc[u]
      /\ svc'[s].received = NoMessage /\ queue' = queue
  BY AnswerEffect, TypeFacts DEF IInv
<1>2. hart' = hart /\ thread' = [thread EXCEPT ![Msg(s).from].reply = status]
  BY DEF AnswersWith, Answer, Msg
<1>3. Msg(s) \in Pending(s) /\ Pending(s) \ {Msg(s)} = Range(queue[s])
  BY <1>1, PendingFacts
<1>4. Pending(s)' = Pending(s) \ {Msg(s)} /\ \A u \in Services \ {s} : Pending(u)' = Pending(u)
  BY <1>1, <1>3 DEF Pending, Msg
<1>5. [u \in Services |-> Pending(u)]' =
        [[u \in Services |-> Pending(u)] EXCEPT ![s] = Pending(s) \ {Msg(s)}]
  BY <1>4
<1>6. [t \in Threads |-> thread[t].reply]' =
        [[t \in Threads |-> thread[t].reply] EXCEPT ![Msg(s).from] = status]
  <2>1. thread \in [Threads -> Calls]
    BY TypeFacts DEF IInv
  <2> QED
    BY <1>1, <1>2, <2>1 DEF Calls
<1>7. thread[Msg(s).from].reply = "waiting"
  BY <1>1 DEF Waits
<1>8. (hart # Nobody)' = (hart # Nobody)
  BY <1>2
<1> QED
  BY <1>1, <1>3, <1>5, <1>6, <1>7, <1>8 DEF Abstract!Tell

(* What an answer leaves of the table: the badges issued, and the services *)
(* that give their next caller one.                                        *)
LEMMA AnswerMaps ==
  ASSUME IInv, NEW s \in Services, NEW status, NEW next, AnswersWith(s, status, next)
  PROVE  /\ \A u \in Services \ {s} : Issued(u)' = Issued(u)
         /\ Issued(s)' = svc'[s].ledger
         /\ Unclaimed' = Unclaimed \ {s}
<1>1. /\ svc'[s].pc \in {"recv", "delete"} /\ svc'[s].phase = svc[s].phase
      /\ svc[s].phase = 1 => svc'[s].pc = "delete"
  BY AnsweredState
<1>2. \A u \in Services \ {s} : svc'[u] = svc[u]
  BY AnswerEffect
<1> QED
  BY <1>1, <1>2 DEF Issued, Unclaimed

LEMMA GrantMaps ==
  ASSUME IInv, NEW s \in Services, NEW m, m = Msg(s), Deliver(s)
  PROVE  Abstract!Grant(s, m)
<1>1. /\ svc[s].pc = "deliver" /\ svc[s].pc \in Owing /\ hart = Nobody /\ Msg(s).slot
      /\ Answer(s, "OK", Goto(s, "delete"))
      /\ caps' = [caps EXCEPT ![Msg(s).from] = @ \cup {<<s, svc[s].scratch>>}]
  BY DEF Deliver, At, Owing
<1>2. PICK status, next : AnswersWith(s, status, next)
  BY AnswerShape DEF AnswerStep, Answers
<1>3. thread'[Msg(s).from].reply = "OK" /\ thread'[Msg(s).from].reply = status
  <2>1. thread'[Msg(s).from].reply = status
    BY <1>2, AnswerEffect
  <2> QED
    BY <1>1, <2>1, Says
<1>4. Abstract!Tell(s, m, "OK")
  BY <1>1, <1>2, <1>3, Telling
<1>5. /\ Len(Issued(s)) + 1 = svc[s].scratch /\ Append(Issued(s), "live") = svc[s].ledger
      /\ Len(Issued(s)) < MaxBadges
  BY <1>1, IssuedFacts
<1>6. svc'[s].ledger = svc[s].ledger
  BY <1>1, LedgerKept
<1>7. [u \in Services |-> Issued(u)]' =
        [[u \in Services |-> Issued(u)] EXCEPT ![s] = Append(Issued(s), "live")]
  BY <1>2, <1>5, <1>6, AnswerMaps
<1>8. caps' = [caps EXCEPT ![Msg(s).from] = @ \cup {<<s, Len(Issued(s)) + 1>>}]
  BY <1>1, <1>5
<1>9. s \in Unclaimed \/ (Msg(s).label = "GRANT" /\ Msg(s).badge = GRANTER_BADGE)
  <2>1. svc[s].phase \in {1, 2} /\ (svc[s].phase = 2 => IsGrant(Msg(s)))
    BY TypeFacts, Entitlement DEF BadgeStep, IInv, States
  <2> QED
    BY <1>1, <2>1 DEF Unclaimed, IsGrant
<1>10. Unclaimed' = Unclaimed \ {s}
  BY <1>2, AnswerMaps
<1> QED
  BY <1>1, <1>4, <1>5, <1>7, <1>8, <1>9, <1>10
  DEF Abstract!Grant, Abstract!Entitled, Abstract!FromBinder, Abstract!GRANTER_BADGE,
      GRANTER_BADGE, Unclaimed

LEMMA FailMaps ==
  ASSUME IInv, NEW s \in Services, NEW m, m = Msg(s),
         RefuseGrant(s) \/ (ServeGrant(s) /\ Msg(s).object = "malformed")
  PROVE  Abstract!FailToGrant(s, m)
<1>1. /\ svc[s].pc \in Owing /\ svc[s].phase = 2 /\ hart = Nobody /\ caps' = caps
      /\ Answer(s, "INVALID", Goto(s, "recv")) \/ Answer(s, "INVALID", Goto(s, "delete"))
      /\ svc[s].pc # "deliver" \/ ~Msg(s).slot
  <2>1. CASE RefuseGrant(s)
    BY <2>1 DEF RefuseGrant, GrantFails, AfterFailure, At, Owing
  <2>2. CASE ServeGrant(s) /\ Msg(s).object = "malformed"
    BY <2>2 DEF ServeGrant, At, Owing, IInv, Control, ControlOf
  <2> QED
    BY <2>1, <2>2
<1>2. PICK status, next : AnswersWith(s, status, next)
  BY AnswerShape DEF AnswerStep, Answers
<1>3. thread'[Msg(s).from].reply = "INVALID" /\ thread'[Msg(s).from].reply = status
  <2>1. thread'[Msg(s).from].reply = status
    BY <1>2, AnswerEffect
  <2> QED
    BY <1>1, <2>1, Says
<1>4. Abstract!Tell(s, m, "INVALID")
  BY <1>1, <1>2, <1>3, Telling
<1>5. svc'[s].ledger = svc[s].ledger
  BY <1>1, LedgerKept
<1>6. Msg(s).label = "GRANT" /\ Msg(s).badge = GRANTER_BADGE
  BY <1>1, Entitlement DEF BadgeStep, IsGrant
<1>7. s \notin Unclaimed /\ Unclaimed' = Unclaimed
  BY <1>1, <1>2, AnswerMaps DEF Unclaimed
<1>8. CASE svc[s].pc # "deliver"
  <2>1. [u \in Services |-> Issued(u)]' = [u \in Services |-> Issued(u)]
    BY <1>2, <1>5, <1>8, AnswerMaps, IssuedFacts
  <2> QED
    BY <1>1, <1>4, <1>6, <1>7, <2>1
    DEF Abstract!FailToGrant, Abstract!Entitled, Abstract!FromBinder,
        Abstract!GRANTER_BADGE, GRANTER_BADGE, Unclaimed
<1>9. CASE svc[s].pc = "deliver"
  <2>1. [u \in Services |-> Issued(u)]' =
          [[u \in Services |-> Issued(u)] EXCEPT ![s] = Append(Issued(s), "live")]
    BY <1>2, <1>5, <1>9, AnswerMaps, IssuedFacts
  <2>2. Len(Issued(s)) < MaxBadges /\ ~Msg(s).slot
    BY <1>1, <1>9, IssuedFacts
  <2> QED
    BY <1>1, <1>4, <1>6, <1>7, <2>1, <2>2
    DEF Abstract!FailToGrant, Abstract!Entitled, Abstract!FromBinder,
        Abstract!GRANTER_BADGE, GRANTER_BADGE, Unclaimed
<1> QED
  BY <1>8, <1>9

LEMMA RevokeMaps ==
  ASSUME IInv, NEW s \in Services, NEW m, m = Msg(s), ServeRevoke(s)
  PROVE  Abstract!Revoke(s, m)
<1>1. /\ svc[s].pc = "serve" /\ svc[s].pc \in Owing /\ svc[s].phase = 2
      /\ hart = Nobody /\ caps' = caps
      /\ Msg(s).label = "REVOKE" /\ Msg(s).badge = GRANTER_BADGE
  BY DEF ServeRevoke, IsRevoke, At, Owing, IInv, Control, ControlOf
<1>2. PICK status, next : AnswersWith(s, status, next)
  BY AnswerShape DEF AnswerStep, Answers
<1>3. thread'[Msg(s).from].reply = status
  BY <1>2, AnswerEffect
<1>4. Abstract!Tell(s, m, status)
  BY <1>1, <1>2, Telling
<1>5. s \notin Unclaimed /\ Unclaimed' = Unclaimed
  BY <1>1, <1>2, AnswerMaps DEF Unclaimed
<1>6. Issued(s) = svc[s].ledger /\ Issued(s)' = svc'[s].ledger
  BY <1>1, <1>2, AnswerMaps, IssuedFacts
<1>7. CASE Known(s, Msg(s).n)
  <2> DEFINE after == [Goto(s, "recv") EXCEPT !.ledger = Revoked(@, Msg(s).n)]
  <2>1. Answer(s, "OK", after)
    BY <1>7 DEF ServeRevoke
  <2>2. status = "OK"
    BY <1>1, <1>3, <2>1, Says
  <2>3. svc'[s].ledger = [svc[s].ledger EXCEPT ![Msg(s).n] = "revoked"]
    <3>1. svc \in [Services -> States] /\ svc[s] \in States
      BY TypeFacts DEF IInv
    <3>2. svc' = [svc EXCEPT ![s] = [after EXCEPT !.received = NoMessage]]
      BY <2>1 DEF Answer
    <3>3. after.ledger = Revoked(svc[s].ledger, Msg(s).n) /\ "ledger" \in DOMAIN after
          /\ [after EXCEPT !.received = NoMessage].ledger = after.ledger
      BY <3>1 DEF Goto, States
    <3> HIDE DEF after
    <3> QED
      BY <3>1, <3>2, <3>3 DEF Revoked
  <2>4. [u \in Services |-> Issued(u)]' =
          [[u \in Services |-> Issued(u)] EXCEPT ![s][Msg(s).n] = "revoked"]
    BY <1>2, <1>6, <2>3, AnswerMaps
  <2>5. Msg(s).n \in DOMAIN Issued(s)
    BY <1>6, <1>7 DEF Known
  <2> QED
    BY <1>1, <1>4, <1>5, <2>2, <2>4, <2>5
    DEF Abstract!Revoke, Abstract!FromBinder, Abstract!GRANTER_BADGE, GRANTER_BADGE,
        Unclaimed
<1>8. CASE ~Known(s, Msg(s).n)
  <2>1. Answer(s, "INVALID", Goto(s, "recv"))
    BY <1>8 DEF ServeRevoke
  <2>2. status = "INVALID" /\ svc'[s].ledger = svc[s].ledger
    BY <1>1, <1>3, <2>1, Says, LedgerKept
  <2>3. [u \in Services |-> Issued(u)]' = [u \in Services |-> Issued(u)]
    BY <1>2, <1>6, <2>2, AnswerMaps
  <2>4. Msg(s).n \notin DOMAIN Issued(s)
    BY <1>6, <1>8 DEF Known
  <2> QED
    BY <1>1, <1>4, <1>5, <2>2, <2>3, <2>4
    DEF Abstract!Revoke, Abstract!FromBinder, Abstract!GRANTER_BADGE, GRANTER_BADGE,
        Unclaimed
<1> QED
  BY <1>7, <1>8

LEMMA ForgedMaps ==
  ASSUME IInv, NEW s \in Services, NEW m, m = Msg(s), ServeForged(s)
  PROVE  Abstract!Forged(s, m)
<1>1. /\ svc[s].pc = "serve" /\ svc[s].pc \in Owing /\ svc[s].phase = 2
      /\ hart = Nobody /\ caps' = caps
      /\ Msg(s).label \in {"GRANT", "REVOKE"} /\ Msg(s).badge # GRANTER_BADGE
      /\ Answer(s, "ACCESS", Goto(s, "recv"))
  BY DEF ServeForged, IsForged, At, Owing, IInv, Control, ControlOf
<1>2. PICK status, next : AnswersWith(s, status, next)
  BY AnswerShape DEF AnswerStep, Answers
<1>3. thread'[Msg(s).from].reply = status
  BY <1>2, AnswerEffect
<1>4. status = "ACCESS" /\ svc'[s].ledger = svc[s].ledger
  BY <1>1, <1>3, Says, LedgerKept
<1>5. Abstract!Tell(s, m, "ACCESS")
  BY <1>1, <1>2, <1>4, Telling
<1>6. s \notin Unclaimed /\ Unclaimed' = Unclaimed
  BY <1>1, <1>2, AnswerMaps DEF Unclaimed
<1>7. [u \in Services |-> Issued(u)]' = [u \in Services |-> Issued(u)]
  BY <1>1, <1>2, <1>4, AnswerMaps, IssuedFacts
<1> QED
  BY <1>1, <1>5, <1>6, <1>7
  DEF Abstract!Forged, Abstract!FromBinder, Abstract!GRANTER_BADGE, GRANTER_BADGE,
      Unclaimed

LEMMA DataMaps ==
  ASSUME IInv, NEW s \in Services, NEW m, m = Msg(s), DataStep(s)
  PROVE  \E status \in Abstract!Statuses : Abstract!Serve(s, m, status)
<1>1. PICK status, next : AnswersWith(s, status, next)
  BY AnswerShape DEF AnswerStep, DataStep, Answers
<1>2. thread'[Msg(s).from].reply = status
  BY <1>1, AnswerEffect
<1>3. /\ svc[s].pc \in {"serve", "handle", "upstream"} /\ svc[s].phase = 2
      /\ hart = Nobody /\ caps' = caps
      /\ Msg(s).label = "DATA" /\ svc'[s].ledger = svc[s].ledger
      /\ status \in DataStatuses
      /\ status \in {"OK", "part"} => Live(s, Msg(s).badge)
      /\ status = "ACCESS" => ~Live(s, Msg(s).badge)
  BY <1>2, DataAnswer
<1>4. Abstract!Tell(s, m, status)
  BY <1>1, <1>3, Telling
<1>5. s \notin Unclaimed /\ Unclaimed' = Unclaimed
  BY <1>1, <1>3, AnswerMaps DEF Unclaimed
<1>6. Issued(s) = svc[s].ledger
  BY <1>3, IssuedFacts
<1>7. [u \in Services |-> Issued(u)]' = [u \in Services |-> Issued(u)]
  BY <1>1, <1>3, <1>6, AnswerMaps
<1>8. Abstract!IsLive(s, m.badge) <=> Live(s, Msg(s).badge)
  BY <1>6 DEF Abstract!IsLive, Live, Known
<1>9. Abstract!Serve(s, m, status)
  BY <1>3, <1>4, <1>5, <1>7, <1>8 DEF Abstract!Serve, Unclaimed
<1> QED
  BY <1>3, <1>9 DEF Abstract!Statuses, DataStatuses

(* Every answer is one of the abstract answers.                            *)
LEMMA AnswerStepMaps ==
  ASSUME IInv, NEW s \in Services, AnswerStep(s)
  PROVE  Abstract!Next
<1>0. PICK m : m = Msg(s)
  OBVIOUS
<1>1. Abstract!Answer(s, m)
  <2>1. CASE Deliver(s)
    BY <1>0, <2>1, GrantMaps DEF Abstract!Answer
  <2>2. CASE RefuseGrant(s) \/ (ServeGrant(s) /\ Msg(s).object = "malformed")
    BY <1>0, <2>2, FailMaps DEF Abstract!Answer
  <2>3. CASE ServeRevoke(s)
    BY <1>0, <2>3, RevokeMaps DEF Abstract!Answer
  <2>4. CASE ServeForged(s)
    BY <1>0, <2>4, ForgedMaps DEF Abstract!Answer
  <2>5. CASE DataStep(s)
    BY <1>0, <2>5, DataMaps DEF Abstract!Answer
  <2> QED
    BY <2>1, <2>2, <2>3, <2>4, <2>5, Zenon DEF AnswerStep, DataStep
<1>2. m \in [u \in Services |-> Pending(u)][s]
  <2>1. Msg(s) # NoMessage
    <3>1. PICK status, next : AnswersWith(s, status, next)
      BY AnswerShape DEF Answers
    <3> QED
      BY <3>1, AnswerEffect, TypeFacts DEF IInv
  <2> QED
    BY <1>0, <2>1, PendingFacts
<1>3. \E c \in [u \in Services |-> Pending(u)][s] : Abstract!Answer(s, c)
  BY <1>1, <1>2
<1>4. \E u \in Services : \E c \in [w \in Services |-> Pending(w)][u] : Abstract!Answer(u, c)
  BY <1>3
<1> QED
  BY <1>4 DEF Abstract!Next

-----------------------------------------------------------------------------
(* The steps that answer nobody.                                           *)

(* A call is asked when it is made.                                        *)
LEMMA CallStepMaps ==
  ASSUME IInv, NEW t \in Threads, CallStep(t)
  PROVE  Abstract!Next
<1>1. PICK s \in Services, m \in Messages : IsNewCall(t, s, m)
  BY CallEffect
<1>2. /\ m.from = t /\ ~Waits(t) /\ <<s, m.badge>> \in caps[t]
      /\ queue' = [queue EXCEPT ![s] = Append(queue[s], m)]
      /\ thread'[t].reply = "waiting" /\ \A u \in Threads \ {t} : thread'[u] = thread[u]
  BY <1>1 DEF IsNewCall
<1>3. hart = Nobody /\ hart' = hart /\ caps' = caps
  BY CallEffect, CallShape
  DEF Calling, CallStep, Register, UpstreamContinues, HandleUpstream, ClientCalls,
      ClientContinues, At, Free
<1>4. /\ \A u \in Services : svc'[u].received = svc[u].received
      /\ \A u \in Services :
           \/ svc'[u] = svc[u]
           \/ /\ svc[u].pc \in {"register", "handle"} /\ svc'[u].pc \in {"registering", "upstream"}
              /\ SameBut(svc'[u], svc[u])
  BY CallEffect, GoingEffect DEF IInv
<1>5. \A u \in Services : Issued(u)' = Issued(u)
  BY <1>4 DEF Issued, SameBut
<1>6. Unclaimed' = Unclaimed
  BY <1>4 DEF Unclaimed, SameBut
<1>7. [u \in Services |-> Pending(u)]' =
        [[u \in Services |-> Pending(u)] EXCEPT ![s] = Pending(s) \cup {m}]
  <2>1. queue \in [Services -> Seq(Messages)]
    BY TypeFacts DEF IInv
  <2>2. Range(queue'[s]) = Range(queue[s]) \cup {m}
    <3>1. queue'[s] = Append(queue[s], m) /\ queue[s] \in Seq(Messages)
      BY <1>2, <2>1
    <3>2. /\ DOMAIN Append(queue[s], m) = DOMAIN queue[s] \cup {Len(queue[s]) + 1}
          /\ Append(queue[s], m)[Len(queue[s]) + 1] = m
          /\ \A k \in DOMAIN queue[s] : Append(queue[s], m)[k] = queue[s][k]
      BY <3>1
    <3> QED
      BY <3>1, <3>2 DEF Range
  <2>3. \A u \in Services \ {s} : queue'[u] = queue[u]
    BY <1>2, <2>1
  <2>4. Pending(s)' = Pending(s) \cup {m} /\ \A u \in Services \ {s} : Pending(u)' = Pending(u)
    BY <1>4, <2>2, <2>3 DEF Pending, Msg
  <2> QED
    BY <2>4
<1>8. [u \in Threads |-> thread[u].reply]' =
        [[u \in Threads |-> thread[u].reply] EXCEPT ![t] = "waiting"]
  BY <1>2
<1>9. (hart # Nobody)' = (hart # Nobody)
  BY <1>3
<1>10. Abstract!Ask(t, s, m)
  BY <1>2, <1>3, <1>5, <1>6, <1>7, <1>8, <1>9 DEF Abstract!Ask, Waits, Unclaimed
<1>11. m \in [u \in Services |-> Pending(u)]'[s]
  BY <1>7
<1> QED
  BY <1>10, <1>11 DEF Abstract!Next, Abstract!Threads, Threads

(* A service that receives, mints, forgets a slot or begins to handle.     *)
LEMMA SilentMaps ==
  ASSUME IInv, NEW s \in Services, Recv(s) \/ (InnerStep(s) /\ ~FirstGrantFails(s))
  PROVE  UNCHANGED Abstract!vars
<1>1. /\ svc \in [Services -> States] /\ queue \in [Services -> Seq(Messages)]
      /\ TypeOK /\ svc[s].ledger \in Seq({"live", "revoked"}) /\ GrantingOf(s)
  BY TypeFacts DEF IInv, States, Granting
<1>2. hart' = hart /\ caps' = caps /\ thread' = thread
      /\ \A u \in Services \ {s} : svc'[u] = svc[u] /\ queue'[u] = queue[u]
  <2>1. CASE Recv(s)
    BY <2>1, RecvEffect DEF Recv
  <2>2. CASE InnerStep(s) /\ ~FirstGrantFails(s)
    BY <2>2, InnerEffect
    DEF InnerStep, Registered, Mint, Delete, TakeLastChunk, ServeGrant
  <2> QED
    BY <2>1, <2>2
<1>3. Pending(s)' = Pending(s)
  <2>1. CASE Recv(s)
    <3>1. /\ Msg(s) = NoMessage /\ Msg(s)' = Head(queue[s]) /\ Head(queue[s]) = queue[s][1]
          /\ Head(queue[s]) # NoMessage /\ queue[s] # <<>> /\ queue'[s] = Tail(queue[s])
      BY <1>1, <2>1, RecvEffect, TypeFacts DEF Msg
    <3>2. Range(queue[s]) = {queue[s][1]} \cup Range(Tail(queue[s]))
      BY <1>1, <3>1, RangeOfTail
    <3> QED
      BY <3>1, <3>2 DEF Pending
  <2>2. CASE InnerStep(s)
    BY <2>2, InnerEffect DEF Pending, Msg
  <2> QED
    BY <2>1, <2>2
<1>4. Issued(s)' = Issued(s) /\ (s \in Unclaimed <=> s \in Unclaimed')
  <2>1. CASE Recv(s)
    BY <2>1, RecvEffect DEF Issued, Unclaimed
  <2>2. CASE Mint(s)
    <3>1. /\ svc[s].pc = "mint" /\ svc'[s].pc = "deliver" /\ svc'[s].phase = svc[s].phase
          /\ svc'[s].ledger = Append(svc[s].ledger, "live")
          /\ Len(svc'[s].ledger) = Len(svc[s].ledger) + 1
      BY <1>1, <2>2, MintEffect
    <3>2. SubSeq(svc'[s].ledger, 1, Len(svc'[s].ledger) - 1) = svc[s].ledger
      BY <1>1, <3>1, FrontOfAppend
    <3> QED
      BY <3>1, <3>2 DEF Issued, Unclaimed
  <2>3. CASE Delete(s)
    BY <1>1, <2>3, DeleteEffect DEF Issued, Unclaimed
  <2>4. ASSUME NEW p \in {"recv", "handle", "mint"}, Going(s, p),
               svc[s].pc \in {"registering", "serve"}
        PROVE  Issued(s)' = Issued(s) /\ (s \in Unclaimed <=> s \in Unclaimed')
    BY <1>1, <2>4, GoingEffect DEF Issued, Unclaimed, SameBut
  <2>5. CASE svc' = svc
    BY <2>5 DEF Issued, Unclaimed
  <2> QED
    BY <2>1, <2>2, <2>3, <2>4, <2>5, InnerMoves
<1>5. [u \in Services |-> Pending(u)]' = [u \in Services |-> Pending(u)]
  BY <1>2, <1>3 DEF Pending, Msg
<1>6. [u \in Services |-> Issued(u)]' = [u \in Services |-> Issued(u)]
  BY <1>2, <1>4 DEF Issued
<1>7. Unclaimed' = Unclaimed
  BY <1>2, <1>4 DEF Unclaimed
<1> QED
  BY <1>2, <1>5, <1>6, <1>7 DEF Abstract!vars, Unclaimed

(* A program that spins, and the clients' steps that call nobody.          *)
LEMMA StopMaps ==
  ASSUME hart = Nobody, hart' # Nobody, UNCHANGED <<svc, queue, caps>>,
         \A t \in Threads : thread'[t].reply = thread[t].reply
  PROVE  Abstract!Next
<1>1. (hart # Nobody)' = TRUE /\ ~(hart # Nobody)
  OBVIOUS
<1>2. /\ [u \in Services |-> Pending(u)]' = [u \in Services |-> Pending(u)]
      /\ [u \in Services |-> Issued(u)]' = [u \in Services |-> Issued(u)]
      /\ Unclaimed' = Unclaimed
      /\ [t \in Threads |-> thread[t].reply]' = [t \in Threads |-> thread[t].reply]
  BY DEF Pending, Issued, Unclaimed, Msg
<1>3. Abstract!Stop
  BY <1>1, <1>2 DEF Abstract!Stop, Unclaimed
<1> QED
  BY <1>3 DEF Abstract!Next

LEMMA IdleStepMaps ==
  ASSUME IInv, NEW c \in Clients, IdleStep(c)
  PROVE  Abstract!Next
<1>1. thread \in [Threads -> Calls] /\ c \in Threads /\ Nobody \notin Threads
      /\ script \in [Clients -> Seq(Ops)]
  BY TypeFacts DEF IInv, TypeOK
<1>2. UNCHANGED <<svc, queue>> /\ ~Waits(c) /\ hart = Nobody
  BY IdleEffect DEF IdleStep, ClientRefused, ClientStops, PassOn, SignalAndSpin, Free
<1>3. /\ [u \in Services |-> Pending(u)]' = [u \in Services |-> Pending(u)]
      /\ [u \in Services |-> Issued(u)]' = [u \in Services |-> Issued(u)]
      /\ Unclaimed' = Unclaimed
  BY <1>2 DEF Pending, Issued, Unclaimed, Msg
<1>4. ASSUME NEW status \in {"none", "ERROR"}, NEW matched, UNCHANGED <<caps, hart>>,
             thread' = [thread EXCEPT ![c].reply = status, ![c].matched = matched]
      PROVE  Abstract!Next
  <2>1. [t \in Threads |-> thread[t].reply]' =
          [[t \in Threads |-> thread[t].reply] EXCEPT ![c] = status]
    BY <1>1, <1>4 DEF Calls
  <2>2. thread[c].reply # "waiting" /\ (hart # Nobody)' = (hart # Nobody)
    BY <1>2, <1>4 DEF Waits
  <2>3. Abstract!Settle(c, status)
    BY <1>1, <1>2, <1>3, <1>4, <2>1, <2>2 DEF Abstract!Settle, Unclaimed
  <2> QED
    BY <1>1, <2>3 DEF Abstract!Next, Abstract!Threads, Threads
<1>5. CASE ClientRefused(c)
  BY <1>4, <1>5 DEF ClientRefused
<1>6. CASE ClientStops(c)
  BY <1>4, <1>6 DEF ClientStops
<1>7. CASE PassOn(c)
  <2>1. Op(c).to \in Threads
    <3>1. script[c] # <<>> /\ script[c] \in Seq(Ops)
      BY <1>1, <1>7 DEF PassOn, Free
    <3>2. Op(c) \in Ops
      BY <3>1 DEF Op
    <3> QED
      BY <3>2 DEF Ops
  <2>2. PICK u \in Threads : u = Op(c).to
    BY <2>1
  <2>3. /\ caps' = [caps EXCEPT ![u] = @ \cup (caps[c] \cap (Services \X (1..MaxBadges)))]
        /\ thread' = thread /\ hart' = hart
    BY <1>7, <2>2 DEF PassOn, Minted
  <2>4. (hart # Nobody)' = (hart # Nobody)
    BY <2>3
  <2>5. Abstract!PassOn(c, u)
    BY <1>2, <1>3, <2>3, <2>4 DEF Abstract!PassOn, Unclaimed
  <2> QED
    BY <1>1, <2>5 DEF Abstract!Next, Abstract!Threads, Threads
<1>8. CASE SignalAndSpin(c)
  <2>1. /\ hart' = c /\ caps' = caps
        /\ thread' = [thread EXCEPT ![c].matched = StillMatches(c)]
    BY <1>8 DEF SignalAndSpin
  <2>2. \A t \in Threads : thread'[t].reply = thread[t].reply
    BY <1>1, <2>1 DEF Calls
  <2> QED
    BY <1>1, <1>2, <2>1, <2>2, StopMaps
<1> QED
  BY <1>5, <1>6, <1>7, <1>8 DEF IdleStep

-----------------------------------------------------------------------------
(* The refinement.                                                         *)

LEMMA InitMaps ==
  ASSUME Init
  PROVE  Abstract!Init
<1>1. IInv
  BY InitIInv
<1>2. caps \in [Threads -> SUBSET (Services \X (0..GRANTER_BADGE))] /\ hart = Nobody
  BY <1>1 DEF IInv, TypeOK, Badges, Init
<1>3. ASSUME NEW s \in Services
      PROVE  /\ svc[s].received = NoMessage /\ svc[s].ledger = <<>> /\ queue[s] = <<>>
             /\ svc[s].phase = FirstPhase(s) /\ svc[s].pc \notin {"deliver", "delete"}
  BY DEF Init, Started
<1>4. [s \in Services |-> Pending(s)] = [s \in Services |-> {}]
  <2>1. ASSUME NEW s \in Services
        PROVE  Pending(s) = {}
    <3>1. DOMAIN queue[s] = {} /\ Msg(s) = NoMessage
      BY <1>3 DEF Msg
    <3> QED
      BY <3>1 DEF Pending, Range
  <2> QED
    BY <2>1
<1>5. [s \in Services |-> Issued(s)] = [s \in Services |-> <<>>]
  BY <1>3 DEF Issued
<1>6. [t \in Threads |-> thread[t].reply] = [t \in Threads |-> "none"]
  BY DEF Init, NoCall
<1>7. Unclaimed = Services \ BinderLaunched
  BY <1>3 DEF Unclaimed, FirstPhase
<1>8. (hart # Nobody) = FALSE
  BY <1>2
<1> QED
  BY <1>2, <1>4, <1>5, <1>6, <1>7, <1>8
  DEF Abstract!Init, Abstract!Threads, Threads, Abstract!GRANTER_BADGE, GRANTER_BADGE,
      Unclaimed

(* To their callers the services are one table of badges, consulted once   *)
(* for each call: for any number of services, of callers and of badges.    *)
THEOREM ServiceIsImplemented ==
  Spec => ImplementsService
<1>1. IInv /\ [Next]_vars => [Abstract!Next]_(Abstract!vars)
  <2>1. SUFFICES ASSUME IInv, [Next]_vars
        PROVE  [Abstract!Next]_(Abstract!vars)
    OBVIOUS
  <2>2. ASSUME NEW s \in Services, AnswerStep(s)
        PROVE  Abstract!Next
    BY <2>1, <2>2, AnswerStepMaps
  <2>3. ASSUME NEW s \in Services, Recv(s) \/ (InnerStep(s) /\ ~FirstGrantFails(s))
        PROVE  UNCHANGED Abstract!vars
    BY <2>1, <2>3, SilentMaps
  <2>4. ASSUME NEW s \in Services, FirstGrantFails(s)
        PROVE  Abstract!Next
    <3>1. hart = Nobody /\ hart' = s /\ UNCHANGED <<svc, queue, thread, caps>>
      BY <2>4 DEF FirstGrantFails, GrantFails, GiveUp, At
    <3>2. s # Nobody
      BY ServicesAssumption DEF Threads
    <3> QED
      BY <3>1, <3>2, StopMaps
  <2>5. ASSUME NEW t \in Threads, CallStep(t)
        PROVE  Abstract!Next
    BY <2>1, <2>5, CallStepMaps
  <2>6. ASSUME NEW c \in Clients, IdleStep(c)
        PROVE  Abstract!Next
    BY <2>1, <2>6, IdleStepMaps
  <2>7. CASE UNCHANGED vars
    <3>1. svc' = svc /\ queue' = queue /\ thread' = thread /\ caps' = caps /\ hart' = hart
      BY <2>7 DEF vars
    <3> QED
      BY <3>1 DEF Abstract!vars, Pending, Issued, Msg
  <2> QED
    BY <2>1, <2>2, <2>3, <2>4, <2>5, <2>6, <2>7, StepCases
<1> QED
  BY <1>1, InitMaps, Invariance, PTL DEF Spec, Abstract!Spec, ImplementsService
=============================================================================
