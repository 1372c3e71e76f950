--------------------------- MODULE AbstractService ---------------------------
(***************************************************************************)
(* What keystore-service and store-service promise those who call them: a  *)
(* call that was made is answered in one step, by what the service's table *)
(* of badges says at that moment.  There is no queue, no phase of a grant, *)
(* no exchange of chunks, no scratch slot and no second service behind.    *)
(***************************************************************************)
EXTENDS Naturals, Sequences

CONSTANTS Services, Clients, Nobody, BinderLaunched, MaxBadges

Threads == Services \cup Clients
PLAIN == 0
GRANTER_BADGE == MaxBadges + 1

VARIABLES
  asked,   \* the calls each service owes an answer
  said,    \* what each thread was told last, or "waiting"
  issued,  \* the badges each service handed out, "live" or "revoked"
  holds,   \* endpoint capabilities, by thread
  unclaimed,  \* the services that give their next caller a badge
  stuck    \* a program spins and keeps the hart

vars == <<asked, said, issued, holds, unclaimed, stuck>>

Init ==
  /\ asked = [s \in Services |-> {}]
  /\ said = [t \in Threads |-> "none"]
  /\ issued = [s \in Services |-> <<>>]
  /\ holds \in [Threads -> SUBSET (Services \X (0..GRANTER_BADGE))]
  /\ unclaimed = Services \ BinderLaunched
  /\ stuck = FALSE

(* A thread calls a service, under a badge it holds.                       *)
Ask(t, s, m) ==
  /\ ~stuck /\ said[t] # "waiting"
  /\ m.from = t /\ <<s, m.badge>> \in holds[t]
  /\ asked' = [asked EXCEPT ![s] = @ \cup {m}]
  /\ said' = [said EXCEPT ![t] = "waiting"]
  /\ UNCHANGED <<issued, holds, unclaimed, stuck>>

(* Every call is answered once, and its caller told.                       *)
Tell(s, m, status) ==
  /\ ~stuck /\ m \in asked[s] /\ said[m.from] = "waiting"
  /\ asked' = [asked EXCEPT ![s] = @ \ {m}]
  /\ said' = [said EXCEPT ![m.from] = status]
  /\ UNCHANGED stuck

FromBinder(m) == m.badge = GRANTER_BADGE
Entitled(s, m) == s \in unclaimed \/ (m.label = "GRANT" /\ FromBinder(m))

(* The next badge, to whoever is entitled to one and can receive it.       *)
Grant(s, m) ==
  /\ Entitled(s, m) /\ m.slot /\ Len(issued[s]) < MaxBadges
  /\ Tell(s, m, "OK")
  /\ issued' = [issued EXCEPT ![s] = Append(@, "live")]
  /\ holds' = [holds EXCEPT ![m.from] = @ \cup {<<s, Len(issued[s]) + 1>>}]
  /\ unclaimed' = unclaimed \ {s}
(* A grant the binder asked for may fail, and may cost a badge that nobody *)
(* will ever hold.                                                         *)
FailToGrant(s, m) ==
  /\ s \notin unclaimed /\ Entitled(s, m)
  /\ Tell(s, m, "INVALID")
  /\ \/ UNCHANGED issued
     \/ /\ ~m.slot /\ Len(issued[s]) < MaxBadges
        /\ issued' = [issued EXCEPT ![s] = Append(@, "live")]
  /\ UNCHANGED <<holds, unclaimed>>

Revoke(s, m) ==
  /\ s \notin unclaimed /\ m.label = "REVOKE" /\ FromBinder(m)
  /\ IF m.n \in DOMAIN issued[s]
     THEN Tell(s, m, "OK") /\ issued' = [issued EXCEPT ![s][m.n] = "revoked"]
     ELSE Tell(s, m, "INVALID") /\ UNCHANGED issued
  /\ UNCHANGED <<holds, unclaimed>>

Forged(s, m) ==
  /\ s \notin unclaimed /\ m.label \in {"GRANT", "REVOKE"} /\ ~FromBinder(m)
  /\ Tell(s, m, "ACCESS")
  /\ UNCHANGED <<issued, holds, unclaimed>>

(* Data is given for a badge that is live now, and ACCESS said only of one *)
(* that is not; a service may always ask for more, be busy, or fail.       *)
IsLive(s, b) == b \in DOMAIN issued[s] /\ issued[s][b] = "live"
Serve(s, m, status) ==
  /\ s \notin unclaimed /\ m.label = "DATA"
  /\ status \in {"OK", "part"} => IsLive(s, m.badge)
  /\ status = "ACCESS" => ~IsLive(s, m.badge)
  /\ Tell(s, m, status)
  /\ UNCHANGED <<issued, holds, unclaimed>>
Statuses == {"OK", "part", "more", "ACCESS", "INVALID", "BUSY"}

(* Without a service: a call under a badge the thread does not hold, a     *)
(* thread that no longer wants the rest, badges passed on, the end.        *)
Settle(t, status) ==
  /\ ~stuck /\ said[t] # "waiting" /\ status \in {"none", "ERROR"}
  /\ said' = [said EXCEPT ![t] = status]
  /\ UNCHANGED <<asked, issued, holds, unclaimed, stuck>>
PassOn(t, u) ==
  /\ ~stuck
  /\ holds' = [holds EXCEPT ![u] = @ \cup (holds[t] \cap (Services \X (1..MaxBadges)))]
  /\ UNCHANGED <<asked, said, issued, unclaimed, stuck>>
Stop ==
  /\ ~stuck /\ stuck' = TRUE
  /\ UNCHANGED <<asked, said, issued, holds, unclaimed>>

Answer(s, m) ==
  \/ Grant(s, m) \/ FailToGrant(s, m) \/ Revoke(s, m) \/ Forged(s, m)
  \/ \E status \in Statuses : Serve(s, m, status)

Next ==
  \/ \E s \in Services :
       \/ \E m \in asked[s] : Answer(s, m)
       \/ \E t \in Threads : \E m \in asked'[s] : Ask(t, s, m)
  \/ \E t \in Threads, status \in {"none", "ERROR"} : Settle(t, status)
  \/ \E t, u \in Threads : PassOn(t, u)
  \/ Stop

Spec == Init /\ [][Next]_vars
=============================================================================
