------------------------------ MODULE Narration ------------------------------
(***************************************************************************)
(* The four demos whose programs are all in the repository, run from       *)
(* enter_first_thread to the client's verdict, and what their trap         *)
(* handlers print of it.  A handler sees the number of a system call       *)
(* before the kernel dispatches it, and after it the frame of whichever    *)
(* thread goes on.  An action is one system call; the kernel may refuse    *)
(* some without a reason the program can know.                             *)
(***************************************************************************)
EXTENDS DirectSwitch

CONSTANTS MaxRefused   \* system calls refused for no reason, in one run

ASSUME NarrationAssumption ==
  /\ Threads = {"client", "service", "store"} /\ Endpoints = {"service", "store"}
  /\ MaxRefused \in Nat

(* The programs: at each step a system call, the endpoint or capability it *)
(* names, and the step that follows when it succeeds and when it fails.    *)
(* Step 0 spins.  Register is a Call with a slot for the capability in the *)
(* Reply, Ask one without, Request one under the badge granted before;     *)
(* Grant is a Reply with a capability, Answer one without.                 *)
At(sys, at, then, orElse) == [sys |-> sys, at |-> at, then |-> then, orElse |-> orElse]
Spin == At("Spin", "none", 0, 0)

BrokerClient == <<At("Register", "service", 2, 2), At("Signal", "DEST", 0, 0)>>
BrokerService ==
  <<At("Recv", "service", 2, 2), At("Mint", "none", 3, 0), At("Grant", "none", 0, 0)>>
FrameClient ==
  <<At("Ask", "service", 2, 3), At("Signal", "SUCCESS", 0, 0), At("Signal", "FAILURE", 0, 0)>>
FrameService == <<At("Recv", "service", 2, 0), At("Answer", "none", 0, 0)>>
RoundTripClient(endpoint) ==
  <<At("Register", endpoint, 2, 2), At("Request", endpoint, 3, 5), At("Request", endpoint, 4, 5),
    At("Signal", "SUCCESS", 0, 0), At("Signal", "FAILURE", 0, 0)>>
KeystoreClient == RoundTripClient("service")
StoreClient == RoundTripClient("store")
KeystoreService ==
  <<At("Recv", "service", 2, 2), At("Mint", "none", 3, 0), At("Grant", "none", 4, 0),
    At("Delete", "none", 5, 5), At("Recv", "service", 6, 5), At("Answer", "none", 5, 5)>>
StoreService ==
  <<At("Register", "service", 2, 2), At("Recv", "store", 3, 3), At("Mint", "none", 4, 0),
    At("Grant", "none", 5, 0), At("Delete", "none", 6, 6), At("Recv", "store", 7, 6),
    At("Request", "service", 8, 8), At("Answer", "none", 6, 6)>>

Pair(client, service) == [client |-> client, service |-> service, store |-> <<>>]
Programs ==
  [broker |-> Pair(BrokerClient, BrokerService), frame |-> Pair(FrameClient, FrameService),
   keystore |-> Pair(KeystoreClient, KeystoreService),
   store |-> [client |-> StoreClient, service |-> KeystoreService, store |-> StoreService]]
(* Mutant: the store's thread is never queued.                             *)
ReadyButStore(d) == <<"service">>
ReadyFirst(d) == IF d = "store" THEN <<"service", "store">> ELSE <<"service">>

VARIABLES
  demo,     \* which of them was linked in
  pc,       \* the step each program is at
  good,     \* the last answer a program got to an Ask or a Request was OK
  minted,   \* the programs with something in their scratch slot
  granted,  \* by endpoint, the programs a capability was granted to
  failed,   \* the threads whose frame carries the error tag
  refused,  \* the steps that were refused for no reason
  line,     \* what the handler printed last
  did,      \* history: what that system call was, and how it went
  verdict   \* what the client has signalled

data == <<good, minted, granted>>
vars == <<demo, kernel, pc, data, failed, refused, line, did, verdict>>

Nothing == [sys |-> "none", ok |-> TRUE]
Init ==
  /\ demo \in DOMAIN Programs
  /\ Entered("client", ReadyFirst(demo))
  /\ pc = [t \in Threads |-> 1]
  /\ good = [t \in Threads |-> TRUE] /\ minted = {}
  /\ granted = [e \in Endpoints |-> {}]
  /\ failed = {} /\ refused = {} /\ line = Nothing /\ did = Nothing /\ verdict = "none"

Step(t) == IF pc[t] = 0 THEN Spin ELSE Programs[demo][t][pc[t]]
-----------------------------------------------------------------------------
(* The handler, once the kernel has dispatched: the frame is now the one   *)
(* of the thread that goes on.  If none does, it never comes back.         *)
Number(sys) ==
  CASE sys \in {"Register", "Ask", "Request"} -> "Call"
    [] sys = "Recv" -> "Recv"
    [] sys \in {"Mint", "Delete"} -> "CNodeInvoke"
    [] sys \in {"Grant", "Answer"} -> "Reply"
    [] sys = "Signal" -> "Signal"
Narrates(t, ok) ==
  IF running' = Nobody THEN UNCHANGED <<line, did>>
  ELSE /\ line' = [sys |-> Number(Step(t).sys), ok |-> running' \notin failed']
       /\ did' = [sys |-> Step(t).sys, ok |-> ok]

(* It went through, or it is still to come.                                *)
Done(t) ==
  /\ failed' = failed \ {t} /\ Narrates(t, TRUE)
  /\ UNCHANGED <<demo, refused>>
Blocked(t) ==
  /\ failed' = failed \ {t} /\ Narrates(t, FALSE)
  /\ UNCHANGED <<demo, refused>>

(* What a program makes of an answer.                                      *)
(* Mutant: whatever the status was.                                        *)
IgnoreStatus(step, ok) == step.then
Onward(step, ok) == IF ok THEN step.then ELSE step.orElse

(* A call the kernel has reason to refuse.                                 *)
Cause(t) ==
  \/ Step(t).sys = "Request" /\ t \notin granted[Step(t).at]
  \/ Step(t).sys = "Mint" /\ t \in minted
  \/ Step(t).sys = "Grant" /\ (t \notin minted \/ owed[t] = Nobody)
  \/ Step(t).sys = "Answer" /\ owed[t] = Nobody
  \/ Step(t).sys = "Signal" /\ Step(t).at = "DEST" /\ t \notin granted["service"]
On(t, names) == running = t /\ Step(t).sys \in names

Refuse(t) ==
  /\ running = t /\ pc[t] # 0
  /\ \/ Cause(t) /\ UNCHANGED refused
     \/ /\ ~Cause(t) /\ <<t, pc[t]>> \notin refused /\ Cardinality(refused) < MaxRefused
        /\ refused' = refused \cup {<<t, pc[t]>>}
  /\ GoesOn(t)
  /\ pc' = [pc EXCEPT ![t] = Onward(Step(t), FALSE)]
  /\ good' = IF Step(t).sys \in {"Ask", "Request"} THEN [good EXCEPT ![t] = FALSE] ELSE good
  /\ failed' = failed \cup {t} /\ Narrates(t, FALSE)
  /\ UNCHANGED <<demo, minted, granted, verdict>>

-----------------------------------------------------------------------------
(* A Call goes on at its step when it is answered.                         *)
DoCall(t) ==
  /\ On(t, {"Register", "Ask", "Request"}) /\ ~Cause(t)
  /\ Call(t, Step(t).at)
  /\ Blocked(t)
  /\ UNCHANGED <<pc, data, verdict>>

DoRecv(t) ==
  /\ On(t, {"Recv"})
  /\ Recv(t, Step(t).at)
  /\ pc' = [pc EXCEPT ![t] = Step(t).then]
  /\ IF running' = t THEN Done(t) ELSE Blocked(t)
  /\ UNCHANGED <<data, verdict>>

DoMint(t) ==
  /\ On(t, {"Mint"}) /\ ~Cause(t)
  /\ GoesOn(t)
  /\ minted' = minted \cup {t}
  /\ pc' = [pc EXCEPT ![t] = Step(t).then]
  /\ Done(t)
  /\ UNCHANGED <<good, granted, verdict>>
DoDelete(t) ==
  /\ On(t, {"Delete"})
  /\ GoesOn(t)
  /\ minted' = minted \ {t}
  /\ pc' = [pc EXCEPT ![t] = Step(t).then]
  /\ Done(t)
  /\ UNCHANGED <<good, granted, verdict>>

(* The capability in the Reply is for the replier's own endpoint, or, from *)
(* the broker, its notification.                                           *)
DoGrant(t) ==
  /\ On(t, {"Grant"}) /\ ~Cause(t)
  /\ Reply(t)
  /\ granted' = [granted EXCEPT ![t] = @ \cup {owed[t]}]
  /\ pc' = [pc EXCEPT ![t] = Step(t).then, ![owed[t]] = Step(owed[t]).then]
  /\ Done(t)
  /\ UNCHANGED <<good, minted, verdict>>

(* The status is that of the upstream call, where there is one.            *)
DoAnswer(t) ==
  /\ On(t, {"Answer"}) /\ ~Cause(t)
  /\ Reply(t)
  /\ good' = [good EXCEPT ![owed[t]] = good[t]]
  /\ pc' = [pc EXCEPT ![t] = Step(t).then, ![owed[t]] = Onward(Step(owed[t]), good[t])]
  /\ Done(t)
  /\ UNCHANGED <<minted, granted, verdict>>

DoSignal(t) ==
  /\ On(t, {"Signal"}) /\ ~Cause(t)
  /\ GoesOn(t)
  /\ verdict' = IF Step(t).at = "FAILURE" THEN "FAILURE" ELSE "SUCCESS"
  /\ pc' = [pc EXCEPT ![t] = Step(t).then]
  /\ Done(t)
  /\ UNCHANGED data

ThreadStep(t) ==
  \/ Refuse(t) \/ DoCall(t) \/ DoRecv(t) \/ DoMint(t) \/ DoDelete(t)
  \/ DoGrant(t) \/ DoAnswer(t) \/ DoSignal(t)
Next == \E t \in Threads : ThreadStep(t)
Spec == Init /\ [][Next]_vars /\ WF_vars(Next)
-----------------------------------------------------------------------------

(* "`frame.tag().is_error()` post-dispatch is a faithful read of what      *)
(* actually happened" (broker_demo/main.rs:70), for every call but Call:   *)
(* in the demos of two programs no Recv hands the hart over, and a Reply   *)
(* resumes a thread without an error, whatever was refused before.         *)
NarrationIsFaithful ==
  line.sys # "Call" /\ demo # "store" => line.ok = did.ok

(* The steps whose failure the programs shrug off: a slot that is not      *)
(* emptied, and a Recv that is tried again.                                *)
Harmless ==
  {s \in refused :
     LET step == Programs[demo][s[1]][s[2]]
     IN  step.sys = "Delete" \/ (step.sys = "Recv" /\ step.orElse = s[2])}

(* The verdict SUCCESS is printed only when every step of every program on *)
(* the way to it went through, however far from the client it failed.      *)
SuccessIsEarned == verdict = "SUCCESS" => refused \subseteq Harmless

(* And then it is printed: no program waits for one that spins or has not  *)
(* run, though only a system call ever gives the hart to another.          *)
VerdictComes == <>(verdict = "SUCCESS" \/ ~(refused \subseteq Harmless))

(* "`CNodeInvoke` additionally narrates here (the live `Broker::mint`)"    *)
(* (keystore_demo/main.rs:64): what the log calls a mint is one.           *)
MintLinesAreMints == line.sys = "CNodeInvoke" => did.sys = "Mint"
=============================================================================
