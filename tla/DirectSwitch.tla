---------------------------- MODULE DirectSwitch ----------------------------
(***************************************************************************)
(* The kernel's IPC as src/main.rs and src/broker_demo/main.rs describe    *)
(* it: one hart, and nothing that preempts.  A Call to a thread in Recv    *)
(* switches to it, a Reply switches to the caller it resumes, and only a   *)
(* thread that blocks lets the next ready one run.                         *)
(***************************************************************************)
EXTENDS Naturals, Sequences, FiniteSets

CONSTANTS Threads, Endpoints, Nobody
ASSUME ThreadsAssumption == IsFiniteSet(Threads) /\ Nobody \notin Threads

VARIABLES
  running,    \* the thread the hart executes, or Nobody
  ready,      \* the scheduler's queue
  calls,      \* by endpoint, threads in a Call that no thread has received
  listening,  \* by endpoint, threads in Recv
  owed        \* the caller a thread has received from and not answered

kernel == <<running, ready, calls, listening, owed>>

KernelTypeOK ==
  /\ running \in Threads \cup {Nobody}
  /\ ready \in Seq(Threads)
  /\ calls \in [Endpoints -> Seq(Threads)] /\ listening \in [Endpoints -> Seq(Threads)]
  /\ owed \in [Threads -> Threads \cup {Nobody}]

Entered(first, others) ==
  /\ running = first /\ ready = others
  /\ calls = [e \in Endpoints |-> <<>>] /\ listening = [e \in Endpoints |-> <<>>]
  /\ owed = [t \in Threads |-> Nobody]

(* The running thread blocks.                                              *)
Switch ==
  IF ready = <<>> THEN running' = Nobody /\ ready' = ready
  ELSE running' = Head(ready) /\ ready' = Tail(ready)

Call(t, e) ==
  /\ running = t
  /\ IF listening[e] = <<>>
     THEN /\ calls' = [calls EXCEPT ![e] = Append(@, t)] /\ Switch
          /\ UNCHANGED <<listening, owed>>
     ELSE /\ running' = Head(listening[e])
          /\ listening' = [listening EXCEPT ![e] = Tail(@)]
          /\ owed' = [owed EXCEPT ![Head(listening[e])] = t]
          /\ UNCHANGED <<ready, calls>>

Recv(t, e) ==
  /\ running = t
  /\ IF calls[e] = <<>>
     THEN /\ listening' = [listening EXCEPT ![e] = Append(@, t)] /\ Switch
          /\ UNCHANGED <<calls, owed>>
     ELSE /\ owed' = [owed EXCEPT ![t] = Head(calls[e])]
          /\ calls' = [calls EXCEPT ![e] = Tail(@)]
          /\ UNCHANGED <<running, ready, listening>>

(* Mutant: the caller is made ready, and the replier goes on.              *)
ReplyGoesOn(t) ==
  /\ running = t /\ owed[t] # Nobody
  /\ ready' = Append(ready, owed[t])
  /\ owed' = [owed EXCEPT ![t] = Nobody]
  /\ UNCHANGED <<running, calls, listening>>
Reply(t) ==
  /\ running = t /\ owed[t] # Nobody
  /\ running' = owed[t] /\ ready' = Append(ready, t)
  /\ owed' = [owed EXCEPT ![t] = Nobody]
  /\ UNCHANGED <<calls, listening>>

(* Any other system call goes back to the thread that made it; so does a   *)
(* Call of which the message is dropped (src/main.rs:75).                  *)
GoesOn(t) == running = t /\ UNCHANGED kernel
=============================================================================
