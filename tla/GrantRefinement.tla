--------------------------- MODULE GrantRefinement ---------------------------
(***************************************************************************)
(* GrantService implements AbstractService: a call takes effect when it is *)
(* answered.  A badge that was minted is issued with the Reply that parts  *)
(* with it, or that says it could not be delivered.                        *)
(***************************************************************************)
EXTENDS GrantService, Functions

Pending(s) == Range(queue[s]) \cup ({Msg(s)} \ {NoMessage})
Issued(s) ==
  IF svc[s].pc = "deliver" THEN SubSeq(svc[s].ledger, 1, Len(svc[s].ledger) - 1) ELSE svc[s].ledger

Abstract == INSTANCE AbstractService WITH
  asked  <- [s \in Services |-> Pending(s)],
  said   <- [t \in Threads |-> thread[t].reply],
  issued <- [s \in Services |-> Issued(s)],
  holds  <- caps,
  unclaimed <- {s \in Services : svc[s].phase = 1 /\ svc[s].pc # "delete"},
  stuck  <- hart # Nobody

(* Whatever queues up at a service, comes between two chunks of a client,  *)
(* or fails half way: to its callers it is one table of badges, consulted  *)
(* once for each call.  Badges go to those who are entitled to them, data  *)
(* to those whose badge is live when it is given, and every answer to the  *)
(* one caller who waits for it.                                            *)
ImplementsService == Abstract!Spec
=============================================================================
