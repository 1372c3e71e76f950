------------------------------ MODULE IpcBench ------------------------------
(***************************************************************************)
(* The IPC benchmark: the two halves of hello-service, boot_trap_handler,  *)
(* which times the round trips between them, and the fault its comments    *)
(* describe: a Call made right after a Reply resumed its thread may be     *)
(* dropped.  An action is one trap.                                        *)
(***************************************************************************)
EXTENDS DirectSwitch

CONSTANTS
  client, server, endpoint,
  BENCH_ROUND_TRIPS, BENCH_SAFETY_MARGIN,
  MaxLost,        \* Calls the kernel drops in one run
  ClockModulus,   \* values of the cycle counter
  MaxCycles       \* cycles from one trap to the next

ASSUME BenchAssumption ==
  /\ Threads = {client, server} /\ client # server /\ Endpoints = {endpoint}
  /\ BENCH_ROUND_TRIPS \in Nat \ {0} /\ BENCH_SAFETY_MARGIN \in Nat /\ MaxLost \in Nat
  /\ MaxCycles \in Nat \ {0} /\ ClockModulus \in Nat /\ ClockModulus > 3 * MaxCycles

VARIABLES
  left,     \* iterations each half has still to begin, or is in
  replies,  \* the server is between its recv and its reply
  bench,    \* BENCH; one counter stands for cycle and instret
  clock,    \* the cycle counter
  fresh,    \* the client runs because a Reply resumed it
  lost,     \* Calls dropped
  since,    \* history: cycles since the trap of the Call now served
  trips     \* history: cycles of each timed round trip

vars == <<kernel, left, replies, bench, clock, fresh, lost, since, trips>>

(* for _ in 0..=(BENCH_ROUND_TRIPS + BENCH_SAFETY_MARGIN), in both halves. *)
(* Mutant: .. instead of ..=.                                              *)
OneFewer == BENCH_ROUND_TRIPS + BENCH_SAFETY_MARGIN
Attempts == BENCH_ROUND_TRIPS + BENCH_SAFETY_MARGIN + 1

(* loader::run enters the client; the server is ready.                     *)
First == client

Init ==
  /\ Entered(First, <<CHOOSE t \in Threads : t # First>>)
  /\ left = [t \in Threads |-> Attempts] /\ replies = FALSE
  /\ bench = [start |-> 0, completed |-> 0, done |-> FALSE,
              sum |-> 0, min |-> ClockModulus - 1, max |-> 0]
  /\ clock \in 0..(ClockModulus - 1)
  /\ fresh = FALSE /\ lost = 0 /\ since = 0 /\ trips = <<>>

Began(t) == left' = [left EXCEPT ![t] = @ - 1]
Ticks(d) == clock' = (clock + d) % ClockModulus

(* The Call trap: the start of the round trip, before the dispatch.        *)
(* Mutant: only if no Call was waiting for its Reply.                      *)
StartKept == IF fresh \/ bench.start = 0 THEN clock' ELSE bench.start
Start == clock'
CallTrap ==
  /\ left[client] > 0
  /\ \E d \in 1..MaxCycles : Ticks(d)
  /\ bench' = [bench EXCEPT !.start = Start]
  /\ Began(client)
  /\ \/ Call(client, endpoint) /\ since' = 0 /\ UNCHANGED lost
     \/ fresh /\ lost < MaxLost /\ GoesOn(client) /\ lost' = lost + 1 /\ UNCHANGED since
  /\ fresh' = FALSE
  /\ UNCHANGED <<replies, trips>>

RecvTrap ==
  /\ left[server] > 0 /\ ~replies
  /\ Recv(server, endpoint)
  /\ replies' = TRUE
  /\ \E d \in 1..MaxCycles : Ticks(d) /\ since' = since + d
  /\ UNCHANGED <<left, bench, fresh, lost, trips>>

(* The Reply trap, after the dispatch: the warm-up counts and is not       *)
(* timed, what comes after the target is ignored.                          *)
WarmingUp == bench.completed = 0
Cycles == (clock' + ClockModulus - bench.start) % ClockModulus
Smaller(a, b) == IF a < b THEN a ELSE b
Larger(a, b) == IF a > b THEN a ELSE b
Timed(b, cycles) ==
  [b EXCEPT !.sum = @ + cycles, !.min = Smaller(@, cycles), !.max = Larger(@, cycles)]
Counted(b) ==
  [b EXCEPT !.completed = @ + 1, !.done = b.completed + 1 = BENCH_ROUND_TRIPS + 1]
Counts == ~bench.done
ReplyTrap ==
  /\ replies /\ Reply(server)
  /\ \E d \in 1..MaxCycles :
       /\ Ticks(d) /\ since' = since + d
       /\ trips' = IF Counts /\ ~WarmingUp THEN Append(trips, since + d) ELSE trips
  /\ bench' = IF ~Counts THEN bench
              ELSE IF WarmingUp THEN Counted(bench) ELSE Counted(Timed(bench, Cycles))
  /\ replies' = FALSE /\ Began(server) /\ fresh' = TRUE
  /\ UNCHANGED lost

Next == CallTrap \/ RecvTrap \/ ReplyTrap
Spec == Init /\ [][Next]_vars /\ WF_vars(Next)
-----------------------------------------------------------------------------
BenchType ==
  [start : 0..(ClockModulus - 1), completed : 0..(BENCH_ROUND_TRIPS + 1), done : BOOLEAN,
   sum : Nat, min : 0..(ClockModulus - 1), max : 0..(ClockModulus - 1)]
TypeOK ==
  /\ KernelTypeOK
  /\ left \in [Threads -> 0..Attempts] /\ replies \in BOOLEAN
  /\ bench \in BenchType
  /\ clock \in 0..(ClockModulus - 1) /\ fresh \in BOOLEAN /\ lost \in 0..MaxLost
  /\ since \in Nat /\ trips \in Seq(Nat)

(* By way of the sums after each round trip.                               *)
IsTotal(total, s) ==
  \E sums \in [DOMAIN s -> 0..total] :
    /\ \A k \in DOMAIN s : sums[k] = s[k] + (IF k = 1 THEN 0 ELSE sums[k - 1])
    /\ total = IF s = <<>> THEN 0 ELSE sums[Len(s)]

(* The summary is of exactly BENCH_ROUND_TRIPS round trips, each from its  *)
(* own Call to its Reply: neither the warm-up, nor one after the target,   *)
(* nor one that begins with the start of a dropped Call, and whether or    *)
(* not the counter wrapped on the way.                                     *)
SummaryIsOfTheTrips ==
  bench.done =>
    /\ Len(trips) = BENCH_ROUND_TRIPS
    /\ IsTotal(bench.sum, trips)
    /\ \A k \in DOMAIN trips : bench.min <= trips[k] /\ trips[k] <= bench.max
    /\ \E j, k \in DOMAIN trips : bench.min = trips[j] /\ bench.max = trips[k]

(* The margin absorbs what is lost: the summary is printed and the client  *)
(* comes to its end, with at most BENCH_SAFETY_MARGIN Calls dropped.       *)
BenchmarkCompletes == <>(bench.done /\ running = client /\ left[client] = 0)
=============================================================================
