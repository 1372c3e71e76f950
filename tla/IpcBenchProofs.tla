--------------------------- MODULE IpcBenchProofs ---------------------------
(***************************************************************************)
(* Theorems about the benchmark: for every number of round trips, every    *)
(* margin, every width of the counter and every number of dropped Calls.   *)
(***************************************************************************)
EXTENDS IpcBench, Integers, SequenceTheorems, TLAPS

-----------------------------------------------------------------------------
(* The hart.  With two threads and one endpoint it is in one of three      *)
(* places: the client's, with the server ready; the server's, with a Call  *)
(* waiting; the server's, with a Reply owed.                               *)
NoCalls == [e \in Endpoints |-> <<>>]
NoDebts == [t \in Threads |-> Nobody]
Calling ==
  /\ running = client /\ ready = <<server>> /\ calls = NoCalls /\ owed = NoDebts
  /\ ~replies
Called ==
  /\ running = server /\ ready = <<>> /\ calls = [e \in Endpoints |-> <<client>>]
  /\ owed = NoDebts /\ ~replies
  /\ since = 0 /\ clock = bench.start
Serving ==
  /\ running = server /\ ready = <<>> /\ calls = NoCalls
  /\ owed = [NoDebts EXCEPT ![server] = client] /\ replies
  /\ since \in 1..MaxCycles /\ clock = (bench.start + since) % ClockModulus
HartInv == listening = NoCalls /\ (Calling \/ Called \/ Serving)

(* The counts.  The warm-up is counted and has no trip; each trip that has *)
(* one is within the extremes, which are trips themselves.                 *)
Target == BENCH_ROUND_TRIPS + 1
Timings == IF bench.completed = 0 THEN 0 ELSE bench.completed - 1
Bounded ==
  \A k \in DOMAIN trips :
    trips[k] \in 1..(2 * MaxCycles) /\ bench.min <= trips[k] /\ trips[k] <= bench.max
Attained ==
  IF trips = <<>> THEN bench.min = ClockModulus - 1 /\ bench.max = 0
  ELSE \E j, k \in DOMAIN trips : bench.min = trips[j] /\ bench.max = trips[k]
CountInv ==
  /\ bench.done = (bench.completed = Target)
  /\ Len(trips) = Timings
  /\ IsTotal(bench.sum, trips)
  /\ Bounded /\ Attained

(* The accounts.  A Reply ends an iteration of the server; a Call begins   *)
(* one of the client, and is answered, or dropped, or not yet answered.    *)
Answered == Attempts - left[server]
Begun == Attempts - left[client]
AccountInv ==
  /\ Begun = Answered + lost + (IF running = server THEN 1 ELSE 0)
  /\ bench.completed = Smaller(Answered, Target)

IInv == TypeOK /\ HartInv /\ CountInv /\ AccountInv

USE ThreadsAssumption, BenchAssumption

LEMMA TwoThreads ==
  /\ client \in Threads /\ server \in Threads /\ client # server
  /\ Nobody # client /\ Nobody # server
  /\ \A t \in Threads : t = client \/ t = server
  /\ endpoint \in Endpoints /\ \A e \in Endpoints : e = endpoint
OBVIOUS

(* What the constants allow the counter: a whole round trip, and less than *)
(* a turn of it.                                                           *)
LEMMA Constants ==
  /\ BENCH_ROUND_TRIPS \in Nat /\ BENCH_ROUND_TRIPS > 0 /\ BENCH_SAFETY_MARGIN \in Nat
  /\ MaxLost \in Nat /\ MaxCycles \in Nat /\ MaxCycles > 0
  /\ ClockModulus \in Nat /\ 2 * MaxCycles < ClockModulus - 1
  /\ Target \in Nat /\ Target > 1 /\ Attempts \in Nat /\ Attempts >= Target
BY DEF Target, Attempts

-----------------------------------------------------------------------------
(* The counter turns over at most once in a round trip, and the difference *)
(* is right all the same.                                                  *)
LEMMA Turned ==
  ASSUME NEW m \in Nat, NEW s \in 0..(m - 1), NEW x \in 0..(m - 1)
  PROVE  (s + x) % m = IF s + x < m THEN s + x ELSE s + x - m
<1>1. CASE s + x < m
  <2>1. s + x \in 0..(m - 1) /\ m > 0
    BY <1>1
  <2>2. \A y \in 0..(m - 1) : y % m = y
    BY <2>1
  <2> QED BY <1>1, <2>1, <2>2
<1>2. CASE s + x >= m
  <2>1. s + x \in m..(2 * m - 1) /\ m > 0
    BY <1>2
  <2>2. \A y \in m..(2 * m - 1) : y % m = y - m
    BY <2>1
  <2> QED BY <1>2, <2>1, <2>2
<1> QED BY <1>1, <1>2

LEMMA TurnedRange ==
  ASSUME NEW m \in Nat, NEW s \in 0..(m - 1), NEW x \in 0..(m - 1)
  PROVE  (s + x) % m \in 0..(m - 1)
BY Turned

LEMMA TurnedTwice ==
  ASSUME NEW m \in Nat, NEW s \in 0..(m - 1), NEW x \in Nat, NEW d \in Nat, x + d < m
  PROVE  (((s + x) % m) + d) % m = (s + (x + d)) % m
<1> DEFINE y == (s + x) % m
<1>1. x \in 0..(m - 1) /\ d \in 0..(m - 1) /\ x + d \in 0..(m - 1)
  OBVIOUS
<1>2. y = IF s + x < m THEN s + x ELSE s + x - m
  BY <1>1, Turned
<1>3. y \in 0..(m - 1)
  BY <1>1, TurnedRange
<1>4. (s + (x + d)) % m = IF s + (x + d) < m THEN s + (x + d) ELSE s + (x + d) - m
  BY <1>1, Turned
<1> HIDE DEF y
<1>5. (y + d) % m = IF y + d < m THEN y + d ELSE y + d - m
  BY <1>1, <1>3, Turned
<1>6. (y + d) % m = (s + (x + d)) % m
  BY <1>1, <1>2, <1>4, <1>5
<1> QED BY <1>6 DEF y

LEMMA Elapsed ==
  ASSUME NEW m \in Nat, NEW s \in 0..(m - 1), NEW x \in 0..(m - 1)
  PROVE  (((s + x) % m) + m - s) % m = x
<1> DEFINE y == (s + x) % m
<1>1. y = IF s + x < m THEN s + x ELSE s + x - m
  BY Turned
<1>2. y \in 0..(m - 1)
  BY TurnedRange
<1> HIDE DEF y
<1>3. CASE s + x < m
  <2>1. y + m - s = m + x /\ m + x \in m..(2 * m - 1) /\ m > 0
    BY <1>1, <1>3
  <2>2. \A z \in m..(2 * m - 1) : z % m = z - m
    BY <2>1
  <2> QED BY <2>1, <2>2 DEF y
<1>4. CASE s + x >= m
  <2>1. y + m - s = x /\ m > 0
    BY <1>1, <1>4
  <2>2. \A z \in 0..(m - 1) : z % m = z
    BY <2>1
  <2> QED BY <2>1, <2>2 DEF y
<1> QED BY <1>3, <1>4

-----------------------------------------------------------------------------
(* A sum grows by what is appended.                                        *)
LEMMA TotalOfNone == IsTotal(0, <<>>)
<1>1. [k \in DOMAIN <<>> |-> 0] \in [DOMAIN <<>> -> 0..0]
  OBVIOUS
<1>2. \A k \in DOMAIN <<>> : FALSE
  OBVIOUS
<1> QED BY <1>1, <1>2 DEF IsTotal

LEMMA AppendFacts ==
  ASSUME NEW s \in Seq(Nat), NEW x \in Nat
  PROVE  /\ Append(s, x) \in Seq(Nat) /\ Append(s, x) # <<>>
         /\ Len(s) \in Nat /\ Len(Append(s, x)) = Len(s) + 1
         /\ DOMAIN s = 1..Len(s) /\ DOMAIN Append(s, x) = 1..(Len(s) + 1)
         /\ \A k \in 1..Len(s) : Append(s, x)[k] = s[k]
         /\ Append(s, x)[Len(s) + 1] = x
         /\ (s = <<>>) = (Len(s) = 0)
BY AppendProperties, EmptySeq, LenProperties

LEMMA TotalGrows ==
  ASSUME NEW s \in Seq(Nat), NEW x \in Nat, NEW total \in Nat, IsTotal(total, s)
  PROVE  IsTotal(total + x, Append(s, x))
<1> DEFINE n == Len(s)
           t == Append(s, x)
<1>0. /\ t \in Seq(Nat) /\ t # <<>> /\ n \in Nat /\ Len(t) = n + 1
      /\ DOMAIN s = 1..n /\ DOMAIN t = 1..(n + 1)
      /\ \A k \in 1..n : t[k] = s[k]
      /\ t[n + 1] = x /\ (s = <<>>) = (n = 0)
  BY AppendFacts
<1>1. PICK sums \in [1..n -> 0..total] :
        /\ \A k \in 1..n : sums[k] = s[k] + (IF k = 1 THEN 0 ELSE sums[k - 1])
        /\ total = IF n = 0 THEN 0 ELSE sums[n]
  BY <1>0 DEF IsTotal
<1> DEFINE more == [k \in 1..(n + 1) |-> IF k = n + 1 THEN total + x ELSE sums[k]]
<1> HIDE DEF n, t
<1>2. more \in [1..(n + 1) -> 0..(total + x)]
  <2> SUFFICES ASSUME NEW k \in 1..(n + 1)
               PROVE  (IF k = n + 1 THEN total + x ELSE sums[k]) \in 0..(total + x)
    OBVIOUS
  <2>1. CASE k = n + 1
    BY <2>1
  <2>2. CASE k # n + 1
    <3>1. k \in 1..n
      BY <1>0, <2>2
    <3>2. sums[k] \in 0..total
      BY <1>1, <3>1
    <3> QED BY <2>2, <3>2
  <2> QED BY <2>1, <2>2
<1>3. ASSUME NEW k \in 1..(n + 1)
      PROVE  more[k] = t[k] + (IF k = 1 THEN 0 ELSE more[k - 1])
  <2>1. CASE k = n + 1
    <3>1. more[k] = total + x /\ t[k] = x
      BY <1>0, <2>1
    <3>2. CASE n = 0
      BY <1>1, <2>1, <3>1, <3>2
    <3>3. CASE n # 0
      <4>1. n \in 1..(n + 1) /\ n # n + 1 /\ k - 1 = n /\ k # 1
        BY <1>0, <2>1, <3>3
      <4>2. more[k - 1] = sums[n]
        BY <4>1
      <4> QED BY <1>1, <3>1, <3>3, <4>1, <4>2
    <3> QED BY <3>2, <3>3
  <2>2. CASE k # n + 1
    <3>1. k \in 1..n
      BY <1>0, <2>2
    <3>2. more[k] = sums[k] /\ t[k] = s[k]
      BY <1>0, <2>2, <3>1
    <3>3. sums[k] = s[k] + (IF k = 1 THEN 0 ELSE sums[k - 1])
      BY <1>1, <3>1
    <3>4. k # 1 => more[k - 1] = sums[k - 1]
      <4> SUFFICES ASSUME k # 1 PROVE more[k - 1] = sums[k - 1]
        OBVIOUS
      <4>1. k - 1 \in 1..(n + 1) /\ k - 1 # n + 1
        BY <1>0, <3>1
      <4> QED BY <4>1
    <3> QED BY <3>2, <3>3, <3>4
  <2> QED BY <2>1, <2>2
<1>4. more[n + 1] = total + x
  BY <1>0
<1> HIDE DEF more
<1>5. IsTotal(total + x, t)
  <2>1. more \in [DOMAIN t -> 0..(total + x)]
    BY <1>0, <1>2
  <2>2. \A k \in DOMAIN t : more[k] = t[k] + (IF k = 1 THEN 0 ELSE more[k - 1])
    BY <1>0, <1>3
  <2>3. total + x = IF t = <<>> THEN 0 ELSE more[Len(t)]
    BY <1>0, <1>4
  <2> QED BY <2>1, <2>2, <2>3 DEF IsTotal
<1> QED BY <1>5 DEF t

-----------------------------------------------------------------------------
(* The hart is in one of the three places, and so typed.                   *)
LEMMA HartTyped == HartInv => KernelTypeOK
<1> SUFFICES ASSUME HartInv PROVE KernelTypeOK
  OBVIOUS
<1>1. /\ <<>> \in Seq(Threads) /\ <<client>> \in Seq(Threads) /\ <<server>> \in Seq(Threads)
  BY TwoThreads
<1>2. running \in Threads \cup {Nobody} /\ ready \in Seq(Threads)
  BY <1>1, TwoThreads DEF HartInv, Calling, Called, Serving
<1>3. calls \in [Endpoints -> Seq(Threads)] /\ listening \in [Endpoints -> Seq(Threads)]
  BY <1>1 DEF HartInv, Calling, Called, Serving, NoCalls
<1>4. owed \in [Threads -> Threads \cup {Nobody}]
  BY TwoThreads DEF HartInv, Calling, Called, Serving, NoDebts
<1> QED BY <1>2, <1>3, <1>4 DEF KernelTypeOK

LEMMA Ticked ==
  ASSUME clock \in 0..(ClockModulus - 1), NEW d \in 1..MaxCycles, Ticks(d)
  PROVE  clock' \in 0..(ClockModulus - 1)
<1>1. d \in 0..(ClockModulus - 1)
  BY Constants
<1> QED BY <1>1, Constants, TurnedRange DEF Ticks

LEMMA BenchFields ==
  ASSUME TypeOK
  PROVE  /\ bench.start \in 0..(ClockModulus - 1) /\ bench.completed \in 0..Target
         /\ bench.done \in BOOLEAN /\ bench.sum \in Nat
         /\ bench.min \in 0..(ClockModulus - 1) /\ bench.max \in 0..(ClockModulus - 1)
BY DEF TypeOK, BenchType, Target

LEMMA InitHart == Init => HartInv
<1> SUFFICES ASSUME Init PROVE HartInv
  OBVIOUS
<1>1. (CHOOSE t \in Threads : t # First) = server
  BY TwoThreads DEF First
<1>2. running = client /\ ready = <<server>> /\ calls = NoCalls /\ listening = NoCalls
      /\ owed = NoDebts /\ ~replies
  BY <1>1 DEF Init, Entered, First, NoCalls, NoDebts
<1> QED BY <1>2 DEF HartInv, Calling

LEMMA InitInv == Init => IInv
<1> SUFFICES ASSUME Init PROVE IInv
  OBVIOUS
<1>1. HartInv
  BY InitHart
<1>2. bench = [start |-> 0, completed |-> 0, done |-> FALSE,
               sum |-> 0, min |-> ClockModulus - 1, max |-> 0]
      /\ trips = <<>> /\ lost = 0 /\ since = 0 /\ fresh = FALSE
      /\ left = [t \in Threads |-> Attempts] /\ replies = FALSE
      /\ clock \in 0..(ClockModulus - 1)
  BY DEF Init
<1>3. TypeOK
  <2>1. 0 \in 0..(ClockModulus - 1) /\ ClockModulus - 1 \in 0..(ClockModulus - 1)
        /\ 0 \in 0..(BENCH_ROUND_TRIPS + 1) /\ 0 \in 0..MaxLost /\ Attempts \in 0..Attempts
    BY Constants
  <2>2. left \in [Threads -> 0..Attempts]
    BY <1>2, <2>1
  <2>3. trips \in Seq(Nat)
    BY <1>2, EmptySeq
  <2>4. bench \in BenchType
    BY <1>2, <2>1 DEF BenchType
  <2> QED BY <1>1, <1>2, <2>1, <2>2, <2>3, <2>4, HartTyped DEF TypeOK
<1>4. CountInv
  <2>0. Len(<<>>) = 0 /\ \A k \in DOMAIN <<>> : FALSE
    OBVIOUS
  <2>1. Len(trips) = 0 /\ \A k \in DOMAIN trips : FALSE
    BY <1>2, <2>0
  <2>2. bench.done = (bench.completed = Target) /\ Timings = 0
    <3>1. bench.completed = 0 /\ bench.done = FALSE /\ 0 # Target
      BY <1>2, Constants
    <3> QED BY <3>1 DEF Timings
  <2>3. IsTotal(bench.sum, trips)
    BY <1>2, TotalOfNone
  <2>4. Bounded /\ Attained
    BY <1>2, <2>1 DEF Bounded, Attained
  <2> QED BY <2>1, <2>2, <2>3, <2>4 DEF CountInv
<1>5. AccountInv
  <2>1. running = client
    BY DEF Init, Entered, First
  <2>2. left[client] = Attempts /\ left[server] = Attempts
    BY <1>2, TwoThreads
  <2> QED BY <1>2, <2>1, <2>2, TwoThreads, Constants DEF AccountInv, Begun, Answered, Smaller
<1> QED BY <1>1, <1>3, <1>4, <1>5 DEF IInv

-----------------------------------------------------------------------------
(* A Call, received or dropped.                                            *)
LEMMA CallHart ==
  ASSUME TypeOK, HartInv, CallTrap
  PROVE  /\ Calling /\ HartInv'
         /\ \/ Called' /\ lost' = lost
            \/ Calling' /\ lost < MaxLost /\ lost' = lost + 1 /\ UNCHANGED since
<1>0. bench'.start = clock'
  BY DEF TypeOK, BenchType, CallTrap, Start
<1>1. running = client
  BY DEF CallTrap, Call, GoesOn
<1>2. Calling
  BY <1>1, TwoThreads DEF HartInv, Called, Serving
<1>3. CASE Call(client, endpoint) /\ since' = 0 /\ UNCHANGED lost
  <2>1. listening[endpoint] = <<>>
    BY TwoThreads DEF HartInv, NoCalls
  <2>2. /\ calls' = [calls EXCEPT ![endpoint] = Append(@, client)] /\ Switch
        /\ UNCHANGED <<listening, owed>>
    BY <1>3, <2>1 DEF Call
  <2>3. running' = server /\ ready' = <<>>
    BY <1>2, <2>2 DEF Calling, Switch
  <2>4. calls' = [e \in Endpoints |-> <<client>>]
    <3>1. Append(<<>>, client) = <<client>>
      OBVIOUS
    <3> QED BY <1>2, <2>2, <3>1, TwoThreads DEF Calling, NoCalls
  <2>5. ~replies' /\ owed' = NoDebts /\ listening' = NoCalls
    BY <1>2, <2>2 DEF Calling, CallTrap, HartInv
  <2>6. Called'
    BY <1>0, <1>3, <2>3, <2>4, <2>5 DEF Called, NoDebts
  <2> QED BY <1>2, <1>3, <2>5, <2>6 DEF HartInv, NoCalls
<1>4. CASE fresh /\ lost < MaxLost /\ GoesOn(client) /\ lost' = lost + 1 /\ UNCHANGED since
  <2>1. Calling' /\ listening' = NoCalls
    BY <1>2, <1>4 DEF Calling, CallTrap, HartInv, GoesOn, kernel, NoCalls, NoDebts
  <2> QED BY <1>2, <1>4, <2>1 DEF HartInv, NoCalls
<1> QED BY <1>3, <1>4 DEF CallTrap

LEMMA CallTyped ==
  ASSUME TypeOK, HartInv, CallTrap
  PROVE  TypeOK'
<1>1. HartInv'
  BY CallHart
<1>2. KernelTypeOK'
  <2>1. (HartInv => KernelTypeOK)'
    BY HartTyped, PTL
  <2> QED BY <1>1, <2>1
<1>3. clock' \in 0..(ClockModulus - 1)
  BY Ticked DEF CallTrap, TypeOK
<1>4. left' \in [Threads -> 0..Attempts]
  <2>1. left \in [Threads -> 0..Attempts] /\ left[client] \in 0..Attempts
    BY TwoThreads DEF TypeOK
  <2>2. left[client] - 1 \in 0..Attempts
    BY <2>1, Constants DEF CallTrap
  <2> QED BY <2>1, <2>2 DEF CallTrap, Began
<1>5. bench' \in BenchType
  BY <1>3 DEF CallTrap, TypeOK, BenchType, Start
<1>6. lost' \in 0..MaxLost /\ since' \in Nat
  <2>1. lost \in 0..MaxLost /\ since \in Nat
    BY DEF TypeOK
  <2>2. since' = 0 \/ since' = since
    BY DEF CallTrap
  <2>3. lost' = lost \/ (lost < MaxLost /\ lost' = lost + 1)
    BY Zenon DEF CallTrap
  <2>4. lost' \in 0..MaxLost
    BY <2>1, <2>3, Constants
  <2> QED BY <2>1, <2>2, <2>4
<1> QED BY <1>2, <1>3, <1>4, <1>5, <1>6 DEF TypeOK, CallTrap

(* What a Call leaves of the counts: all but where the next one starts.    *)
LEMMA CountsKept ==
  ASSUME CountInv, trips' = trips,
         bench'.completed = bench.completed, bench'.done = bench.done,
         bench'.sum = bench.sum, bench'.min = bench.min, bench'.max = bench.max
  PROVE  CountInv'
BY DEF CountInv, Timings, IsTotal, Bounded, Attained

LEMMA CallStep ==
  ASSUME IInv, CallTrap
  PROVE  IInv'
<1>1. TypeOK /\ HartInv /\ CountInv /\ AccountInv
  BY DEF IInv
<1>2. /\ Calling
      /\ HartInv'
      /\ \/ Called' /\ lost' = lost
         \/ Calling' /\ lost < MaxLost /\ lost' = lost + 1 /\ UNCHANGED since
  BY <1>1, CallHart
<1>3. TypeOK'
  BY <1>1, CallTyped
<1>4. /\ bench'.completed = bench.completed /\ bench'.done = bench.done
      /\ bench'.sum = bench.sum /\ bench'.min = bench.min /\ bench'.max = bench.max
  BY <1>1 DEF TypeOK, BenchType, CallTrap
<1>5. CountInv'
  BY <1>1, <1>4, CountsKept DEF CallTrap
<1>6. AccountInv'
  <2>1. left'[server] = left[server] /\ left'[client] = left[client] - 1
        /\ left[client] \in Nat /\ left[server] \in Nat /\ lost \in Nat
    BY <1>1, TwoThreads, Constants DEF CallTrap, Began, TypeOK
  <2>2. running = client /\ Begun = Answered + lost
    BY <1>1, <1>2, TwoThreads, Constants, <2>1 DEF AccountInv, Calling, Begun, Answered
  <2>3. Begun' = Begun + 1 /\ Answered' = Answered
    BY <2>1, Constants DEF Begun, Answered
  <2>4. Begun' = Answered' + lost' + (IF running' = server THEN 1 ELSE 0)
    <3>1. CASE Called' /\ lost' = lost
      <4>1. running' = server
        BY <3>1 DEF Called
      <4> QED BY <2>1, <2>2, <2>3, <3>1, <4>1, Constants DEF Answered
    <3>2. CASE Calling' /\ lost < MaxLost /\ lost' = lost + 1 /\ UNCHANGED since
      <4>1. running' # server
        BY <3>2, TwoThreads DEF Calling
      <4> QED BY <2>1, <2>2, <2>3, <3>2, <4>1, Constants DEF Answered
    <3> QED BY <1>2, <3>1, <3>2
  <2>5. bench'.completed = Smaller(Answered', Target)
    BY <1>1, <1>4, <2>3 DEF AccountInv
  <2> QED BY <2>4, <2>5 DEF AccountInv, Smaller
<1> QED BY <1>2, <1>3, <1>5, <1>6 DEF IInv

-----------------------------------------------------------------------------
(* A Recv: there is a Call to receive.                                     *)
LEMMA RecvHart ==
  ASSUME TypeOK, HartInv, RecvTrap
  PROVE  Called /\ Serving' /\ HartInv'
<1>1. running = server /\ ~replies
  BY DEF RecvTrap, Recv
<1>2. Called
  BY <1>1, TwoThreads DEF HartInv, Calling, Serving
<1>3. calls[endpoint] = <<client>> /\ calls = [e \in Endpoints |-> <<client>>]
  BY <1>2, TwoThreads DEF Called
<1>4. <<client>> # <<>> /\ Head(<<client>>) = client /\ Tail(<<client>>) = <<>>
  OBVIOUS
<1>5. /\ owed' = [owed EXCEPT ![server] = client]
      /\ calls' = [calls EXCEPT ![endpoint] = <<>>]
      /\ UNCHANGED <<running, ready, listening>>
  BY <1>3, <1>4 DEF RecvTrap, Recv
<1>6. owed' = [NoDebts EXCEPT ![server] = client] /\ calls' = NoCalls
  BY <1>2, <1>3, <1>5, TwoThreads DEF Called, NoCalls
<1>7. /\ bench' = bench /\ replies' = TRUE
      /\ \E d \in 1..MaxCycles : Ticks(d) /\ since' = since + d
  BY DEF RecvTrap
<1>8. since' \in 1..MaxCycles /\ clock' = (bench.start + since') % ClockModulus
  <2>1. PICK d \in 1..MaxCycles : Ticks(d) /\ since' = since + d
    BY <1>7
  <2>2. since = 0 /\ clock = bench.start
    BY <1>2 DEF Called
  <2>3. since' = d
    BY <2>1, <2>2, Constants
  <2>4. clock' = (bench.start + d) % ClockModulus
    BY <2>1, <2>2 DEF Ticks
  <2> QED BY <2>3, <2>4
<1>9. running' = server /\ ready' = <<>> /\ listening' = NoCalls
  BY <1>2, <1>5 DEF Called, HartInv
<1>10. Serving'
  BY <1>6, <1>7, <1>8, <1>9 DEF Serving, NoCalls, NoDebts
<1> QED BY <1>2, <1>9, <1>10 DEF HartInv, NoCalls

LEMMA RecvStep ==
  ASSUME IInv, RecvTrap
  PROVE  IInv'
<1>1. TypeOK /\ HartInv /\ CountInv /\ AccountInv
  BY DEF IInv
<1>2. Called /\ Serving' /\ HartInv'
  BY <1>1, RecvHart
<1>3. bench' = bench /\ trips' = trips /\ left' = left /\ lost' = lost /\ fresh' = fresh
      /\ replies' = TRUE
  BY DEF RecvTrap
<1>4. TypeOK'
  <2>1. (HartInv => KernelTypeOK)'
    BY HartTyped, PTL
  <2>2. since' \in Nat
    BY <1>2, Constants DEF Serving
  <2>3. clock' \in 0..(ClockModulus - 1)
    BY <1>1, Ticked DEF RecvTrap, TypeOK
  <2> QED BY <1>1, <1>2, <1>3, <2>1, <2>2, <2>3 DEF TypeOK
<1>5. CountInv'
  BY <1>1, <1>3, CountsKept
<1>6. AccountInv'
  <2>1. running = server /\ running' = server
    BY <1>2 DEF Called, Serving
  <2> QED BY <1>1, <1>3, <2>1 DEF AccountInv, Begun, Answered
<1> QED BY <1>2, <1>4, <1>5, <1>6 DEF IInv

-----------------------------------------------------------------------------
(* A Reply: what the handler computes is what has gone by since the Call.  *)
LEMMA ReplyHart ==
  ASSUME TypeOK, HartInv, ReplyTrap
  PROVE  Serving /\ Calling' /\ HartInv'
<1>1. running = server /\ replies
  BY DEF ReplyTrap, Reply
<1>2. Serving
  BY <1>1, TwoThreads DEF HartInv, Calling, Called
<1>3. owed[server] = client /\ owed = [NoDebts EXCEPT ![server] = client]
  BY <1>2, TwoThreads DEF Serving, NoDebts
<1>4. /\ running' = client /\ ready' = Append(<<>>, server)
      /\ owed' = [owed EXCEPT ![server] = Nobody]
      /\ UNCHANGED <<calls, listening>> /\ replies' = FALSE
  BY <1>2, <1>3 DEF ReplyTrap, Reply, Serving
<1>5. owed' = NoDebts
  BY <1>3, <1>4, TwoThreads DEF NoDebts
<1>6. ready' = <<server>>
  BY <1>4
<1>7. calls' = NoCalls /\ listening' = NoCalls
  BY <1>2, <1>4 DEF Serving, HartInv
<1>8. Calling'
  BY <1>4, <1>5, <1>6, <1>7 DEF Calling, NoCalls, NoDebts
<1> QED BY <1>2, <1>7, <1>8 DEF HartInv, NoCalls

LEMMA ReplyTime ==
  ASSUME TypeOK, Serving, NEW d \in 1..MaxCycles, Ticks(d)
  PROVE  Cycles = since + d /\ since + d \in 1..(2 * MaxCycles)
<1>1. /\ since \in 1..MaxCycles /\ clock = (bench.start + since) % ClockModulus
      /\ bench.start \in 0..(ClockModulus - 1)
  BY BenchFields DEF Serving
<1>2. since + d \in 1..(2 * MaxCycles)
  BY <1>1, Constants
<1>3. since + d \in 0..(ClockModulus - 1)
  BY <1>2, Constants
<1>4. clock' = (bench.start + (since + d)) % ClockModulus
  <2>1. since \in Nat /\ d \in Nat /\ since + d < ClockModulus
    BY <1>1, <1>3, Constants
  <2> QED BY <1>1, <2>1, Constants, TurnedTwice DEF Ticks
<1>5. Cycles = since + d
  BY <1>1, <1>3, <1>4, Constants, Elapsed DEF Cycles
<1> QED BY <1>2, <1>5

(* A trip that is timed becomes part of the sum and of the extremes.       *)
LEMMA TimedFields ==
  ASSUME TypeOK, NEW x \in Nat
  PROVE  /\ Timed(bench, x).sum = bench.sum + x
         /\ Timed(bench, x).min = Smaller(bench.min, x)
         /\ Timed(bench, x).max = Larger(bench.max, x)
         /\ Timed(bench, x).start = bench.start
         /\ Timed(bench, x).completed = bench.completed
         /\ Timed(bench, x).done = bench.done
BY DEF TypeOK, BenchType, Timed

LEMMA CountedFields ==
  ASSUME NEW b \in BenchType
  PROVE  /\ Counted(b).completed = b.completed + 1
         /\ Counted(b).done = (b.completed + 1 = Target)
         /\ Counted(b).start = b.start /\ Counted(b).sum = b.sum
         /\ Counted(b).min = b.min /\ Counted(b).max = b.max
BY DEF BenchType, Counted, Target

LEMMA TimedTyped ==
  ASSUME TypeOK, NEW x \in 1..(2 * MaxCycles)
  PROVE  Timed(bench, x) \in
           BenchType
<1>1. bench \in BenchType
  BY DEF TypeOK
<1>2. x \in Nat /\ x \in 0..(ClockModulus - 1)
  BY Constants
<1>3. /\ bench.sum + x \in Nat /\ Smaller(bench.min, x) \in 0..(ClockModulus - 1)
      /\ Larger(bench.max, x) \in 0..(ClockModulus - 1)
  BY <1>1, <1>2, Constants DEF BenchType, Smaller, Larger
<1> QED BY <1>1, <1>3 DEF BenchType, Timed

LEMMA BoundedGrows ==
  ASSUME TypeOK, CountInv, NEW x \in 1..(2 * MaxCycles),
         trips' = Append(trips, x),
         bench'.min = Smaller(bench.min, x), bench'.max = Larger(bench.max, x)
  PROVE  Bounded' /\ Attained'
<1> DEFINE n == Len(trips)
<1>1. /\ trips \in Seq(Nat) /\ x \in Nat /\ x > 0 /\ x < ClockModulus - 1
      /\ bench.min \in Nat /\ bench.max \in Nat
  BY Constants, BenchFields DEF TypeOK
<1>2. /\ trips' # <<>> /\ n \in Nat /\ DOMAIN trips = 1..n /\ DOMAIN trips' = 1..(n + 1)
      /\ \A k \in 1..n : trips'[k] = trips[k]
      /\ trips'[n + 1] = x /\ (trips = <<>>) = (n = 0)
  BY <1>1, AppendFacts
<1>3. /\ bench'.min = (IF bench.min < x THEN bench.min ELSE x)
      /\ bench'.max = (IF bench.max > x THEN bench.max ELSE x)
  BY DEF Smaller, Larger
<1> HIDE DEF n
<1>4. Bounded'
  <2> SUFFICES ASSUME NEW k \in 1..(n + 1)
               PROVE  trips'[k] \in 1..(2 * MaxCycles) /\ bench'.min <= trips'[k]
                      /\ trips'[k] <= bench'.max
    BY <1>2 DEF Bounded
  <2>1. CASE k = n + 1
    BY <1>1, <1>2, <1>3, <2>1
  <2>2. CASE k # n + 1
    <3>1. k \in 1..n
      BY <1>2, <2>2
    <3>2. trips[k] \in 1..(2 * MaxCycles) /\ bench.min <= trips[k] /\ trips[k] <= bench.max
      BY <1>2, <3>1 DEF CountInv, Bounded
    <3>3. trips'[k] = trips[k]
      BY <1>2, <3>1
    <3>4. trips[k] \in Nat
      BY <3>2, Constants
    <3> QED BY <1>1, <1>3, <3>2, <3>3, <3>4
  <2> QED BY <2>1, <2>2
<1>5. Attained'
  <2>1. n + 1 \in 1..(n + 1) /\ 1..n \subseteq 1..(n + 1)
    BY <1>2
  <2>2. \E j \in 1..(n + 1) : bench'.min = trips'[j]
    <3>1. CASE bench.min < x
      <4>1. trips # <<>>
        BY <1>1, <3>1, Constants DEF CountInv, Attained
      <4>2. PICK j \in 1..n : bench.min = trips[j]
        BY <1>2, <4>1 DEF CountInv, Attained
      <4> QED BY <1>2, <1>3, <2>1, <3>1, <4>2
    <3>2. CASE ~(bench.min < x)
      BY <1>2, <1>3, <2>1, <3>2
    <3> QED BY <3>1, <3>2
  <2>3. \E k \in 1..(n + 1) : bench'.max = trips'[k]
    <3>1. CASE bench.max > x
      <4>1. trips # <<>>
        BY <1>1, <3>1, Constants DEF CountInv, Attained
      <4>2. PICK k \in 1..n : bench.max = trips[k]
        BY <1>2, <4>1 DEF CountInv, Attained
      <4> QED BY <1>2, <1>3, <2>1, <3>1, <4>2
    <3>2. CASE ~(bench.max > x)
      BY <1>2, <1>3, <2>1, <3>2
    <3> QED BY <3>1, <3>2
  <2> QED BY <1>2, <2>2, <2>3 DEF Attained
<1> QED BY <1>4, <1>5

LEMMA ReplyCounts ==
  ASSUME TypeOK, CountInv, Serving, ReplyTrap
  PROVE  /\ CountInv'
         /\ bench' \in BenchType
         /\ trips' \in Seq(Nat)
         /\ bench'.completed = IF bench.completed = Target THEN Target ELSE bench.completed + 1
<1>1. PICK d \in 1..MaxCycles :
        /\ Ticks(d) /\ since' = since + d
        /\ trips' = IF Counts /\ ~WarmingUp THEN Append(trips, since + d) ELSE trips
  BY DEF ReplyTrap
<1>2. Cycles = since + d /\ since + d \in 1..(2 * MaxCycles)
  BY <1>1, ReplyTime
<1>3. PICK x \in 1..(2 * MaxCycles) : x = since + d
  BY <1>2
<1>4. bench' = IF ~Counts THEN bench
               ELSE IF WarmingUp THEN Counted(bench) ELSE Counted(Timed(bench, x))
  BY <1>2, <1>3 DEF ReplyTrap
<1>5. trips' = IF Counts /\ ~WarmingUp THEN Append(trips, x) ELSE trips
  BY <1>1, <1>3
<1>6. bench \in BenchType /\ trips \in Seq(Nat) /\ x \in Nat
  BY Constants DEF TypeOK
<1>7. bench.completed \in 0..Target /\ bench.done = (bench.completed = Target)
      /\ Len(trips) = Timings /\ IsTotal(bench.sum, trips) /\ Bounded /\ Attained
  BY BenchFields DEF CountInv
<1>8. CASE ~Counts
  <2>1. bench' = bench /\ trips' = trips
    BY <1>4, <1>5, <1>8
  <2>2. bench.completed = Target
    BY <1>7, <1>8 DEF Counts
  <2> QED BY <1>6, <2>1, <2>2, CountsKept
<1>9. CASE Counts /\ WarmingUp
  <2>1. bench' = Counted(bench) /\ trips' = trips
    BY <1>4, <1>5, <1>9
  <2>2. bench.completed = 0 /\ bench.completed # Target
    BY <1>9, Constants DEF WarmingUp
  <2>3. /\ bench'.completed = 1 /\ bench'.done = (1 = Target)
        /\ bench'.sum = bench.sum /\ bench'.min = bench.min /\ bench'.max = bench.max
    BY <1>6, <2>1, <2>2, CountedFields
  <2>4. bench' \in BenchType
    <3>1. 1 \in 0..(BENCH_ROUND_TRIPS + 1) /\ bench.completed + 1 = 1
      BY <2>2, Constants
    <3> QED BY <1>6, <2>1, <3>1 DEF BenchType, Counted
  <2>5. Len(trips') = Timings' /\ IsTotal(bench'.sum, trips') /\ Bounded' /\ Attained'
    BY <1>7, <2>1, <2>2, <2>3 DEF Timings, Bounded, Attained
  <2>6. bench'.done = (bench'.completed = Target)
    BY <2>3
  <2>7. CountInv'
    BY <2>5, <2>6 DEF CountInv, IsTotal, Target
  <2> QED BY <1>6, <2>1, <2>2, <2>3, <2>4, <2>7
<1>10. CASE Counts /\ ~WarmingUp
  <2>1. bench' = Counted(Timed(bench, x)) /\ trips' = Append(trips, x)
    BY <1>4, <1>5, <1>10
  <2>2. bench.completed # 0 /\ bench.completed # Target
    BY <1>7, <1>10 DEF WarmingUp, Counts
  <2>3. Timed(bench, x) \in
          BenchType
    BY TimedTyped
  <2>4. /\ Timed(bench, x).sum = bench.sum + x
        /\ Timed(bench, x).min = Smaller(bench.min, x)
        /\ Timed(bench, x).max = Larger(bench.max, x)
        /\ Timed(bench, x).completed = bench.completed
    BY <1>6, TimedFields
  <2>5. /\ bench'.completed = bench.completed + 1
        /\ bench'.done = (bench.completed + 1 = Target)
        /\ bench'.sum = bench.sum + x
        /\ bench'.min = Smaller(bench.min, x) /\ bench'.max = Larger(bench.max, x)
    BY <2>1, <2>3, <2>4, CountedFields
  <2>6. bench' \in BenchType
    <3>1. bench.completed + 1 \in 0..(BENCH_ROUND_TRIPS + 1)
      BY <1>7, <2>2, Constants DEF Target
    <3> QED BY <2>1, <2>3, <2>4, <3>1 DEF BenchType, Counted
  <2>7. trips' \in Seq(Nat) /\ Len(trips') = Timings'
    <3>1. Append(trips, x) \in Seq(Nat) /\ Len(Append(trips, x)) = Len(trips) + 1
      BY <1>6, AppendFacts
    <3>2. bench'.completed # 0 /\ Timings = bench.completed - 1 /\ Timings' = bench.completed
      BY <1>7, <2>2, <2>5, Constants DEF Timings
    <3>3. Len(trips) + 1 = bench.completed
      BY <1>7, <3>2, Constants
    <3> QED BY <2>1, <3>1, <3>2, <3>3
  <2>8. IsTotal(bench'.sum, trips')
    BY <1>6, <1>7, <2>1, <2>5, BenchFields, TotalGrows
  <2>9. Bounded' /\ Attained'
    BY <2>1, <2>5, BoundedGrows
  <2>10. CountInv'
    BY <2>5, <2>7, <2>8, <2>9 DEF CountInv, IsTotal, Target
  <2> QED BY <2>2, <2>5, <2>6, <2>7, <2>10
<1> QED BY <1>8, <1>9, <1>10

LEMMA ReplyStep ==
  ASSUME IInv, ReplyTrap
  PROVE  IInv'
<1>1. TypeOK /\ HartInv /\ CountInv /\ AccountInv
  BY DEF IInv
<1>2. Serving /\ Calling' /\ HartInv'
  BY <1>1, ReplyHart
<1>3. /\ CountInv' /\ bench' \in BenchType /\ trips' \in Seq(Nat)
      /\ bench'.completed = IF bench.completed = Target THEN Target ELSE bench.completed + 1
  BY <1>1, <1>2, ReplyCounts
<1>4. /\ left'[client] = left[client] /\ left'[server] = left[server] - 1
      /\ left' \in [Threads -> Int]
      /\ left[client] \in 0..Attempts /\ left[server] \in 0..Attempts
  BY <1>1, TwoThreads, Constants DEF ReplyTrap, Began, TypeOK
<1>5. lost' = lost /\ lost \in 0..MaxLost /\ fresh' = TRUE /\ replies' = FALSE
  BY <1>1 DEF ReplyTrap, TypeOK
<1>6. running = server /\ running' = client
  BY <1>2 DEF Serving, Calling
<1>7. Begun = Answered + lost + 1
  BY <1>1, <1>6 DEF AccountInv
<1>8. left[server] > 0
  BY <1>4, <1>5, <1>7, Constants DEF Begun, Answered
<1>9. TypeOK'
  <2>1. (HartInv => KernelTypeOK)'
    BY HartTyped, PTL
  <2>2. PICK d \in 1..MaxCycles : Ticks(d) /\ since' = since + d
    BY DEF ReplyTrap
  <2>3. since' \in Nat
    BY <1>1, <2>2, Constants DEF TypeOK
  <2>4. clock' \in 0..(ClockModulus - 1)
    BY <1>1, <2>2, Ticked DEF TypeOK
  <2>5. left' \in [Threads -> 0..Attempts]
    <3>1. left'[client] \in 0..Attempts /\ left'[server] \in 0..Attempts
      BY <1>4, <1>8, Constants
    <3> QED BY <1>4, <3>1, TwoThreads
  <2> QED BY <1>2, <1>3, <1>5, <2>1, <2>3, <2>4, <2>5 DEF TypeOK
<1>10. AccountInv'
  <2>1. Answered' = Answered + 1 /\ Begun' = Begun /\ Answered \in Nat
    BY <1>4, Constants DEF Answered, Begun
  <2>2. Begun' = Answered' + lost' + (IF running' = server THEN 1 ELSE 0)
    BY <1>5, <1>6, <1>7, <2>1, TwoThreads
  <2>3. bench'.completed = Smaller(Answered', Target)
    <3>1. bench.completed = IF Answered < Target THEN Answered ELSE Target
      BY <1>1 DEF AccountInv, Smaller
    <3>2. bench'.completed = IF Answered + 1 < Target THEN Answered + 1 ELSE Target
      BY <1>3, <2>1, <3>1, Constants
    <3> QED BY <2>1, <3>2 DEF Smaller
  <2> QED BY <2>2, <2>3 DEF AccountInv, Smaller
<1> QED BY <1>2, <1>3, <1>9, <1>10 DEF IInv

LEMMA StutterStep ==
  ASSUME IInv, UNCHANGED vars
  PROVE  IInv'
BY DEF IInv, TypeOK, KernelTypeOK, HartInv, Calling, Called, Serving, CountInv, Timings, IsTotal,
       Bounded, Attained, AccountInv, Begun, Answered, Smaller, NoCalls, NoDebts, vars, kernel

(* The inductive invariant: where the two threads of hello-service are,    *)
(* what each has left of its loop, and the accounts in BENCH as those of   *)
(* the trips timed so far, however many Calls the kernel has dropped.      *)
THEOREM BenchInvariant == Spec => []IInv
<1>1. Init => IInv
  BY InitInv
<1>2. IInv /\ [Next]_vars => IInv'
  <2> SUFFICES ASSUME IInv, [Next]_vars PROVE IInv'
    OBVIOUS
  <2>1. CASE CallTrap
    BY <2>1, CallStep
  <2>2. CASE RecvTrap
    BY <2>2, RecvStep
  <2>3. CASE ReplyTrap
    BY <2>3, ReplyStep
  <2>4. CASE UNCHANGED vars
    BY <2>4, StutterStep
  <2> QED BY <2>1, <2>2, <2>3, <2>4 DEF Next
<1> QED BY <1>1, <1>2, PTL DEF Spec

(* TypeOK, for every value of the constants.                               *)
THEOREM BenchTypes == Spec => []TypeOK
<1>1. IInv => TypeOK
  BY DEF IInv
<1> QED BY <1>1, BenchInvariant, PTL

(* SummaryIsOfTheTrips, for every number of round trips and of dropped     *)
(* Calls and wherever the counter starts and wraps: main.rs:75 gives the   *)
(* margin for the Calls the kernel drops, and none of them is in a figure. *)
THEOREM BenchSummary == Spec => []SummaryIsOfTheTrips
<1>1. IInv => SummaryIsOfTheTrips
  <2> SUFFICES ASSUME IInv, bench.done
               PROVE  /\ Len(trips) = BENCH_ROUND_TRIPS
                      /\ IsTotal(bench.sum, trips)
                      /\ \A k \in DOMAIN trips : bench.min <= trips[k] /\ trips[k] <= bench.max
                      /\ \E j, k \in DOMAIN trips : bench.min = trips[j] /\ bench.max = trips[k]
    BY DEF SummaryIsOfTheTrips
  <2>1. bench.completed = Target /\ Len(trips) = Timings /\ IsTotal(bench.sum, trips)
        /\ Bounded /\ Attained
    BY DEF IInv, CountInv
  <2>2. Len(trips) = BENCH_ROUND_TRIPS
    BY <2>1, Constants DEF Timings, Target
  <2>3. trips # <<>>
    <3>1. Len(<<>>) = 0
      OBVIOUS
    <3> QED BY <2>2, <3>1, Constants
  <2> QED BY <2>1, <2>2, <2>3 DEF Bounded, Attained
<1> QED BY <1>1, BenchInvariant, PTL

(* The margin of main.rs:75 is enough: when no more Calls are dropped than *)
(* it allows for, the client has no iteration left only after the summary, *)
(* and the server has one left for every Call that reaches it.  This is    *)
(* what BenchmarkCompletes needs of the state, fairness apart.             *)
MarginSuffices ==
  /\ running = client /\ left[client] = 0 => bench.done
  /\ running = server => left[server] > 0
THEOREM BenchMargin ==
  ASSUME MaxLost <= BENCH_SAFETY_MARGIN PROVE Spec => []MarginSuffices
<1>1. IInv => MarginSuffices
  <2> SUFFICES ASSUME IInv PROVE MarginSuffices
    OBVIOUS
  <2>1. /\ Begun = Answered + lost + (IF running = server THEN 1 ELSE 0)
        /\ bench.completed = Smaller(Answered, Target)
        /\ bench.done = (bench.completed = Target)
    BY DEF IInv, AccountInv, CountInv
  <2>2. left[client] \in 0..Attempts /\ left[server] \in 0..Attempts /\ lost \in 0..MaxLost
    BY TwoThreads DEF IInv, TypeOK
  <2>3. ASSUME running = client, left[client] = 0 PROVE bench.done
    <3>1. Begun = Attempts /\ Begun = Answered + lost /\ Answered \in Int
      BY <2>1, <2>2, <2>3, TwoThreads, Constants DEF Begun, Answered
    <3>2. Attempts = Target + BENCH_SAFETY_MARGIN
      BY Constants DEF Attempts, Target
    <3>3. Answered >= Target
      <4>1. lost \in Nat /\ lost <= BENCH_SAFETY_MARGIN
        BY <2>2, Constants
      <4>2. Target \in Nat /\ BENCH_SAFETY_MARGIN \in Nat
        BY Constants
      <4>3. Answered + lost = Target + BENCH_SAFETY_MARGIN
        BY <3>1, <3>2
      <4> QED BY <3>1, <4>1, <4>2, <4>3
    <3>4. bench.completed = Target
      BY <2>1, <3>1, <3>3, Constants DEF Smaller
    <3> QED BY <2>1, <3>4
  <2>4. ASSUME running = server PROVE left[server] > 0
    BY <2>1, <2>2, <2>4, Constants DEF Begun, Answered
  <2> QED BY <2>3, <2>4 DEF MarginSuffices
<1> QED BY <1>1, BenchInvariant, PTL

(* And every trap is one of a bounded number, so that there is no way to   *)
(* go on without the summary: three for an iteration of the client, less   *)
(* what the iteration under way has behind it.                             *)
Remaining ==
  3 * left[client] + (IF running = client THEN 0 ELSE IF replies THEN 1 ELSE 2)
TrapCounts == Remaining \in Nat /\ Remaining' \in Nat /\ Remaining' < Remaining
EveryTrapCounts == [][TrapCounts]_vars
THEOREM BenchProgress == Spec => EveryTrapCounts
<1>1. IInv /\ IInv' /\ [Next]_vars
        => [TrapCounts]_vars
  <2> SUFFICES ASSUME IInv, IInv', Next
               PROVE  Remaining \in Nat /\ Remaining' \in Nat /\ Remaining' < Remaining
    BY DEF TrapCounts
  <2>1. TypeOK /\ HartInv /\ left[client] \in Nat /\ left'[client] \in Nat
    BY TwoThreads, Constants DEF IInv, TypeOK
  <2>2. CASE CallTrap
    <3>1. Calling /\ (Called' \/ Calling')
      BY <2>1, <2>2, CallHart
    <3>2. left'[client] = left[client] - 1
      BY <2>1, <2>2, TwoThreads DEF CallTrap, Began, TypeOK
    <3>3. running = client /\ (running' = client \/ (running' = server /\ ~replies'))
      BY <3>1 DEF Calling, Called
    <3> QED BY <2>1, <3>2, <3>3, TwoThreads DEF Remaining
  <2>3. CASE RecvTrap
    <3>1. Called /\ Serving' /\ left' = left
      BY <2>1, <2>3, RecvHart DEF RecvTrap
    <3>2. running = server /\ running' = server /\ ~replies /\ replies'
      BY <3>1 DEF Called, Serving
    <3> QED BY <2>1, <3>1, <3>2, TwoThreads DEF Remaining
  <2>4. CASE ReplyTrap
    <3>1. Serving /\ Calling' /\ left'[client] = left[client]
      BY <2>1, <2>4, ReplyHart, TwoThreads DEF ReplyTrap, Began, TypeOK
    <3>2. running = server /\ running' = client /\ replies
      BY <3>1 DEF Calling, Serving
    <3> QED BY <2>1, <3>1, <3>2, TwoThreads DEF Remaining
  <2> QED BY <2>2, <2>3, <2>4 DEF Next
<1> QED BY <1>1, BenchInvariant, PTL DEF Spec, EveryTrapCounts
=============================================================================
