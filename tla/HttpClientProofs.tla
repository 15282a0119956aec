-------------------------- MODULE HttpClientProofs --------------------------
(***************************************************************************)
(* For any number of requests and hosts and any rate: what a host is sent  *)
(* stays within the bucket and what it earns, and what a request comes to. *)
(***************************************************************************)
EXTENDS HttpClient, TLAPS

(***************************************************************************)
(* The bucket as it is when it is next looked at.                          *)
(***************************************************************************)
\* The lesser of two integers.
LEMMA LesserOfTwo ==
  ASSUME NEW a \in Int, NEW b \in Int
  PROVE  Min({a, b}) = IF a <= b THEN a ELSE b
<1>1. CASE a <= b
  <2>1. \E x \in {a, b} : \A y \in {a, b} : x <= y
    BY <1>1
  <2> QED BY <2>1, <1>1 DEF Min
<1>2. CASE ~(a <= b)
  <2>1. \E x \in {a, b} : \A y \in {a, b} : x <= y
    BY <1>2
  <2> QED BY <2>1, <1>2 DEF Min
<1> QED BY <1>1, <1>2

\* A bucket has room for a token and for what a second earns.
LEMMA CapacityIsEnough == Capacity \in Nat /\ Cost <= Capacity /\ Second <= Capacity
<1>1. Cost \in Nat /\ Second \in Nat
  BY BucketAssumption
<1>2. CASE Second <= Cost
  <2>1. \E x \in {Second, Cost} : \A y \in {Second, Cost} : x >= y
    BY <1>1, <1>2
  <2> QED BY <2>1, <1>1, <1>2 DEF Capacity, Max
<1>3. CASE ~(Second <= Cost)
  <2>1. \E x \in {Second, Cost} : \A y \in {Second, Cost} : x >= y
    BY <1>1, <1>3
  <2> QED BY <2>1, <1>1, <1>3 DEF Capacity, Max
<1> QED BY <1>2, <1>3

BucketTypeOK ==
  /\ bucket \in [Hosts -> [units : 0..Capacity, age : 0..Capacity]]
  /\ meter \in [Hosts -> Nat]

\* What a host has been sent beyond what it earned leaves that much less in its bucket.
RateInv == BucketTypeOK /\ \A h \in Hosts : meter[h] + Units(h) <= Capacity

LEMMA UnitsValue ==
  ASSUME BucketTypeOK, NEW h \in Hosts
  PROVE  /\ Units(h) \in 0..Capacity
         /\ Units(h) = IF Capacity <= bucket[h].units + bucket[h].age THEN Capacity
                       ELSE bucket[h].units + bucket[h].age
BY CapacityIsEnough, LesserOfTwo DEF BucketTypeOK, Units

LEMMA RateInit == Init => RateInv
<1> SUFFICES ASSUME Init PROVE RateInv
  OBVIOUS
<1>1. BucketTypeOK
  BY CapacityIsEnough DEF Init, BucketTypeOK
<1> QED BY <1>1, UnitsValue, CapacityIsEnough DEF RateInv, BucketTypeOK, Init

\* A tick adds at most one unit to a bucket, and takes one from the meter unless it is 0.
LEMMA RateTick == RateInv /\ Tick => RateInv'
<1> SUFFICES ASSUME RateInv, Tick PROVE RateInv'
  OBVIOUS
<1> USE CapacityIsEnough
<1>1. BucketTypeOK'
  <2>1. \A h \in Hosts : Min({bucket[h].age + 1, Capacity}) \in 0..Capacity
    BY LesserOfTwo DEF RateInv, BucketTypeOK
  <2>2. \A h \in Hosts : Less(meter[h]) \in Nat
    BY DEF RateInv, BucketTypeOK, Less
  <2> QED BY <2>1, <2>2 DEF RateInv, BucketTypeOK, Tick
<1>2. ASSUME NEW h \in Hosts PROVE (meter[h] + Units(h) <= Capacity)'
  <2>1. /\ bucket'[h].units = bucket[h].units
        /\ bucket'[h].age = Min({bucket[h].age + 1, Capacity})
        /\ meter'[h] = Less(meter[h])
    BY DEF Tick, RateInv, BucketTypeOK
  <2>2. /\ bucket[h].units \in Nat /\ bucket[h].age \in Nat /\ meter[h] \in Nat
        /\ bucket'[h].age \in Nat
    BY <1>1 DEF RateInv, BucketTypeOK
  <2>3. bucket'[h].age <= bucket[h].age + 1
    <3>1. Min({bucket[h].age + 1, Capacity}) <= bucket[h].age + 1
      BY <2>2, LesserOfTwo
    <3> QED BY <2>1, <3>1
  <2>4. Units(h) = IF Capacity <= bucket[h].units + bucket[h].age THEN Capacity
                   ELSE bucket[h].units + bucket[h].age
    BY UnitsValue DEF RateInv
  <2>5. Units(h)' = IF Capacity <= bucket'[h].units + bucket'[h].age THEN Capacity
                    ELSE bucket'[h].units + bucket'[h].age
    BY <1>1, <2>1, <2>2, LesserOfTwo DEF Units
  <2>6. meter[h] + Units(h) <= Capacity
    BY DEF RateInv
  <2> QED BY <2>1, <2>2, <2>3, <2>4, <2>5, <2>6 DEF Less
<1> QED BY <1>1, <1>2 DEF RateInv

\* A token taken is a token on the meter; to look at a bucket changes nothing.
LEMMA RateAcquire ==
  ASSUME RateInv, NEW r \in Requests, Take(r) \/ Pause(r)
  PROVE  RateInv'
<1> USE CapacityIsEnough, BucketAssumption
<1> DEFINE h == HostOf[r]
<1>1. h \in Hosts
  BY RequestAssumption
<1>2. PICK u \in 0..Capacity : /\ bucket' = [bucket EXCEPT ![h] = [units |-> u, age |-> 0]]
                               /\ meter'[h] + u = meter[h] + Units(h) /\ meter'[h] \in Nat
                               /\ meter' = [meter EXCEPT ![h] = meter'[h]]
  <2>1. Units(h) \in 0..Capacity /\ meter[h] \in Nat
    BY <1>1, UnitsValue DEF RateInv, BucketTypeOK
  <2>2. CASE Take(r)
    <3>1. Units(h) - Cost \in 0..Capacity
      BY <2>1, <2>2 DEF Take, host
    <3>2. bucket' = [bucket EXCEPT ![h] = [units |-> Units(h) - Cost, age |-> 0]]
      BY <2>2 DEF Take, host, Write
    <3>3. meter' = [meter EXCEPT ![h] = meter[h] + Cost] /\ meter'[h] = meter[h] + Cost
      BY <1>1, <2>2 DEF Take, host, RateInv, BucketTypeOK
    <3>4. meter'[h] + (Units(h) - Cost) = meter[h] + Units(h) /\ meter'[h] \in Nat
      BY <2>1, <3>3
    <3>5. meter' = [meter EXCEPT ![h] = meter'[h]]
      BY <3>3
    <3> HIDE DEF h
    <3> QED BY <3>1, <3>2, <3>4, <3>5
  <2>3. CASE Pause(r)
    <3>1. bucket' = [bucket EXCEPT ![h] = [units |-> Units(h), age |-> 0]] /\ meter' = meter
      BY <2>3 DEF Pause, host, Write
    <3> QED BY <1>1, <2>1, <3>1 DEF RateInv, BucketTypeOK
  <2> QED BY <2>2, <2>3
<1>3. BucketTypeOK'
  <2>1. [units |-> u, age |-> 0] \in [units : 0..Capacity, age : 0..Capacity]
    OBVIOUS
  <2> HIDE DEF h
  <2> QED BY <1>1, <1>2, <2>1 DEF RateInv, BucketTypeOK
<1>4. ASSUME NEW g \in Hosts PROVE (meter[g] + Units(g) <= Capacity)'
  <2>1. meter[g] + Units(g) <= Capacity
    BY DEF RateInv
  <2>2. CASE g = h
    <3>1. bucket'[h].units = u /\ bucket'[h].age = 0
      BY <1>1, <1>2 DEF RateInv, BucketTypeOK
    <3>2. Min({Capacity, u + 0}) = u
      BY LesserOfTwo
    <3>3. Units(h)' = u
      BY <3>1, <3>2 DEF Units
    <3> QED BY <1>2, <2>1, <2>2, <3>3
  <2>3. CASE g # h
    <3>1. bucket'[g] = bucket[g] /\ meter'[g] = meter[g]
      BY <1>2, <2>3 DEF RateInv, BucketTypeOK
    <3> QED BY <2>1, <3>1 DEF Units
  <2> QED BY <2>2, <2>3
<1> QED BY <1>3, <1>4 DEF RateInv

\* Only the limiter and the clock change a bucket and its meter.
LEMMA RateStep == RateInv /\ [Next]_vars => RateInv'
<1> SUFFICES ASSUME RateInv, [Next]_vars PROVE RateInv'
  OBVIOUS
<1>1. CASE Tick
  BY <1>1, RateTick
<1>2. ASSUME NEW r \in Requests, Take(r) \/ Pause(r) PROVE RateInv'
  BY <1>2, RateAcquire
<1>3. CASE UNCHANGED <<bucket, meter>>
  <2>1. \A h \in Hosts : Units(h)' = Units(h)
    BY <1>3 DEF Units
  <2> QED BY <1>3, <2>1 DEF RateInv, BucketTypeOK
<1>4. ASSUME NEW r \in Requests, \/ Begin(r) \/ Wake(r) \/ Respond(r) \/ Refuse(r) \/ Close(r)
                                 \/ NetworkError(r) \/ OtherError(r) \/ NextAttempt(r) \/ Leave(r)
      PROVE  UNCHANGED <<bucket, meter>>
  BY <1>4 DEF Begin, Wake, Respond, Refuse, Close, NetworkError, OtherError, NextAttempt, Leave
<1>5. UNCHANGED vars => UNCHANGED <<bucket, meter>>
  BY DEF vars
<1> QED BY <1>1, <1>2, <1>3, <1>4, <1>5 DEF Next, Step

\* No span of time admits to a host more than a full bucket and what the span earns.
THEOREM RateBounded == Spec => []RateBound
<1>1. RateInv => RateBound
  <2> SUFFICES ASSUME RateInv, NEW h \in Hosts PROVE meter[h] <= Capacity
    BY DEF RateBound
  <2>1. Units(h) \in 0..Capacity /\ meter[h] \in Nat /\ meter[h] + Units(h) <= Capacity
    BY UnitsValue DEF RateInv, BucketTypeOK
  <2> QED BY <2>1, CapacityIsEnough
<1> QED BY RateInit, RateStep, <1>1, PTL DEF Spec

(***************************************************************************)
(* What a request comes to.                                                *)
(***************************************************************************)
OutcomeTypeOK ==
  /\ pc \in [Requests -> {"idle", "acquire", "pause", "send", "close", "backoff", "body"} \cup Ended]
  /\ tries \in [Requests -> 0..MaxAttempts]
  /\ open \in [Requests -> BOOLEAN]
  /\ result \in [Requests -> {"none", "final", "refused", "error", "fatal"}]

\* A body is read of a final response, and an attempt is left to a request that backs off.
OutcomeInv ==
  /\ OutcomeTypeOK /\ OutcomeIsFinal
  /\ \A r \in Requests : /\ pc[r] = "body" => result[r] = "final"
                         /\ pc[r] = "backoff" => tries[r] < MaxAttempts

LEMMA OutcomeInit == Init => OutcomeInv
BY RetryAssumption DEF Init, OutcomeInv, OutcomeTypeOK, OutcomeIsFinal, Ended

\* What a failed attempt leads to.
LEMMA RetryGoes ==
  ASSUME OutcomeTypeOK, NEW r \in Requests, NEW h, Retry(r, h)
  PROVE  /\ pc' = [pc EXCEPT ![r] = pc'[r]]
         /\ \/ pc'[r] = "raised" /\ tries[r] = MaxAttempts
            \/ pc'[r] = "backoff" /\ tries[r] < MaxAttempts
BY RetryAssumption DEF Retry, Goto, OutcomeTypeOK

LEMMA OutcomeStep == OutcomeInv /\ [Next]_vars => OutcomeInv'
<1> SUFFICES ASSUME OutcomeInv, [Next]_vars PROVE OutcomeInv'
  OBVIOUS
<1> USE RetryAssumption DEF OutcomeInv, OutcomeTypeOK, OutcomeIsFinal, Ended
<1>1. CASE UNCHANGED <<pc, tries, open, result>>
  BY <1>1
<1>2. CASE Tick
  BY <1>1, <1>2 DEF Tick
<1>3. ASSUME NEW r \in Requests, Begin(r) PROVE OutcomeInv'
  BY <1>3 DEF Begin, Goto
<1>4. ASSUME NEW r \in Requests, Take(r) \/ Pause(r) \/ Wake(r) PROVE OutcomeInv'
  BY <1>4 DEF Take, Pause, Wake, Goto
<1>5. ASSUME NEW r \in Requests, Respond(r) PROVE OutcomeInv'
  BY <1>5 DEF Respond, Goto
<1>6. ASSUME NEW r \in Requests, Refuse(r) PROVE OutcomeInv'
  BY <1>6 DEF Refuse, Goto
<1>7. ASSUME NEW r \in Requests, Close(r) PROVE OutcomeInv'
  BY <1>7, RetryGoes DEF Close
<1>8. ASSUME NEW r \in Requests, NetworkError(r) PROVE OutcomeInv'
  BY <1>8, RetryGoes DEF NetworkError
<1>9. ASSUME NEW r \in Requests, OtherError(r) PROVE OutcomeInv'
  BY <1>9 DEF OtherError, Goto
<1>10. ASSUME NEW r \in Requests, NextAttempt(r) PROVE OutcomeInv'
  BY <1>10 DEF NextAttempt, Goto
<1>11. ASSUME NEW r \in Requests, Leave(r) PROVE OutcomeInv'
  BY <1>11 DEF Leave, Goto
<1>12. UNCHANGED vars => UNCHANGED <<pc, tries, open, result>>
  BY DEF vars, local
<1> QED BY <1>1, <1>2, <1>3, <1>4, <1>5, <1>6, <1>7, <1>8, <1>9, <1>10, <1>11, <1>12 DEF Next, Step

\* Only a final response is returned, a transient failure is raised by the last attempt
\* alone, and no response stays open when its request tries again or ends.
THEOREM OutcomesAreFinal == Spec => []OutcomeIsFinal
<1>1. OutcomeInv => OutcomeIsFinal
  BY DEF OutcomeInv
<1> QED BY OutcomeInit, OutcomeStep, <1>1, PTL DEF Spec

(***************************************************************************)
(* What a server has asked for is waited for.                              *)
(***************************************************************************)
\* The wait asked of a request is over, or kept for it: by the header it is about to
\* wait for, or by the sleep it is in, which lasts at least as long.
WaitInv ==
  /\ pc \in [Requests -> {"idle", "acquire", "pause", "send", "close", "backoff", "body"} \cup Ended]
  /\ timer = [r \in Requests |-> timer[r]] /\ header \in [Requests -> RetryAfters \cup {None}]
  /\ asked \in [Requests -> Nat]
  /\ \A r \in Requests :
       /\ pc[r] = "close" /\ asked[r] # 0 => header[r] # None /\ asked[r] <= Min({header[r], MaxWait})
       /\ pc[r] = "backoff" /\ asked[r] # 0 => timer[r] \in Nat /\ asked[r] <= timer[r]
       /\ pc[r] \in {"idle", "acquire", "pause", "send", "body"} => asked[r] = 0

\* A header cut to 30 seconds is a number of ticks.
LEMMA CutHeader == ASSUME NEW h \in RetryAfters PROVE Min({h, MaxWait}) \in Nat
BY LesserOfTwo, HeaderAssumption, RetryAssumption

LEMMA WaitInit == Init => WaitInv
BY DEF Init, WaitInv, Ended

\* A tick takes the same from the sleep and from what was asked for.
LEMMA WaitTick == WaitInv /\ Tick => WaitInv'
<1> SUFFICES ASSUME WaitInv, Tick PROVE WaitInv'
  OBVIOUS
<1>1. \A r \in Requests : /\ asked'[r] = Less(asked[r]) /\ asked[r] \in Nat /\ asked'[r] \in Nat
                          /\ timer'[r] = Less(timer[r]) /\ asked'[r] <= asked[r]
  BY DEF WaitInv, Tick, Less
<1>2. asked' \in [Requests -> Nat] /\ timer' = [r \in Requests |-> timer'[r]]
  BY <1>1 DEF Tick
<1>3. ASSUME NEW r \in Requests, pc[r] = "backoff", asked'[r] # 0 PROVE timer'[r] \in Nat /\ asked'[r] <= timer'[r]
  <2>1. asked[r] # 0 /\ asked'[r] = asked[r] - 1
    BY <1>1, <1>3 DEF Less
  <2>2. timer[r] \in Nat /\ asked[r] <= timer[r]
    BY <1>3, <2>1 DEF WaitInv
  <2> QED BY <1>1, <2>1, <2>2 DEF Less
<1>4. ASSUME NEW r \in Requests, pc[r] = "close", asked'[r] # 0
      PROVE  header[r] # None /\ asked'[r] <= Min({header[r], MaxWait})
  <2>1. asked[r] # 0
    BY <1>1, <1>4 DEF Less
  <2>2. header[r] # None /\ asked[r] <= Min({header[r], MaxWait}) /\ header[r] \in RetryAfters
    BY <1>4, <2>1 DEF WaitInv
  <2> QED BY <1>1, <2>2, CutHeader
<1>5. \A r \in Requests : asked[r] = 0 => asked'[r] = 0
  BY <1>1 DEF Less
<1> QED BY <1>2, <1>3, <1>4, <1>5 DEF WaitInv, Tick

\* A failed attempt sleeps for what its server asked for, or is the last one.
LEMMA WaitRetry ==
  ASSUME WaitInv, NEW r \in Requests, NEW h \in RetryAfters \cup {None}, Retry(r, h), header' = header,
         asked' \in [Requests -> Nat], \A q \in Requests : q # r => asked'[q] = asked[q],
         asked'[r] # 0 => h # None /\ asked'[r] <= Min({h, MaxWait})
  PROVE  WaitInv'
<1>1. \/ pc' = [pc EXCEPT ![r] = "raised"] /\ timer' = timer
      \/ pc' = [pc EXCEPT ![r] = "backoff"] /\ timer' = [timer EXCEPT ![r] = Wait(r, h)]
  BY DEF Retry, Goto
<1>2. h # None => Wait(r, h) = Min({h, MaxWait}) /\ Wait(r, h) \in Nat
  BY CutHeader DEF Wait
<1>3. CASE pc' = [pc EXCEPT ![r] = "raised"] /\ timer' = timer
  BY <1>3 DEF WaitInv, Ended
<1>4. CASE pc' = [pc EXCEPT ![r] = "backoff"] /\ timer' = [timer EXCEPT ![r] = Wait(r, h)]
  <2>1. pc'[r] = "backoff" /\ timer'[r] = Wait(r, h)
    BY <1>4 DEF WaitInv
  <2>2. \A q \in Requests : q # r => pc'[q] = pc[q] /\ timer'[q] = timer[q]
    BY <1>4 DEF WaitInv
  <2>3. /\ pc' \in [Requests -> {"idle", "acquire", "pause", "send", "close", "backoff", "body"} \cup Ended]
        /\ timer' = [q \in Requests |-> timer'[q]]
    BY <1>4 DEF WaitInv
  <2>4. asked'[r] # 0 => timer'[r] \in Nat /\ asked'[r] <= timer'[r]
    BY <1>2, <2>1
  <2> QED BY <2>1, <2>2, <2>3, <2>4 DEF WaitInv
<1> QED BY <1>1, <1>3, <1>4

LEMMA WaitStep == WaitInv /\ [Next]_vars => WaitInv'
<1> SUFFICES ASSUME WaitInv, [Next]_vars PROVE WaitInv'
  OBVIOUS
<1>1. CASE Tick
  BY <1>1, WaitTick
<1>2. ASSUME NEW r \in Requests, Begin(r) \/ Take(r) \/ Wake(r) \/ Respond(r) \/ OtherError(r) \/ Leave(r)
      PROVE  WaitInv'
  BY <1>2 DEF Begin, Take, Wake, Respond, OtherError, Leave, Goto, WaitInv, Ended
<1>3. ASSUME NEW r \in Requests, Pause(r) PROVE WaitInv'
  BY <1>3 DEF Pause, Goto, WaitInv
<1>4. ASSUME NEW r \in Requests, NextAttempt(r) PROVE WaitInv'
  <2>1. pc[r] = "backoff" /\ timer[r] = 0 /\ asked[r] \in Nat
    BY <1>4 DEF NextAttempt, WaitInv
  <2>2. asked[r] # 0 => asked[r] <= timer[r]
    BY <2>1 DEF WaitInv
  <2>3. asked[r] = 0
    BY <2>1, <2>2
  <2> QED BY <1>4, <2>3 DEF NextAttempt, Goto, WaitInv
<1>5. ASSUME NEW r \in Requests, Refuse(r) PROVE WaitInv'
  <2>1. PICK h \in RetryAfters \cup {None} :
          /\ header' = [header EXCEPT ![r] = h]
          /\ asked' = [asked EXCEPT ![r] = IF h = None THEN 0 ELSE Min({h, MaxWait})]
    BY <1>5 DEF Refuse
  <2>2. (IF h = None THEN 0 ELSE Min({h, MaxWait})) \in Nat
    BY CutHeader
  <2>3. asked'[r] # 0 => h # None /\ asked'[r] <= Min({h, MaxWait})
    BY <2>1, <2>2 DEF WaitInv
  <2>4. asked' \in [Requests -> Nat] /\ header'[r] = h
    BY <2>1, <2>2 DEF WaitInv
  <2> QED BY <1>5, <2>1, <2>3, <2>4 DEF Refuse, Goto, WaitInv
<1>6. ASSUME NEW r \in Requests, Close(r) PROVE WaitInv'
  <2>1. pc[r] = "close" /\ Retry(r, header[r]) /\ header' = header /\ asked' = asked
    BY <1>6 DEF Close
  <2>2. header[r] \in RetryAfters \cup {None}
    BY DEF WaitInv
  <2> QED BY <2>1, <2>2, WaitRetry DEF WaitInv
<1>7. ASSUME NEW r \in Requests, NetworkError(r) PROVE WaitInv'
  <2>1. Retry(r, None) /\ header' = header /\ asked' = [asked EXCEPT ![r] = 0]
    BY <1>7 DEF NetworkError
  <2> QED BY <2>1, WaitRetry DEF WaitInv
<1>8. CASE UNCHANGED vars
  BY <1>8 DEF vars, local, WaitInv
<1> QED BY <1>1, <1>2, <1>3, <1>4, <1>5, <1>6, <1>7, <1>8 DEF Next, Step

\* No attempt is sent before the time its server has asked for, cut to 30 seconds, is over.
THEOREM RetryAfterIsHonored == Spec => []RetryAfterHonored
<1>1. WaitInv => RetryAfterHonored
  BY DEF WaitInv, RetryAfterHonored
<1> QED BY WaitInit, WaitStep, <1>1, PTL DEF Spec

=============================================================================
