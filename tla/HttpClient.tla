----------------------------- MODULE HttpClient -----------------------------
(***************************************************************************)
(* Concurrent requests through one RetryingClient: request_with_retries    *)
(* and stream_with_retries, with the token bucket per host of RateLimiter. *)
(* Time passes in ticks, of the length in which a bucket earns one unit;   *)
(* a token is Cost units.  What the code does between two awaits is one    *)
(* action.  `time.monotonic() - last` is kept in place of `last`, cut off  *)
(* where the bucket is full in any case.  Redirects take no token.         *)
(***************************************************************************)
EXTENDS Integers, FiniteSetsExt

CONSTANTS
  Requests,    \* calls of request() or stream()
  Streams,     \* those of stream()
  Hosts,
  HostOf,      \* the netloc of each request's URL
  Cost,        \* units of a token
  Second,      \* ticks of a second: rate_per_sec is Second / Cost
  MaxAttempts, \* max_attempts
  MaxWait,     \* ticks of the 30 seconds no wait exceeds
  RetryAfters, \* ticks of the Retry-After headers servers send
  None         \* no header

ASSUME RequestAssumption == Streams \subseteq Requests /\ HostOf \in [Requests -> Hosts]
ASSUME BucketAssumption  == Cost \in Nat \ {0} /\ Second \in Nat \ {0}
ASSUME RetryAssumption   == MaxAttempts \in Nat \ {0} /\ MaxWait \in Nat
ASSUME HeaderAssumption  == RetryAfters \subseteq Nat /\ None \notin Nat

VARIABLES
  bucket, \* _buckets: the units of each host when it was last written, and its age
  pc,     \* the await each request is at
  tries,  \* its attempts so far
  timer,  \* ticks its sleep still lasts
  open,   \* whether it holds a response that is not closed
  header, \* the Retry-After of its last response
  result, \* what its last attempt came to
  meter,  \* history: the most by which the units granted in any time up to now exceed its ticks
  asked   \* history: ticks for which its server has asked it to wait

local == <<pc, tries, timer, open, header, result>>
vars  == <<bucket, local, meter, asked>>

\* max(rate_per_sec, 1.0), in units.
Capacity == Max({Second, Cost})

Ended == {"returned", "raised"}

Init ==
  /\ bucket = [h \in Hosts |-> [units |-> Capacity, age |-> 0]]
  /\ pc = [r \in Requests |-> "idle"] /\ tries = [r \in Requests |-> 0]
  /\ timer = [r \in Requests |-> 0] /\ open = [r \in Requests |-> FALSE]
  /\ header = [r \in Requests |-> None] /\ result = [r \in Requests |-> "none"]
  /\ meter = [h \in Hosts |-> 0] /\ asked = [r \in Requests |-> 0]

Goto(r, label) == pc' = [pc EXCEPT ![r] = label]

Less(n) == IF n = 0 THEN 0 ELSE n - 1

\* A tick of the clock.
Tick ==
  /\ bucket' = [h \in Hosts |-> [bucket[h] EXCEPT !.age = Min({@ + 1, Capacity})]]
  /\ timer' = [r \in Requests |-> Less(timer[r])]
  /\ asked' = [r \in Requests |-> Less(asked[r])]
  /\ meter' = [h \in Hosts |-> Less(meter[h])]
  /\ UNCHANGED <<pc, tries, open, header, result>>

----------------------------------------------------------------------------
\* RateLimiter.acquire.  The body of the lock has no await in it.
host(r) == HostOf[r]

\* The units of a host, refilled.
Units(h) == Min({Capacity, bucket[h].units + bucket[h].age})

\* Mutant: a bucket nobody could take from is not written.
Undated(h, units) == [bucket EXCEPT ![h].units = units]

\* Mutant: what a bucket has earned is written off by a look at it.
Emptied(h, units) == [bucket EXCEPT ![h] = [units |-> Min({units, bucket[h].units}), age |-> 0]]

Write(h, units) == [bucket EXCEPT ![h] = [units |-> units, age |-> 0]]

Begin(r) ==
  /\ pc[r] = "idle" /\ Goto(r, "acquire")
  /\ tries' = [tries EXCEPT ![r] = 1]
  /\ UNCHANGED <<bucket, timer, open, header, result, meter, asked>>

Take(r) ==
  /\ pc[r] = "acquire" /\ Units(host(r)) >= Cost
  /\ bucket' = Write(host(r), Units(host(r)) - Cost)
  /\ meter' = [meter EXCEPT ![host(r)] = @ + Cost]
  /\ Goto(r, "send")
  /\ UNCHANGED <<tries, timer, open, header, result, asked>>

\* The bucket is looked at again after needed / rate seconds.
Pause(r) ==
  /\ pc[r] = "acquire" /\ Units(host(r)) < Cost
  /\ bucket' = Write(host(r), Units(host(r)))
  /\ timer' = [timer EXCEPT ![r] = Cost - Units(host(r))]
  /\ Goto(r, "pause")
  /\ UNCHANGED <<tries, open, header, result, meter, asked>>

Wake(r) ==
  /\ pc[r] = "pause" /\ timer[r] = 0 /\ Goto(r, "acquire")
  /\ UNCHANGED <<bucket, tries, timer, open, header, result, meter, asked>>

----------------------------------------------------------------------------
\* The attempts of AsyncRetrying.

\* wait_exponential(multiplier=1, min=1, max=30)
Backoff(n) == Max({Second, Min({2 ^ (n - 1) * Second, MaxWait})})

\* Mutant: the wait of tenacity, whatever the server asks for.
WaitAnyway(r, h) == Backoff(tries[r])

\* _retry_wait: the header cut to 30 seconds, or the exponential wait.
Wait(r, h) == IF h = None THEN Backoff(tries[r]) ELSE Min({h, MaxWait})

\* Mutant: when the attempts are used up the error response is returned, unclosed.
RetryQuietly(r, h) ==
  IF tries[r] >= MaxAttempts THEN Goto(r, "returned") /\ timer' = timer
  ELSE Goto(r, "backoff") /\ timer' = [timer EXCEPT ![r] = Wait(r, h)]

\* The attempt has raised what is worth another one: stop_after_attempt, or sleep.
Retry(r, h) ==
  IF tries[r] >= MaxAttempts THEN Goto(r, "raised") /\ timer' = timer
  ELSE Goto(r, "backoff") /\ timer' = [timer EXCEPT ![r] = Wait(r, h)]

\* A final response, which request() has read and stream() hands to its caller.
Respond(r) ==
  /\ pc[r] = "send"
  /\ result' = [result EXCEPT ![r] = "final"] /\ open' = [open EXCEPT ![r] = r \in Streams]
  /\ Goto(r, IF r \in Streams THEN "body" ELSE "returned")
  /\ UNCHANGED <<bucket, tries, timer, header, meter, asked>>

\* A response with a status of _RETRYABLE_STATUS, which is closed first.
Refuse(r) ==
  /\ pc[r] = "send" /\ Goto(r, "close")
  /\ result' = [result EXCEPT ![r] = "refused"] /\ open' = [open EXCEPT ![r] = r \in Streams]
  /\ \E h \in RetryAfters \cup {None} :
       /\ header' = [header EXCEPT ![r] = h]
       /\ asked' = [asked EXCEPT ![r] = IF h = None THEN 0 ELSE Min({h, MaxWait})]
  /\ UNCHANGED <<bucket, tries, timer, meter>>

Close(r) ==
  /\ pc[r] = "close" /\ open' = [open EXCEPT ![r] = FALSE]
  /\ Retry(r, header[r])
  /\ UNCHANGED <<bucket, tries, header, result, meter, asked>>

\* httpx.HTTPError: no connection, a timeout, a broken response.
NetworkError(r) ==
  /\ pc[r] = "send" /\ result' = [result EXCEPT ![r] = "error"]
  /\ Retry(r, None)
  /\ asked' = [asked EXCEPT ![r] = 0]
  /\ UNCHANGED <<bucket, tries, open, header, meter>>

\* Any other exception leaves the loop at once.
OtherError(r) ==
  /\ pc[r] = "send" /\ result' = [result EXCEPT ![r] = "fatal"]
  /\ Goto(r, "raised")
  /\ UNCHANGED <<bucket, tries, timer, open, header, meter, asked>>

NextAttempt(r) ==
  /\ pc[r] = "backoff" /\ timer[r] = 0 /\ Goto(r, "acquire")
  /\ tries' = [tries EXCEPT ![r] = @ + 1]
  /\ UNCHANGED <<bucket, timer, open, header, result, meter, asked>>

\* The caller of stream() leaves its body, normally or by an exception.
Leave(r) ==
  /\ pc[r] = "body" /\ open' = [open EXCEPT ![r] = FALSE]
  /\ Goto(r, "returned") \/ Goto(r, "raised")
  /\ UNCHANGED <<bucket, tries, timer, header, result, meter, asked>>

----------------------------------------------------------------------------
Step(r) ==
  \/ Take(r) \/ Pause(r) \/ Wake(r) \/ Respond(r) \/ Refuse(r) \/ Close(r) \/ NetworkError(r)
  \/ OtherError(r) \/ NextAttempt(r) \/ Leave(r)

Next == Tick \/ \E r \in Requests : Begin(r) \/ Step(r)

\* Time passes, and the event loop resumes a request whose sleep or call is over;
\* httpx ends every call by its timeout.
Spec == Init /\ [][Next]_vars /\ WF_vars(Tick) /\ \A r \in Requests : WF_vars(Step(r))

----------------------------------------------------------------------------
TypeOK ==
  /\ bucket \in [Hosts -> [units : 0..Capacity, age : 0..Capacity]]
  /\ pc \in [Requests -> {"idle", "acquire", "pause", "send", "close", "backoff", "body"} \cup Ended]
  /\ tries \in [Requests -> 0..MaxAttempts] /\ timer \in [Requests -> Nat]
  /\ open \in [Requests -> BOOLEAN] /\ header \in [Requests -> RetryAfters \cup {None}]
  /\ result \in [Requests -> {"none", "final", "refused", "error", "fatal"}]
  /\ meter \in [Hosts -> Nat] /\ asked \in [Requests -> Nat]

\* In no span of time do the requests admitted to a host exceed a full bucket and
\* what it earns in the span, however many tasks wait for tokens and retry.
RateBound == \A h \in Hosts : meter[h] <= Capacity

\* A call returns only a final response, gives up on a transient failure only after
\* the last attempt, and holds no response when it tries again or has ended.
OutcomeIsFinal ==
  \A r \in Requests :
    /\ pc[r] = "returned" => result[r] = "final"
    /\ pc[r] = "raised" /\ result[r] \in {"refused", "error"} => tries[r] = MaxAttempts
    /\ open[r] => pc[r] \in {"close", "body"} /\ r \in Streams

\* No attempt is sent before the time the server has asked for, cut to 30 seconds,
\* is over, whatever the closing and the rate limiter take of it.
RetryAfterHonored == \A r \in Requests : pc[r] = "send" => asked[r] = 0

\* Every call ends, although those that wait for tokens compete for them and none is
\* promised to any.
RequestsEnd == \A r \in Requests : pc[r] # "idle" ~> pc[r] \in Ended
=============================================================================
