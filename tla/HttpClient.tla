----------------------------- MODULE HttpClient -----------------------------
(***************************************************************************)
(* One HttpClient (src/toolkit/http_client.ts) and the requests made       *)
(* through it, concurrently: the sliding-window throttle they share, the   *)
(* timeout of each attempt, and the retries.  An attempt is                *)
(*   Enter     _throttle() up to its sleep, or through it                  *)
(*   Wake      _throttle() after its sleep                                 *)
(*   Answer    the server (external) answers, or the connection fails      *)
(*   Expire    the AbortController's timer                                 *)
(* A time stamp is kept as an age, which stops growing at Window; a sleep  *)
(* or a timer as the time left, which stops at 0: a timer may fire late.   *)
(***************************************************************************)
EXTENDS Naturals, Sequences, FiniteSets, FiniteSetsExt

CONSTANTS
  Requests,     \* the calls of request(), each made once
  Limit,        \* rateLimitPerMin
  Window,       \* the 60_000 ms of the sliding window
  MaxTries,     \* maxAttempts
  Patience,     \* connectTimeoutMs + readTimeoutMs
  Delay         \* the back-offs and Retry-After values considered

ASSUME RequestsAreFinite == IsFiniteSet(Requests)
ASSUME LimitsArePositive == {Limit, Window, MaxTries, Patience} \subseteq Nat \ {0}
ASSUME DelaysAreNat == Delay \subseteq Nat /\ IsFiniteSet(Delay) /\ Delay # {}

VARIABLES
  stamps,     \* _requestTimestamps, oldest first
  phase,      \* where each request is
  timer,      \* the time left of its sleep, or of its attempt
  tries,      \* the attempts it has begun
  outcome,    \* what it returned
  sent,       \* history: the fetches made, as stamps are kept
  overlapped  \* history: two requests have been under way at once

hvars == <<stamps, phase, timer, tries, outcome, sent, overlapped>>

Age == 0..Window
Final == {"ok", "refused"}                \* a 2xx, or a 4xx that is not retried
Retriable == {"RATE_LIMITED", "SERVER_ERROR", "NETWORK_ERROR", "TIMEOUT"}

HttpTypeOK ==
  /\ stamps \in Seq(Age)
  /\ phase \in [Requests -> {"idle", "throttled", "sending", "backoff", "done"}]
  /\ timer \in [Requests -> Nat]
  /\ tries \in [Requests -> 0..MaxTries]
  /\ outcome \in [Requests -> Final \cup Retriable \cup {"none"}]
  /\ sent \in Seq(Age)
  /\ overlapped \in BOOLEAN

InitHttp ==
  /\ stamps = <<>>
  /\ phase = [r \in Requests |-> "idle"]
  /\ timer = [r \in Requests |-> 0]
  /\ tries = [r \in Requests |-> 0]
  /\ outcome = [r \in Requests |-> "none"]
  /\ sent = <<>>
  /\ overlapped = FALSE

----------------------------------------------------------------------------
\* The stamps in the window.  They are in order of time, so what the filter
\* keeps starts at the first of them.
firstFresh == Min({i \in DOMAIN stamps : stamps[i] < Window} \cup {Len(stamps) + 1})
Fresh == SubSeq(stamps, firstFresh, Len(stamps))

\* The end of _throttle() and, in the same microtasks, the fetch.
Fetch(r) ==
  /\ stamps' = Append(Fresh, 0)
  /\ phase' = [phase EXCEPT ![r] = "sending"]
  /\ timer' = [timer EXCEPT ![r] = Patience]
  /\ tries' = [tries EXCEPT ![r] = @ + 1]
  /\ sent' = Append(sent, 0)

\* Sleep until the oldest stamp leaves the window.
SleepFromOldest(r) ==
  /\ stamps' = Fresh
  /\ phase' = [phase EXCEPT ![r] = "throttled"]
  /\ timer' = [timer EXCEPT ![r] = Window - Fresh[1]]
  /\ UNCHANGED <<tries, sent>>

\* A turn of the retry loop begins.
Enter(r) ==
  /\ phase[r] = "idle" \/ (phase[r] = "backoff" /\ timer[r] = 0)
  /\ IF Len(Fresh) >= Limit THEN SleepFromOldest(r) ELSE Fetch(r)
  /\ overlapped' = (overlapped \/ \E q \in Requests \ {r} : phase[q] \notin {"idle", "done"})
  /\ UNCHANGED outcome

\* A bug: a throttled attempt is not counted.
WakeUncounted(r) ==
  /\ phase[r] = "throttled" /\ timer[r] = 0
  /\ stamps' = Fresh
  /\ phase' = [phase EXCEPT ![r] = "sending"]
  /\ timer' = [timer EXCEPT ![r] = Patience]
  /\ tries' = [tries EXCEPT ![r] = @ + 1]
  /\ sent' = Append(sent, 0)
  /\ UNCHANGED <<outcome, overlapped>>

\* After the sleep the window is pruned but not looked at again.
Wake(r) ==
  /\ phase[r] = "throttled" /\ timer[r] = 0
  /\ Fetch(r)
  /\ UNCHANGED <<outcome, overlapped>>

Deliver(r, o) ==
  /\ phase' = [phase EXCEPT ![r] = "done"]
  /\ outcome' = [outcome EXCEPT ![r] = o]
  /\ timer' = [timer EXCEPT ![r] = 0]

\* A bug: one attempt too many.
RetryOnceMore(r, o) ==
  IF tries[r] <= MaxTries
  THEN /\ \E d \in Delay : timer' = [timer EXCEPT ![r] = d]
       /\ phase' = [phase EXCEPT ![r] = "backoff"]
       /\ UNCHANGED outcome
  ELSE Deliver(r, o)

\* A bug: `attempt + 1 < this.maxAttempts`, for a count that starts at 0.
RetryOnceLess(r, o) ==
  IF tries[r] + 1 < MaxTries
  THEN /\ \E d \in Delay : timer' = [timer EXCEPT ![r] = d]
       /\ phase' = [phase EXCEPT ![r] = "backoff"]
       /\ UNCHANGED outcome
  ELSE Deliver(r, o)

\* A retriable failure: back off, as long as there are attempts left.
Retry(r, o) ==
  IF tries[r] < MaxTries
  THEN /\ \E d \in Delay : timer' = [timer EXCEPT ![r] = d]
       /\ phase' = [phase EXCEPT ![r] = "backoff"]
       /\ UNCHANGED outcome
  ELSE Deliver(r, o)

\* 2xx and 4xx end the request; 429 (or what shouldRetryResponse takes for
\* it), 5xx, a broken connection and an unreadable body are retried.
Answer(r, o) ==
  /\ phase[r] = "sending"
  /\ IF o \in Final THEN Deliver(r, o) ELSE Retry(r, o)
  /\ UNCHANGED <<stamps, tries, sent, overlapped>>

\* A bug: the timer is cleared once, not armed anew for a retry.
ExpireFirst(r) ==
  /\ phase[r] = "sending" /\ timer[r] = 0 /\ tries[r] = 1
  /\ Retry(r, "TIMEOUT")
  /\ UNCHANGED <<stamps, tries, sent, overlapped>>

Expire(r) ==
  /\ phase[r] = "sending" /\ timer[r] = 0
  /\ Retry(r, "TIMEOUT")
  /\ UNCHANGED <<stamps, tries, sent, overlapped>>

Tick ==
  /\ stamps' = [i \in DOMAIN stamps |-> Min({stamps[i] + 1, Window})]
  /\ timer' = [r \in Requests |-> Max({timer[r], 1}) - 1]
  /\ sent' = [i \in DOMAIN sent |-> Min({sent[i] + 1, Window})]
  /\ UNCHANGED <<phase, tries, outcome, overlapped>>

HttpNext ==
  \/ \E r \in Requests :
       \/ Enter(r) \/ Wake(r) \/ Expire(r)
       \/ \E o \in Final \cup (Retriable \ {"TIMEOUT"}) : Answer(r, o)
  \/ Tick

\* Time passes and Node runs its timers; the server owes us nothing.
HttpFairness ==
  /\ WF_hvars(Tick)
  /\ \A r \in Requests :
       /\ WF_hvars(phase[r] = "backoff" /\ Enter(r))
       /\ WF_hvars(Wake(r))
       /\ WF_hvars(Expire(r))

HttpSpec == InitHttp /\ [][HttpNext]_hvars
FairHttpSpec == HttpSpec /\ HttpFairness

----------------------------------------------------------------------------
\* Properties.

InWindow == Cardinality({i \in DOMAIN sent : sent[i] < Window})

\* Requests made one after the other keep the limit, retries and throttled
\* waits included.  (Overlapping ones do not, see RateIsLimited: those asleep
\* all wake for the same stamp, and each adds its own.)
SequentialRateIsLimited == ~overlapped => InWindow <= Limit

\* Failing, hanging and throttled attempts all come to an end, and the
\* throttle starves nobody: every request returns.
EveryRequestReturns == \A r \in Requests : phase[r] # "idle" ~> phase[r] = "done"

\* A retriable error reaches the caller only when every attempt is spent,
\* whichever mix of answers, timeouts and throttled waits spent them.
GivesUpExhausted == \A r \in Requests : outcome[r] \in Retriable => tries[r] = MaxTries

\* "Sliding-window rate limit (per-minute) with a configurable cap."  It does not hold
\* of concurrent requests: those asleep at once wake for the same stamp.
RateIsLimited == InWindow <= Limit

=============================================================================
