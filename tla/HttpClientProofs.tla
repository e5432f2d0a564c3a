-------------------------- MODULE HttpClientProofs --------------------------
(***************************************************************************)
(* What HttpClient proves for any number of requests, attempts and delays, *)
(* and for any limit and window: a caller is told of a retriable failure   *)
(* only when no attempt is left, and requests made one after the other     *)
(* keep the rate limit.                                                    *)
(*                                                                         *)
(* Between the two lies what the throttle keeps: its stamps are the end of *)
(* the log of fetches, and whatever of the log it has forgotten has left   *)
(* the window.  So the stamps bound the fetches in the window, and one     *)
(* request at a time bounds the stamps: a sleeper sleeps until the oldest  *)
(* of them leaves the window, and finds one place free when it wakes.      *)
(***************************************************************************)
EXTENDS HttpClient, FiniteSetTheorems, SequenceTheorems, WellFoundedInduction, TLAPS

----------------------------------------------------------------------------
\* The inductive invariant.  An attempt is begun only where one is left, and
\* a result is there only once the request has returned.

CountersFit ==
  /\ phase \in [Requests -> {"idle", "throttled", "sending", "backoff", "done"}]
  /\ tries \in [Requests -> 0..MaxTries]
  /\ DOMAIN outcome = Requests

AttemptIsLeft(r) ==
  /\ phase[r] \in {"idle", "throttled", "backoff"} => tries[r] < MaxTries
  /\ phase[r] # "done" => outcome[r] = "none"
  /\ outcome[r] \in Retriable => tries[r] = MaxTries

HInv == CountersFit /\ \A r \in Requests : AttemptIsLeft(r)

\* Enough for a step that is one request's own.
LEMMA OthersKeepTheirAttempts ==
  ASSUME HInv, CountersFit', NEW r \in Requests, AttemptIsLeft(r)',
         \A q \in Requests \ {r} :
           phase'[q] = phase[q] /\ tries'[q] = tries[q] /\ outcome'[q] = outcome[q]
  PROVE  HInv'
<1>1. ASSUME NEW q \in Requests PROVE AttemptIsLeft(q)'
  BY DEF HInv, AttemptIsLeft
<1> QED BY <1>1 DEF HInv

LEMMA SendKeepsHInv ==
  ASSUME HInv, NEW r \in Requests, Fetch(r), UNCHANGED outcome,
         phase[r] \in {"idle", "throttled", "backoff"}
  PROVE  HInv'
<1>1. tries[r] \in 0..MaxTries /\ tries[r] < MaxTries /\ outcome[r] = "none"
  BY DEF HInv, CountersFit, AttemptIsLeft
<1>2. tries[r] + 1 \in 0..MaxTries
  BY <1>1, LimitsArePositive
<1>3. CountersFit' /\ AttemptIsLeft(r)'
  BY <1>1, <1>2 DEF HInv, CountersFit, AttemptIsLeft, Fetch, Retriable
<1> QED BY <1>3, OthersKeepTheirAttempts DEF Fetch, HInv, CountersFit

LEMMA EnterKeepsHInv ==
  ASSUME HInv, NEW r \in Requests, Enter(r)
  PROVE  HInv'
<1>1. CASE Fetch(r)
  BY <1>1, SendKeepsHInv DEF Enter
<1>2. CASE SleepFromOldest(r)
  <2>1. CountersFit' /\ AttemptIsLeft(r)'
    BY <1>2 DEF Enter, SleepFromOldest, HInv, CountersFit, AttemptIsLeft
  <2> QED BY <1>2, <2>1, OthersKeepTheirAttempts
          DEF Enter, SleepFromOldest, HInv, CountersFit
<1> QED BY <1>1, <1>2 DEF Enter

LEMMA ReturnKeepsHInv ==
  ASSUME HInv, NEW r \in Requests, NEW o, Deliver(r, o), UNCHANGED tries,
         o \in Retriable => tries[r] = MaxTries
  PROVE  HInv'
<1>1. CountersFit' /\ AttemptIsLeft(r)'
  BY DEF Deliver, HInv, CountersFit, AttemptIsLeft
<1> QED BY <1>1, OthersKeepTheirAttempts DEF Deliver, HInv, CountersFit

LEMMA RetryKeepsHInv ==
  ASSUME HInv, NEW r \in Requests, NEW o, Retry(r, o), UNCHANGED tries, phase[r] = "sending"
  PROVE  HInv'
<1>1. CASE tries[r] < MaxTries
  <2>1. CountersFit' /\ AttemptIsLeft(r)'
    BY <1>1 DEF Retry, HInv, CountersFit, AttemptIsLeft, Retriable
  <2> QED BY <1>1, <2>1, OthersKeepTheirAttempts DEF Retry, HInv, CountersFit
<1>2. CASE ~(tries[r] < MaxTries)
  <2>1. tries[r] = MaxTries
    BY <1>2, LimitsArePositive DEF HInv, CountersFit
  <2> QED BY <1>2, <2>1, ReturnKeepsHInv DEF Retry
<1> QED BY <1>1, <1>2

LEMMA StepKeepsHInv == HInv /\ [HttpNext]_hvars => HInv'
<1> SUFFICES ASSUME HInv, [HttpNext]_hvars PROVE HInv'
  OBVIOUS
<1>1. ASSUME NEW r \in Requests, Wake(r) PROVE HInv'
  BY <1>1, SendKeepsHInv DEF Wake
<1>2. ASSUME NEW r \in Requests, Expire(r) PROVE HInv'
  BY <1>2, RetryKeepsHInv DEF Expire
<1>3. ASSUME NEW r \in Requests, NEW o \in Final \cup (Retriable \ {"TIMEOUT"}), Answer(r, o)
      PROVE  HInv'
  <2>1. o \in Final => o \notin Retriable
    BY DEF Final, Retriable
  <2> QED BY <1>3, <2>1, ReturnKeepsHInv, RetryKeepsHInv DEF Answer
<1>4. CASE Tick \/ UNCHANGED hvars
  BY <1>4 DEF Tick, hvars, HInv, CountersFit, AttemptIsLeft
<1> QED BY <1>1, <1>2, <1>3, <1>4, EnterKeepsHInv DEF HttpNext

----------------------------------------------------------------------------
\* A retriable error reaches the caller only when every attempt is spent, for
\* any mix of answers, timeouts and throttled waits of any number of requests.
THEOREM GivesUpExhaustedHolds == HttpSpec => []GivesUpExhausted
<1>1. InitHttp => HInv
  BY LimitsArePositive DEF InitHttp, HInv, CountersFit, AttemptIsLeft, Retriable
<1>2. HInv => GivesUpExhausted
  BY DEF HInv, AttemptIsLeft, GivesUpExhausted
<1> QED BY <1>1, <1>2, StepKeepsHInv, PTL DEF HttpSpec

----------------------------------------------------------------------------
\* Least and greatest elements, for the CHOOSE of Min and Max.

LEMMA LeastNat ==
  ASSUME NEW S \in SUBSET Nat, S # {}
  PROVE  Min(S) \in S /\ \A y \in S : Min(S) <= y
<1> DEFINE Before == OpToRel(<, Nat)
<1>1. IsWellFoundedOn(Before, Nat)
  BY NatLessThanWellFounded
<1>2. \A m, n \in Nat : m < n => <<m, n>> \in Before
  BY DEF OpToRel
<1> HIDE DEF Before
<1>3. PICK n \in S : \A m \in S : ~(<<m, n>> \in Before)
  BY <1>1, WFMin, Zenon
<1>4. ASSUME NEW m \in S PROVE n <= m
  <2>1. ~(m < n)
    BY <1>2, <1>3
  <2> QED BY <2>1
<1> QED BY <1>3, <1>4 DEF Min

LEMMA LesserOfTwo ==
  ASSUME NEW a \in Nat, NEW b \in Nat
  PROVE  Min({a, b}) = IF a <= b THEN a ELSE b
<1>1. Min({a, b}) \in {a, b} /\ Min({a, b}) <= a /\ Min({a, b}) <= b
  BY LeastNat
<1> QED BY <1>1

LEMMA GreaterOfTwo ==
  ASSUME NEW a \in Nat, NEW b \in Nat
  PROVE  Max({a, b}) = IF a <= b THEN b ELSE a
<1>1. \E x \in {a, b} : \A y \in {a, b} : x >= y
  BY DEF Max
<1>2. Max({a, b}) \in {a, b} /\ Max({a, b}) >= a /\ Max({a, b}) >= b
  BY <1>1 DEF Max
<1> QED BY <1>2

----------------------------------------------------------------------------
\* The throttle and the log of fetches.

WindowFits == stamps \in Seq(Age) /\ sent \in Seq(Age)

InOrder(st) == \A i, j \in 1..Len(st) : i <= j => st[j] <= st[i]

\* What is not among the stamps st, of a log lg that they end, has left the window.
EndsTheLog(st, lg) ==
  /\ Len(st) <= Len(lg)
  /\ \A i \in 1..Len(st) : st[i] = lg[Len(lg) - Len(st) + i]
  /\ \A i \in 1..(Len(lg) - Len(st)) : lg[i] = Window

WInv == WindowFits /\ InOrder(stamps) /\ EndsTheLog(stamps, sent)

\* Only what has left the window is pruned, and the pruned list starts in it.
LEMMA FirstFreshIs ==
  ASSUME WindowFits
  PROVE  /\ firstFresh \in 1..(Len(stamps) + 1)
         /\ \A i \in 1..Len(stamps) : i < firstFresh => stamps[i] = Window
         /\ firstFresh <= Len(stamps) => stamps[firstFresh] < Window
<1> DEFINE N == Len(stamps)
           S == {i \in 1..N : stamps[i] < Window} \cup {N + 1}
<1>1. N \in Nat /\ DOMAIN stamps = 1..N /\ \A i \in 1..N : stamps[i] \in Age
  BY LenProperties, ElementOfSeq DEF WindowFits
<1>2. firstFresh = Min(S)
  BY <1>1 DEF firstFresh
<1>3. S \subseteq 1..(N + 1) /\ S \in SUBSET Nat /\ S # {}
  BY <1>1
<1>4. firstFresh \in S /\ \A y \in S : firstFresh <= y
  BY <1>2, <1>3, LeastNat
<1>5. ASSUME NEW i \in 1..N, i < firstFresh PROVE stamps[i] = Window
  <2>1. i \notin S
    BY <1>1, <1>3, <1>4, <1>5
  <2>2. stamps[i] \in Age /\ ~(stamps[i] < Window)
    BY <1>1, <2>1
  <2> QED BY <2>2, LimitsArePositive DEF Age
<1>6. firstFresh \in 1..(N + 1)
  BY <1>3, <1>4
<1>7. firstFresh <= N => stamps[firstFresh] < Window
  BY <1>1, <1>4
<1> QED BY <1>5, <1>6, <1>7

LEMMA FreshIs ==
  ASSUME WindowFits
  PROVE  /\ Fresh \in Seq(Age)
         /\ Len(Fresh) = Len(stamps) + 1 - firstFresh
         /\ \A i \in 1..Len(Fresh) : Fresh[i] = stamps[firstFresh - 1 + i]
<1> DEFINE N == Len(stamps)
           f == firstFresh
<1>1. N \in Nat /\ \A i \in 1..N : stamps[i] \in Age
  BY LenProperties, ElementOfSeq DEF WindowFits
<1>2. f \in 1..(N + 1)
  BY FirstFreshIs
<1> HIDE DEF N, f
<1>3. f \in Int /\ N \in Int /\ \A i \in f..N : stamps[i] \in Age
  BY <1>1, <1>2
<1>4. /\ SubSeq(stamps, f, N) \in Seq(Age)
      /\ Len(SubSeq(stamps, f, N)) = IF f <= N THEN N - f + 1 ELSE 0
      /\ \A i \in 1..(N - f + 1) : SubSeq(stamps, f, N)[i] = stamps[f + i - 1]
  BY <1>3, SubSeqProperties
<1>5. Len(SubSeq(stamps, f, N)) = N + 1 - f
  BY <1>1, <1>2, <1>4
<1>6. ASSUME NEW i \in 1..(N + 1 - f) PROVE SubSeq(stamps, f, N)[i] = stamps[f - 1 + i]
  <2>1. i \in 1..(N - f + 1) /\ f + i - 1 = f - 1 + i
    BY <1>1, <1>2
  <2> QED BY <1>4, <2>1
<1> QED BY <1>4, <1>5, <1>6 DEF Fresh, N, f

\* In order of time, the pruned list is just what `t > windowStart` lets through.
LEMMA FreshIsTheFilter ==
  ASSUME WInv
  PROVE  {i \in 1..Len(stamps) : stamps[i] < Window} = firstFresh..Len(stamps)
<1> DEFINE N == Len(stamps)
<1>1. N \in Nat /\ \A i \in 1..N : stamps[i] \in Age
  BY LenProperties, ElementOfSeq DEF WInv, WindowFits
<1>2. /\ firstFresh \in 1..(N + 1)
      /\ \A i \in 1..N : i < firstFresh => stamps[i] = Window
      /\ firstFresh <= N => stamps[firstFresh] < Window
  BY FirstFreshIs DEF WInv
<1>3. ASSUME NEW i \in 1..N, stamps[i] < Window PROVE i \in firstFresh..N
  BY <1>1, <1>2, <1>3, LimitsArePositive DEF Age
<1>4. ASSUME NEW i \in firstFresh..N PROVE i \in 1..N /\ stamps[i] < Window
  <2>1. i \in 1..N /\ firstFresh \in 1..N /\ firstFresh <= i
    BY <1>1, <1>2, <1>4
  <2>2. stamps[i] <= stamps[firstFresh] /\ stamps[firstFresh] < Window
    BY <1>2, <2>1 DEF WInv, InOrder
  <2> QED BY <1>1, <2>1, <2>2, LimitsArePositive DEF Age
<1> QED BY <1>3, <1>4

LEMMA PruningKeeps ==
  ASSUME WInv
  PROVE  InOrder(Fresh) /\ EndsTheLog(Fresh, sent)
<1> DEFINE N == Len(stamps)
           L == Len(sent)
           f == firstFresh
           K == Len(Fresh)
<1>1. N \in Nat /\ L \in Nat /\ f \in 1..(N + 1)
  BY LenProperties, FirstFreshIs DEF WInv, WindowFits
<1>2. K = N + 1 - f /\ \A i \in 1..K : Fresh[i] = stamps[f - 1 + i]
  BY FreshIs DEF WInv
<1>3. /\ N <= L
      /\ \A i \in 1..N : stamps[i] = sent[L - N + i]
      /\ \A i \in 1..(L - N) : sent[i] = Window
  BY DEF WInv, EndsTheLog
<1>4. \A i \in 1..N : i < f => stamps[i] = Window
  BY FirstFreshIs DEF WInv
<1>5. \A i, j \in 1..N : i <= j => stamps[j] <= stamps[i]
  BY DEF WInv, InOrder
<1> HIDE DEF N, L, f, K
<1>6. ASSUME NEW i \in 1..K, NEW j \in 1..K, i <= j PROVE Fresh[j] <= Fresh[i]
  <2>1. f - 1 + i \in 1..N /\ f - 1 + j \in 1..N /\ f - 1 + i <= f - 1 + j
    BY <1>1, <1>2, <1>6
  <2> QED BY <1>2, <1>5, <2>1
<1>7. ASSUME NEW i \in 1..K PROVE Fresh[i] = sent[L - K + i]
  <2>1. f - 1 + i \in 1..N /\ L - N + (f - 1 + i) = L - K + i
    BY <1>1, <1>2
  <2> QED BY <1>2, <1>3, <2>1
<1>8. ASSUME NEW i \in 1..(L - K) PROVE sent[i] = Window
  <2>1. CASE i <= L - N
    BY <1>1, <1>3, <2>1
  <2>2. CASE ~(i <= L - N)
    <3>1. i - (L - N) \in 1..N /\ i - (L - N) < f /\ L - N + (i - (L - N)) = i
      BY <1>1, <1>2, <1>3, <2>2
    <3> QED BY <1>3, <1>4, <3>1
  <2> QED BY <2>1, <2>2
<1>9. K <= L
  BY <1>1, <1>2, <1>3
<1> QED BY <1>6, <1>7, <1>8, <1>9 DEF InOrder, EndsTheLog, K, L

\* A fetch is the newest entry of both.
LEMMA FetchingKeeps ==
  ASSUME NEW st \in Seq(Age), NEW lg \in Seq(Age), InOrder(st), EndsTheLog(st, lg)
  PROVE  /\ Append(st, 0) \in Seq(Age) /\ Append(lg, 0) \in Seq(Age)
         /\ InOrder(Append(st, 0)) /\ EndsTheLog(Append(st, 0), Append(lg, 0))
<1> DEFINE N == Len(st)
           L == Len(lg)
           ST == Append(st, 0)
           LG == Append(lg, 0)
<1>1. 0 \in Age
  BY LimitsArePositive DEF Age
<1>2. /\ ST \in Seq(Age) /\ Len(ST) = N + 1
      /\ \A i \in 1..N : ST[i] = st[i]
      /\ ST[N + 1] = 0
  BY <1>1, AppendProperties
<1>3. /\ LG \in Seq(Age) /\ Len(LG) = L + 1
      /\ \A i \in 1..L : LG[i] = lg[i]
      /\ LG[L + 1] = 0
  BY <1>1, AppendProperties
<1>4. N \in Nat /\ L \in Nat /\ \A i \in 1..N : st[i] \in Age
  BY LenProperties, ElementOfSeq
<1>5. /\ N <= L
      /\ \A i \in 1..N : st[i] = lg[L - N + i]
      /\ \A i \in 1..(L - N) : lg[i] = Window
  BY DEF EndsTheLog
<1>6. \A i, j \in 1..N : i <= j => st[j] <= st[i]
  BY DEF InOrder
<1> HIDE DEF N, L, ST, LG
<1>7. ASSUME NEW i \in 1..(N + 1), NEW j \in 1..(N + 1), i <= j PROVE ST[j] <= ST[i]
  <2>1. CASE j = N + 1
    <3>1. ST[i] \in Age
      BY <1>2, ElementOfSeq
    <3> QED BY <1>2, <2>1, <3>1, LimitsArePositive DEF Age
  <2>2. CASE j # N + 1
    <3>1. i \in 1..N /\ j \in 1..N
      BY <1>4, <1>7, <2>2
    <3> QED BY <1>2, <1>6, <1>7, <3>1
  <2> QED BY <2>1, <2>2
<1>8. ASSUME NEW i \in 1..(N + 1) PROVE ST[i] = LG[(L + 1) - (N + 1) + i]
  <2>1. CASE i = N + 1
    <3>1. (L + 1) - (N + 1) + i = L + 1
      BY <1>4, <2>1
    <3> QED BY <1>2, <1>3, <2>1, <3>1
  <2>2. CASE i # N + 1
    <3>1. i \in 1..N /\ (L + 1) - (N + 1) + i = L - N + i /\ L - N + i \in 1..L
      BY <1>4, <1>5, <2>2
    <3> QED BY <1>2, <1>3, <1>5, <3>1
  <2> QED BY <2>1, <2>2
<1>9. ASSUME NEW i \in 1..((L + 1) - (N + 1)) PROVE LG[i] = Window
  <2>1. i \in 1..(L - N) /\ i \in 1..L
    BY <1>4, <1>5
  <2> QED BY <1>3, <1>5, <2>1
<1>10. N + 1 <= L + 1
  BY <1>4, <1>5
<1>11. InOrder(ST)
  BY <1>2, <1>7 DEF InOrder
<1>12. EndsTheLog(ST, LG)
  BY <1>2, <1>3, <1>8, <1>9, <1>10 DEF EndsTheLog
<1> QED BY <1>2, <1>3, <1>11, <1>12 DEF ST, LG

\* A tick ages every entry of a list, up to Window.
Aged(st) == [i \in DOMAIN st |-> Min({st[i] + 1, Window})]

LEMMA AgedIs ==
  ASSUME NEW st \in Seq(Age)
  PROVE  /\ Aged(st) \in Seq(Age)
         /\ Len(Aged(st)) = Len(st)
         /\ \A i \in 1..Len(st) :
              Aged(st)[i] = IF st[i] + 1 <= Window THEN st[i] + 1 ELSE Window
<1>1. Len(st) \in Nat /\ DOMAIN st = 1..Len(st) /\ \A i \in 1..Len(st) : st[i] \in Age
  BY LenProperties, ElementOfSeq
<1>2. ASSUME NEW i \in 1..Len(st)
      PROVE  Min({st[i] + 1, Window}) = IF st[i] + 1 <= Window THEN st[i] + 1 ELSE Window
  <2>1. Window \in Nat
    BY LimitsArePositive
  <2>2. st[i] + 1 \in Nat
    BY <1>1, <2>1 DEF Age
  <2> QED BY <2>1, <2>2, LesserOfTwo
<1>3. ASSUME NEW i \in 1..Len(st) PROVE Min({st[i] + 1, Window}) \in Age
  <2>1. Window \in Nat /\ st[i] \in Nat
    BY <1>1, LimitsArePositive DEF Age
  <2> QED BY <1>2, <2>1 DEF Age
<1> DEFINE E(i) == Min({st[i] + 1, Window})
<1>4. Aged(st) = [i \in 1..Len(st) |-> E(i)]
  BY <1>1 DEF Aged
<1>5. \A i \in 1..Len(st) : E(i) \in Age
  BY <1>3
<1>6. \A i \in 1..Len(st) : Aged(st)[i] = E(i)
  BY <1>4
<1> HIDE DEF E
<1>7. Aged(st) \in Seq(Age) /\ Len(Aged(st)) = Len(st)
  BY <1>1, <1>4, <1>5
<1> QED BY <1>2, <1>6, <1>7 DEF E

LEMMA AgingKeeps ==
  ASSUME NEW st \in Seq(Age), NEW lg \in Seq(Age), InOrder(st), EndsTheLog(st, lg)
  PROVE  InOrder(Aged(st)) /\ EndsTheLog(Aged(st), Aged(lg))
<1>1. /\ Len(st) \in Nat /\ Len(lg) \in Nat
      /\ \A i \in 1..Len(st) : st[i] \in Age
      /\ \A i \in 1..Len(lg) : lg[i] \in Age
  BY LenProperties, ElementOfSeq
<1>2. /\ Len(Aged(st)) = Len(st)
      /\ \A i \in 1..Len(st) :
           Aged(st)[i] = IF st[i] + 1 <= Window THEN st[i] + 1 ELSE Window
  BY AgedIs
<1>3. /\ Len(Aged(lg)) = Len(lg)
      /\ \A i \in 1..Len(lg) :
           Aged(lg)[i] = IF lg[i] + 1 <= Window THEN lg[i] + 1 ELSE Window
  BY AgedIs
<1>4. ASSUME NEW i \in 1..Len(st), NEW j \in 1..Len(st), i <= j
      PROVE  Aged(st)[j] <= Aged(st)[i]
  <2>1. st[j] <= st[i]
    BY <1>4 DEF InOrder
  <2>2. st[i] \in Nat /\ st[j] \in Nat
    BY <1>1 DEF Age
  <2> QED BY <1>2, <2>1, <2>2, LimitsArePositive
<1>5. ASSUME NEW i \in 1..Len(st) PROVE Aged(st)[i] = Aged(lg)[Len(lg) - Len(st) + i]
  <2>1. Len(lg) - Len(st) + i \in 1..Len(lg)
    BY <1>1 DEF EndsTheLog
  <2>2. st[i] = lg[Len(lg) - Len(st) + i]
    BY DEF EndsTheLog
  <2> QED BY <1>2, <1>3, <2>1, <2>2
<1>6. ASSUME NEW i \in 1..(Len(lg) - Len(st)) PROVE Aged(lg)[i] = Window
  <2>1. i \in 1..Len(lg) /\ lg[i] = Window
    BY <1>1 DEF EndsTheLog
  <2> QED BY <1>3, <2>1, LimitsArePositive
<1>7. InOrder(Aged(st))
  BY <1>2, <1>4 DEF InOrder
<1>8. Len(Aged(st)) <= Len(Aged(lg))
  BY <1>2, <1>3 DEF EndsTheLog
<1> QED BY <1>2, <1>3, <1>5, <1>6, <1>7, <1>8 DEF EndsTheLog

\* So the stamps bound the fetches in the window.
LEMMA StampsBoundTheWindow == WInv => InWindow <= Len(stamps)
<1> SUFFICES ASSUME WInv PROVE InWindow <= Len(stamps)
  OBVIOUS
<1> DEFINE N == Len(stamps)
           L == Len(sent)
           S == {i \in 1..L : sent[i] < Window}
<1>1. N \in Nat /\ L \in Nat /\ DOMAIN sent = 1..L
  BY LenProperties DEF WInv, WindowFits
<1>2. N <= L /\ \A i \in 1..(L - N) : sent[i] = Window
  BY DEF WInv, EndsTheLog
<1>3. InWindow = Cardinality(S)
  BY <1>1 DEF InWindow
<1>4. S \subseteq (L - N + 1)..L
  <2> SUFFICES ASSUME NEW i \in 1..L, sent[i] < Window PROVE i \in (L - N + 1)..L
    OBVIOUS
  <2>1. sent[i] # Window
    BY LimitsArePositive
  <2> QED BY <1>1, <1>2, <2>1
<1> HIDE DEF N, L, S
<1>5. IsFiniteSet((L - N + 1)..L) /\ Cardinality((L - N + 1)..L) = N
  <2>1. L - N + 1 \in Int /\ L \in Int
    BY <1>1
  <2>2. /\ IsFiniteSet((L - N + 1)..L)
        /\ Cardinality((L - N + 1)..L)
             = IF L - N + 1 > L THEN 0 ELSE L - (L - N + 1) + 1
    BY <2>1, FS_Interval
  <2> QED BY <1>1, <2>2
<1>6. Cardinality(S) <= Cardinality((L - N + 1)..L)
  BY <1>4, <1>5, FS_Subset
<1> QED BY <1>3, <1>5, <1>6 DEF N

LEMMA StepKeepsWInv == WInv /\ [HttpNext]_hvars => WInv'
<1> SUFFICES ASSUME WInv, [HttpNext]_hvars PROVE WInv'
  OBVIOUS
<1>1. stamps \in Seq(Age) /\ sent \in Seq(Age) /\ InOrder(stamps) /\ EndsTheLog(stamps, sent)
  BY DEF WInv, WindowFits
<1>2. Fresh \in Seq(Age) /\ InOrder(Fresh) /\ EndsTheLog(Fresh, sent)
  BY FreshIs, PruningKeeps DEF WInv
<1>3. ASSUME NEW r \in Requests, Fetch(r) PROVE WInv'
  <2>1. stamps' = Append(Fresh, 0) /\ sent' = Append(sent, 0)
    BY <1>3 DEF Fetch
  <2> QED BY <1>1, <1>2, <2>1, FetchingKeeps DEF WInv, WindowFits
<1>4. ASSUME NEW r \in Requests, SleepFromOldest(r) PROVE WInv'
  <2>1. stamps' = Fresh /\ sent' = sent
    BY <1>4 DEF SleepFromOldest
  <2> QED BY <1>1, <1>2, <2>1 DEF WInv, WindowFits
<1>5. CASE UNCHANGED <<stamps, sent>>
  BY <1>1, <1>5 DEF WInv, WindowFits
<1>6. CASE Tick
  <2>1. stamps' = Aged(stamps) /\ sent' = Aged(sent)
    BY <1>6 DEF Tick, Aged
  <2>2. Aged(stamps) \in Seq(Age) /\ Aged(sent) \in Seq(Age)
    BY <1>1, AgedIs
  <2>3. InOrder(Aged(stamps)) /\ EndsTheLog(Aged(stamps), Aged(sent))
    BY <1>1, AgingKeeps
  <2> QED BY <2>1, <2>2, <2>3 DEF WInv, WindowFits
<1> QED BY <1>3, <1>4, <1>5, <1>6 DEF HttpNext, Enter, Wake, Expire, Answer, hvars

----------------------------------------------------------------------------
\* The types, which the invariants above let every step keep: a sleep is
\* never negative, an attempt is begun only where one is left.

LEMMA OldestIs ==
  ASSUME WInv, Len(Fresh) >= Limit
  PROVE  Len(Fresh) >= 1 /\ Fresh[1] \in Age /\ Window - Fresh[1] \in Nat
<1>1. Fresh \in Seq(Age) /\ Len(Fresh) \in Nat
  BY FreshIs, LenProperties DEF WInv
<1>2. Len(Fresh) >= 1
  BY <1>1, LimitsArePositive
<1>3. Fresh[1] \in Age
  BY <1>1, <1>2, ElementOfSeq
<1> QED BY <1>2, <1>3, LimitsArePositive DEF Age

LEMMA SendKeepsTypes ==
  ASSUME HttpTypeOK, NEW r \in Requests, Fetch(r), tries[r] < MaxTries
  PROVE  /\ phase' \in [Requests -> {"idle", "throttled", "sending", "backoff", "done"}]
         /\ timer' \in [Requests -> Nat]
         /\ tries' \in [Requests -> 0..MaxTries]
<1>1. tries[r] + 1 \in 0..MaxTries
  BY LimitsArePositive DEF HttpTypeOK
<1>2. Patience \in Nat
  BY LimitsArePositive
<1> QED BY <1>1, <1>2 DEF Fetch, HttpTypeOK

LEMMA RetryKeepsTypes ==
  ASSUME HttpTypeOK, NEW r \in Requests, NEW o \in Final \cup Retriable,
         Retry(r, o) \/ Deliver(r, o), UNCHANGED <<stamps, tries, sent, overlapped>>, WInv'
  PROVE  HttpTypeOK'
<1>1. CASE Deliver(r, o)
  BY <1>1 DEF Deliver, HttpTypeOK, WInv, WindowFits
<1>2. CASE \E d \in Delay : timer' = [timer EXCEPT ![r] = d]
                          /\ phase' = [phase EXCEPT ![r] = "backoff"]
                          /\ UNCHANGED outcome
  BY <1>2, DelaysAreNat DEF HttpTypeOK, WInv, WindowFits
<1> QED BY <1>1, <1>2 DEF Retry

LEMMA StepKeepsTypes == HttpTypeOK /\ HInv /\ WInv /\ WInv' /\ [HttpNext]_hvars => HttpTypeOK'
<1> SUFFICES ASSUME HttpTypeOK, HInv, WInv, WInv', [HttpNext]_hvars PROVE HttpTypeOK'
  OBVIOUS
<1>1. ASSUME NEW r \in Requests, Enter(r) PROVE HttpTypeOK'
  <2>1. tries[r] < MaxTries
    BY <1>1 DEF Enter, HInv, AttemptIsLeft
  <2>2. CASE Fetch(r)
    BY <1>1, <2>1, <2>2, SendKeepsTypes DEF Enter, HttpTypeOK, WInv, WindowFits
  <2>3. CASE Len(Fresh) >= Limit /\ SleepFromOldest(r)
    <3>1. Window - Fresh[1] \in Nat
      BY <2>3, OldestIs
    <3> QED BY <1>1, <2>3, <3>1 DEF Enter, SleepFromOldest, HttpTypeOK, WInv, WindowFits
  <2> QED BY <1>1, <2>2, <2>3 DEF Enter
<1>2. ASSUME NEW r \in Requests, Wake(r) PROVE HttpTypeOK'
  <2>1. tries[r] < MaxTries
    BY <1>2 DEF Wake, HInv, AttemptIsLeft
  <2> QED BY <1>2, <2>1, SendKeepsTypes DEF Wake, HttpTypeOK, WInv, WindowFits
<1>3. ASSUME NEW r \in Requests, Expire(r) PROVE HttpTypeOK'
  BY <1>3, RetryKeepsTypes DEF Expire, Retriable
<1>4. ASSUME NEW r \in Requests, NEW o \in Final \cup (Retriable \ {"TIMEOUT"}), Answer(r, o)
      PROVE  HttpTypeOK'
  BY <1>4, RetryKeepsTypes DEF Answer
<1>5. CASE Tick
  <2>1. ASSUME NEW r \in Requests PROVE Max({timer[r], 1}) - 1 \in Nat
    <3>1. timer[r] \in Nat
      BY DEF HttpTypeOK
    <3> QED BY <3>1, GreaterOfTwo
  <2> QED BY <1>5, <2>1 DEF Tick, HttpTypeOK, WInv, WindowFits
<1>6. CASE UNCHANGED hvars
  BY <1>6 DEF hvars, HttpTypeOK
<1> QED BY <1>1, <1>2, <1>3, <1>4, <1>5, <1>6 DEF HttpNext

----------------------------------------------------------------------------
\* One request at a time.

UnderWay(r) == phase[r] \notin {"idle", "done"}

\* A sleeper sleeps until the oldest stamp has left the window.
OutlastsOldest(r) == Len(stamps) >= 1 /\ stamps[1] + timer[r] >= Window

OneAtATime ==
  /\ \A p, q \in Requests : UnderWay(p) /\ UnderWay(q) => p = q
  /\ Len(stamps) <= Limit
  /\ \A r \in Requests : phase[r] = "throttled" => OutlastsOldest(r)

\* Nobody but r is under way after a step of r's.
LEMMA Alone ==
  ASSUME HttpTypeOK, NEW r \in Requests, ~overlapped', ~overlapped => OneAtATime,
         Enter(r) \/ (UnderWay(r) /\ UNCHANGED overlapped),
         \A q \in Requests \ {r} : phase'[q] = phase[q]
  PROVE  \A q \in Requests \ {r} : ~UnderWay(q) /\ ~UnderWay(q)'
<1> SUFFICES ASSUME NEW q \in Requests \ {r} PROVE ~UnderWay(q)
  BY DEF UnderWay
<1>1. CASE Enter(r)
  BY <1>1 DEF Enter, UnderWay
<1>2. CASE UnderWay(r) /\ UNCHANGED overlapped
  BY <1>2 DEF OneAtATime
<1> QED BY <1>1, <1>2

LEMMA AloneIsEnough ==
  ASSUME NEW r \in Requests, \A q \in Requests \ {r} : ~UnderWay(q)',
         Len(stamps') <= Limit, phase'[r] = "throttled" => OutlastsOldest(r)'
  PROVE  OneAtATime'
BY DEF OneAtATime, UnderWay

LEMMA StepKeepsOneAtATime ==
  ASSUME HttpTypeOK, WInv, ~overlapped => OneAtATime, [HttpNext]_hvars, ~overlapped'
  PROVE  OneAtATime'
<1>1. /\ stamps \in Seq(Age) /\ Fresh \in Seq(Age) /\ Len(stamps) \in Nat /\ Len(Fresh) \in Nat
      /\ Len(Fresh) = Len(stamps) + 1 - firstFresh /\ firstFresh \in 1..(Len(stamps) + 1)
  BY FreshIs, FirstFreshIs, LenProperties DEF WInv, WindowFits
<1>2. Len(Append(Fresh, 0)) = Len(Fresh) + 1
  <2>1. 0 \in Age
    BY LimitsArePositive DEF Age
  <2> QED BY <1>1, <2>1, AppendProperties
<1>3. ASSUME NEW r \in Requests, Enter(r) PROVE OneAtATime'
  <2>1. ~overlapped /\ OneAtATime
    BY <1>3 DEF Enter
  <2>2. \A q \in Requests \ {r} : phase'[q] = phase[q]
    BY <1>3 DEF Enter, Fetch, SleepFromOldest, HttpTypeOK
  <2>3. \A q \in Requests \ {r} : ~UnderWay(q)'
    BY <1>3, <2>2, Alone
  <2>4. CASE ~(Len(Fresh) >= Limit) /\ Fetch(r)
    <3>1. Len(stamps') <= Limit
      BY <1>1, <1>2, <2>4, LimitsArePositive DEF Fetch
    <3>2. phase'[r] # "throttled"
      BY <2>4 DEF Fetch, HttpTypeOK
    <3> QED BY <2>3, <3>1, <3>2, AloneIsEnough
  <2>5. CASE Len(Fresh) >= Limit /\ SleepFromOldest(r)
    <3>1. Len(stamps') <= Limit
      BY <1>1, <2>1, <2>5, LimitsArePositive DEF SleepFromOldest, OneAtATime
    <3>2. Len(Fresh) >= 1 /\ Fresh[1] \in Age /\ Window - Fresh[1] \in Nat
      BY <2>5, OldestIs
    <3>3. stamps' = Fresh /\ timer'[r] = Window - Fresh[1]
      BY <2>5 DEF SleepFromOldest, HttpTypeOK
    <3>4. OutlastsOldest(r)'
      BY <3>2, <3>3, LimitsArePositive DEF OutlastsOldest, Age
    <3> QED BY <2>3, <3>1, <3>4, AloneIsEnough
  <2> QED BY <1>3, <2>4, <2>5 DEF Enter
<1>4. ASSUME NEW r \in Requests, Wake(r) PROVE OneAtATime'
  <2>1. ~overlapped /\ OneAtATime /\ UnderWay(r) /\ UNCHANGED overlapped
    BY <1>4 DEF Wake, UnderWay
  <2>2. \A q \in Requests \ {r} : phase'[q] = phase[q]
    BY <1>4 DEF Wake, Fetch, HttpTypeOK
  <2>3. \A q \in Requests \ {r} : ~UnderWay(q)'
    BY <2>1, <2>2, Alone
  <2>4. Len(stamps) >= 1 /\ stamps[1] + 0 >= Window
    BY <1>4, <2>1 DEF Wake, OneAtATime, OutlastsOldest
  <2>5. firstFresh # 1
    <3>1. firstFresh <= Len(stamps) => stamps[firstFresh] < Window
      BY FirstFreshIs DEF WInv
    <3>2. stamps[1] \in Age
      BY <1>1, <2>4, ElementOfSeq
    <3>3. stamps[1] \in Nat
      BY <3>2 DEF Age
    <3> QED BY <2>4, <3>1, <3>3, LimitsArePositive
  <2>6. Len(Fresh) + 1 <= Limit
    BY <1>1, <2>1, <2>5, LimitsArePositive DEF OneAtATime
  <2>7. Len(stamps') <= Limit /\ phase'[r] # "throttled"
    BY <1>2, <1>4, <2>6 DEF Wake, Fetch, HttpTypeOK
  <2> QED BY <2>3, <2>7, AloneIsEnough
<1>5. ASSUME NEW r \in Requests, phase[r] = "sending", UNCHANGED <<stamps, overlapped>>,
             NEW s \in {"backoff", "done"}, phase' = [phase EXCEPT ![r] = s]
      PROVE  OneAtATime'
  <2>1. ~overlapped /\ OneAtATime /\ UnderWay(r) /\ UNCHANGED overlapped
    BY <1>5 DEF UnderWay
  <2>2. \A q \in Requests \ {r} : phase'[q] = phase[q]
    BY <1>5 DEF HttpTypeOK
  <2>3. \A q \in Requests \ {r} : ~UnderWay(q)'
    BY <2>1, <2>2, Alone
  <2>4. Len(stamps') <= Limit /\ phase'[r] # "throttled"
    BY <1>5, <2>1 DEF OneAtATime, HttpTypeOK
  <2> QED BY <2>3, <2>4, AloneIsEnough
<1>6. ASSUME NEW r \in Requests, Expire(r) PROVE OneAtATime'
  BY <1>5, <1>6 DEF Expire, Retry, Deliver
<1>7. ASSUME NEW r \in Requests, NEW o \in Final \cup (Retriable \ {"TIMEOUT"}), Answer(r, o)
      PROVE  OneAtATime'
  BY <1>5, <1>7 DEF Answer, Retry, Deliver
<1>8. CASE Tick
  <2>1. ~overlapped /\ OneAtATime /\ phase' = phase
    BY <1>8 DEF Tick
  <2>2. /\ Len(stamps') = Len(stamps)
        /\ \A i \in 1..Len(stamps) :
             stamps'[i] = IF stamps[i] + 1 <= Window THEN stamps[i] + 1 ELSE Window
    BY <1>1, <1>8, AgedIs DEF Tick, Aged
  <2>3. ASSUME NEW r \in Requests, phase[r] = "throttled" PROVE OutlastsOldest(r)'
    <3>1. Len(stamps) >= 1 /\ stamps[1] + timer[r] >= Window
      BY <2>1, <2>3 DEF OneAtATime, OutlastsOldest
    <3>2. stamps[1] \in Nat /\ timer[r] \in Nat
      <4>1. stamps[1] \in Age
        BY <1>1, <3>1, ElementOfSeq
      <4> QED BY <4>1 DEF Age, HttpTypeOK
    <3>3. timer'[r] = (IF timer[r] <= 1 THEN 1 ELSE timer[r]) - 1
      BY <1>8, <3>2, GreaterOfTwo DEF Tick
    <3>4. stamps'[1] = IF stamps[1] + 1 <= Window THEN stamps[1] + 1 ELSE Window
      BY <1>1, <2>2, <3>1
    <3>5. stamps'[1] + timer'[r] >= Window
      BY <3>1, <3>2, <3>3, <3>4, LimitsArePositive
    <3> QED BY <2>2, <3>1, <3>5 DEF OutlastsOldest
  <2> QED BY <2>1, <2>2, <2>3 DEF OneAtATime, UnderWay
<1>9. CASE UNCHANGED hvars
  BY <1>9 DEF hvars, OneAtATime, UnderWay, OutlastsOldest
<1> QED BY <1>3, <1>4, <1>6, <1>7, <1>8, <1>9 DEF HttpNext

----------------------------------------------------------------------------
\* Together.

RInv == HttpTypeOK /\ HInv /\ WInv /\ (~overlapped => OneAtATime)

LEMMA InitHasRInv == InitHttp => RInv
<1> SUFFICES ASSUME InitHttp PROVE RInv
  OBVIOUS
<1>1. <<>> \in Seq(Age) /\ Len(<<>>) = 0
  BY EmptySeq
<1>2. HttpTypeOK
  <2>1. 0 \in Nat /\ 0 \in 0..MaxTries
    BY LimitsArePositive
  <2> QED BY <1>1, <2>1 DEF InitHttp, HttpTypeOK
<1>3. HInv
  BY LimitsArePositive DEF InitHttp, HInv, CountersFit, AttemptIsLeft, Retriable
<1>4. WInv
  BY <1>1 DEF InitHttp, WInv, WindowFits, InOrder, EndsTheLog
<1>5. OneAtATime
  BY <1>1, LimitsArePositive DEF InitHttp, OneAtATime, UnderWay
<1> QED BY <1>2, <1>3, <1>4, <1>5 DEF RInv

THEOREM Invariance == HttpSpec => []RInv
<1>1. RInv /\ [HttpNext]_hvars => RInv'
  BY StepKeepsHInv, StepKeepsWInv, StepKeepsTypes, StepKeepsOneAtATime DEF RInv
<1> QED BY <1>1, InitHasRInv, PTL DEF HttpSpec

\* Every variable keeps its type; no sleep is ever negative.
THEOREM TypeCorrect == HttpSpec => []HttpTypeOK
BY Invariance, PTL DEF RInv

\* Requests made one after the other never have more than Limit fetches in a
\* window, whatever their retries and throttled waits, for any limit.
THEOREM SequentialRateIsLimitedHolds == HttpSpec => []SequentialRateIsLimited
<1>1. RInv => SequentialRateIsLimited
  <2> SUFFICES ASSUME RInv, ~overlapped PROVE InWindow <= Limit
    BY DEF SequentialRateIsLimited
  <2>1. InWindow <= Len(stamps) /\ Len(stamps) <= Limit
    BY StampsBoundTheWindow DEF RInv, OneAtATime
  <2>2. Len(stamps) \in Nat /\ InWindow \in Nat
    <3>1. DOMAIN sent = 1..Len(sent) /\ Len(sent) \in Nat /\ Len(stamps) \in Nat
      BY LenProperties DEF RInv, WInv, WindowFits
    <3>2. IsFiniteSet(1..Len(sent))
      BY <3>1, FS_Interval
    <3>3. IsFiniteSet({i \in DOMAIN sent : sent[i] < Window})
      BY <3>1, <3>2, FS_Subset
    <3> QED BY <3>1, <3>3, FS_CardinalityType DEF InWindow
  <2> QED BY <2>1, <2>2, LimitsArePositive
<1> QED BY <1>1, Invariance, PTL

=============================================================================
