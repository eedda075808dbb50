------------------------------ MODULE Backoff ------------------------------
(***************************************************************************)
(* How long a failed delivery waits: Worker.retryDelay and the Retry-After *)
(* rule of ProcessOne (internal/delivery/delivery.go), parseRetryAfter     *)
(* (internal/delivery/webhook.go).  One delivery fails again and again.    *)
(*                                                                         *)
(* A duration is a signed integer of a fixed width, as time.Duration is.   *)
(***************************************************************************)
EXTENDS Integers

CONSTANTS
  Width,            \* bits of a duration, sign included
  Second,           \* time.Second, in units of a duration
  InitialDelays, MaxDelays,   \* configured retry delays
  Headers,          \* Retry-After headers that may arrive
  MaxFailures       \* bound: failures in a row

Pow2[n \in Nat] == IF n = 0 THEN 1 ELSE 2 * Pow2[n - 1]

MaxDuration == Pow2[Width - 1] - 1
\* What a product of two durations is in that width.
Wrap(n) == ((n + Pow2[Width - 1]) % Pow2[Width]) - Pow2[Width - 1]

\* A header is absent or unparsable, a number of seconds, or an HTTP date
\* "value" from now (time.Until saturates).
NoHeader == [kind |-> "none", value |-> 0]
Header == {NoHeader} \cup
          [kind : {"seconds", "date"}, value : -MaxDuration - 1..MaxDuration]

ASSUME DelayAssumption ==
  /\ Width \in Nat \ {0} /\ Second \in 1..MaxDuration
  /\ InitialDelays \cup MaxDelays \subseteq 1..MaxDuration
  /\ Headers \subseteq Header

\* Mutant: the overflow check of the loop is missing.
DoubledUnchecked(delay, max) == IF delay >= max THEN delay ELSE Wrap(delay * 2)

\* One turn of the loop of retryDelay; "return w.maxDelay" ends it at max.
Doubled(delay, max) ==
  IF delay >= max THEN delay
  ELSE IF delay > max \div 2 THEN max ELSE Wrap(delay * 2)

RetryDelay(initial, max, previousAttempts) ==
  LET After[i \in 0..previousAttempts] ==
        IF i = 0 THEN initial ELSE Doubled(After[i - 1], max)
      delay == After[previousAttempts]
  IN  IF delay > max THEN max ELSE delay

ParseRetryAfter(header) ==
  CASE header.kind = "none" -> 0
    [] header.kind = "seconds" ->
         IF header.value <= 0 THEN 0
         ELSE IF header.value > MaxDuration \div Second THEN MaxDuration
         ELSE Wrap(header.value * Second)
    [] header.kind = "date" -> IF header.value < 0 THEN 0 ELSE header.value

\* The delay that ProcessOne stores.
NextDelay(initial, max, previousAttempts, retryAfter) ==
  LET delay == RetryDelay(initial, max, previousAttempts)
  IN  IF retryAfter > delay
      THEN IF retryAfter > max THEN max ELSE retryAfter
      ELSE delay
-----------------------------------------------------------------------------
VARIABLES
  initial, max,   \* the configuration
  attempts,       \* failures so far
  header,         \* the Retry-After header of the last one
  wait            \* the delay stored for it

backoffVars == <<initial, max, attempts, header, wait>>

BackoffInit ==
  /\ initial \in InitialDelays /\ max \in MaxDelays /\ initial <= max
  /\ attempts = 0 /\ header = NoHeader /\ wait = 0

Fail(h) ==
  /\ attempts < MaxFailures
  /\ wait' = NextDelay(initial, max, attempts, ParseRetryAfter(h))
  /\ attempts' = attempts + 1
  /\ header' = h
  /\ UNCHANGED <<initial, max>>

\* A success ends the series; the next delivery starts anew.
Restart ==
  /\ attempts > 0
  /\ attempts' = 0 /\ header' = NoHeader /\ wait' = 0
  /\ UNCHANGED <<initial, max>>

BackoffNext == Restart \/ \E h \in Headers : Fail(h)

BackoffSpec == BackoffInit /\ [][BackoffNext]_backoffVars
-----------------------------------------------------------------------------
\* The larger of the capped exponential delay and of what Retry-After asks for,
\* itself capped: computed without width, so no overflow hides in it.
Capped(n) == IF n > max THEN max ELSE n
Requested == CASE header.kind = "none" -> 0
               [] header.kind = "seconds" -> header.value * Second
               [] header.kind = "date" -> header.value

\* The stored delay is the exponential delay or the longer one the destination
\* asked for, both capped at max_delay, for every number of failures and every
\* header, including those whose duration does not fit (retryDelay, ProcessOne,
\* parseRetryAfter).
DelayIsCappedMaximum ==
  attempts > 0 =>
    LET exponential == Capped(initial * Pow2[attempts - 1])
        asked == Capped(Requested)
    IN  wait = IF asked > exponential THEN asked ELSE exponential

\* Inductive: the configuration stays one that config.go accepts.
DelayInv ==
  /\ initial \in InitialDelays /\ max \in MaxDelays /\ initial <= max
  /\ attempts \in Nat
  /\ DelayIsCappedMaximum
=============================================================================
