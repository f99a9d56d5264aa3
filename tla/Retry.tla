-------------------------------- MODULE Retry --------------------------------
(***************************************************************************)
(* withRetry (retry.go): a provider call is made again, after a delay,     *)
(* while its error is transient and the budget lasts.  Every entry point   *)
(* of the library makes its provider calls through it.                     *)
(*                                                                         *)
(* Time is counted in ticks.  Durations are signed integers of a fixed     *)
(* width, as time.Duration is: a product wraps around.  A server's hint is *)
(* the number it sends, 0 when it sends none.                              *)
(***************************************************************************)
EXTENDS Integers, Sequences

CONSTANTS
    maxRetries,     \* withRetry's budget, options.MaxRetries
    Millisecond,    \* ticks in a millisecond
    Modulus,        \* how many values a time.Duration has (2^64)
    Errors          \* what fn may fail with: [kind, isRetryable, ms, secs, date, body]

ASSUME RetryAssumption == maxRetries \in Nat
ASSUME TicksAssumption == Millisecond \in Nat \ {0} /\ Modulus \in Nat \ {0}
ASSUME ErrorsAssumption ==
    \A e \in Errors : /\ e.kind \in {"api", "network", "context", "other"}
                      /\ e.isRetryable \in BOOLEAN
                      /\ {e.ms, e.secs, e.date, e.body} \subseteq Nat

Second == 1000 * Millisecond

VARIABLES
    pc,             \* where withRetry is
    attempt,        \* retries made so far
    calls,          \* calls of fn (history)
    err,            \* the last error of fn
    delay,          \* what sleep waits for
    ctx,            \* "live" or "done"
    ret             \* what withRetry returns

retryVars == <<pc, attempt, calls, err, delay, ctx, ret>>

NoError == [kind |-> "none", isRetryable |-> FALSE, ms |-> 0, secs |-> 0, date |-> 0, body |-> 0]

-----------------------------------------------------------------------------
\* API errors say so themselves; transient network errors always are.
retryable(e) == \/ e.kind = "api" /\ e.isRetryable
                \/ e.kind = "network"

\* What a signed integer of the width holds after a product overflowed.
Wrap(n) == LET m == n % Modulus IN IF 2 * m < Modulus THEN m ELSE m - Modulus

\* The base of the exponential delay in seconds: 2, 4, 8, 16, 32, then 60.
backoffBase(n) == IF n < 5 THEN <<2, 4, 8, 16, 32>>[n + 1] ELSE 60

\* The delay for attempt n, with a jitter of 0.5 to 1.5 in tenths.
backoffDuration(n, jitter) == (backoffBase(n) * jitter * Second) \div 10

\* The hint of the server: the first header or phrase that gives a positive number.
retryAfterDuration(e) ==
    IF e.kind # "api" THEN 0
    ELSE IF e.ms > 0   THEN Wrap(e.ms * Millisecond)
    ELSE IF e.secs > 0 THEN Wrap(e.secs * Second)
    ELSE IF e.date > 0 THEN e.date
    ELSE Wrap(e.body * Second)

\* MUTANT: the hint is followed however long it is.
retryAsTold(e, n, jitter) ==
    IF retryAfterDuration(e) > 0 THEN retryAfterDuration(e) ELSE backoffDuration(n, jitter)

\* The hint, when it is reasonable; the exponential delay otherwise.
retryDelay(e, n, jitter) ==
    LET serverDelay == retryAfterDuration(e)
        expDelay    == backoffDuration(n, jitter)
    IN  IF serverDelay > 0 /\ (serverDelay < 60 * Second \/ serverDelay < expDelay)
        THEN serverDelay ELSE expDelay

-----------------------------------------------------------------------------
RetryInit ==
    /\ pc = "call" /\ attempt = 0 /\ calls = 0
    /\ err = NoError /\ delay = 0 /\ ctx \in {"live", "done"}
    /\ ret = "pending"

\* fn answers or fails.
Call ==
    /\ pc = "call"
    /\ calls' = calls + 1
    /\ err' \in Errors \cup {NoError}
    /\ pc' = "check"
    /\ UNCHANGED <<attempt, delay, ctx, ret>>

\* The loop goes on: the observer is told and sleep begins.
Retry ==
    /\ pc = "check"
    /\ retryable(err) /\ attempt < maxRetries
    /\ \E jitter \in 5..15 : delay' = retryDelay(err, attempt, jitter)
    /\ pc' = "sleep"
    /\ UNCHANGED <<attempt, calls, err, ctx, ret>>

\* MUTANT: the last error is wrapped whatever it is.
GiveUpExhausted ==
    /\ pc = "check"
    /\ ~(retryable(err) /\ attempt < maxRetries)
    /\ ret' = IF err = NoError THEN "result"
              ELSE IF attempt = maxRetries /\ maxRetries > 0 THEN "exhausted" ELSE "error"
    /\ pc' = "returned"
    /\ UNCHANGED <<attempt, calls, err, delay, ctx>>

\* The loop is left with a result, with the error, or with the error wrapped when
\* every retry was used and the error still asks for more.
GiveUp ==
    /\ pc = "check"
    /\ ~(retryable(err) /\ attempt < maxRetries)
    /\ ret' = IF err = NoError THEN "result"
              ELSE IF attempt = maxRetries /\ maxRetries > 0 /\ retryable(err)
                   THEN "exhausted" ELSE "error"
    /\ pc' = "returned"
    /\ UNCHANGED <<attempt, calls, err, delay, ctx>>

\* sleep: the timer or the context, by chance when both are ready.
sleep ==
    /\ pc = "sleep"
    /\ \/ attempt' = attempt + 1 /\ pc' = "call" /\ UNCHANGED ret
       \/ ctx = "done" /\ ret' = "cancelled" /\ pc' = "returned" /\ UNCHANGED attempt
    /\ UNCHANGED <<calls, err, delay, ctx>>

\* The caller's context ends at any time.
Cancel ==
    /\ ctx = "live" /\ pc # "returned"
    /\ ctx' = "done"
    /\ UNCHANGED <<pc, attempt, calls, err, delay, ret>>

Steps == Call \/ Retry \/ GiveUp \/ sleep
RetryNext == Steps \/ Cancel

\* fn returns and timers fire; nobody has to cancel.
RetrySpec == RetryInit /\ [][RetryNext]_retryVars /\ WF_retryVars(Steps)

-----------------------------------------------------------------------------
\* fn is called once for every retry and once more, and never beyond the budget: a
\* request that may have been served is not sent again for nothing.
CallsMatchAttempts ==
    /\ attempt <= maxRetries
    /\ calls = IF pc = "call" THEN attempt ELSE attempt + 1

\* fn is called again only for an error that is transient.
OnlyTransientRetried == [][(calls' > calls /\ calls > 0) => retryable(err)]_retryVars

\* "retries exhausted" is said only of a transient error that used up a budget; and a
\* transient error is returned bare only when there was no budget.
ExhaustedIsEarned ==
    /\ ret = "exhausted" => retryable(err) /\ calls = maxRetries + 1 /\ maxRetries > 0
    /\ ret = "error" /\ retryable(err) => maxRetries = 0

\* Whatever a server asks for, no delay is longer than the longest exponential one.
DelayBounded == pc = "sleep" => 0 < delay /\ delay <= 90 * Second

=============================================================================
