------------------------------- MODULE MCRetry -------------------------------
(***************************************************************************)
(* Six retries, so that the exponential delay reaches its cap; durations   *)
(* of 22 bits at two ticks per millisecond, about plus and minus a quarter *)
(* of an hour; hints below, at and above a minute and beyond the width.    *)
(***************************************************************************)
EXTENDS Retry

E(k, r, ms, secs, date, body) ==
    [kind |-> k, isRetryable |-> r, ms |-> ms, secs |-> secs, date |-> date, body |-> body]

MCModulus == 2^22

MCErrors ==
    {E("network", FALSE, 0, 0, 0, 0), E("context", FALSE, 0, 0, 0, 0), E("api", FALSE, 0, 0, 0, 0)}
    \cup {E("api", TRUE, ms, 0, 0, 0) : ms \in {0, 1, 59999, 60000, 2000000}}
    \cup {E("api", TRUE, 0, s, 0, 0) : s \in {1, 59, 60, 75, 1000, 1500, 2098}}
    \cup {E("api", TRUE, 0, 0, 30 * Second, 0), E("api", TRUE, 0, 0, 0, 45)}
=============================================================================
