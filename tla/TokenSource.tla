---------------------------- MODULE TokenSource ----------------------------
(***************************************************************************)
(* The caching token sources under concurrent callers: provider/token.go's *)
(* cachedTokenSource, which fetches outside its lock and writes back only  *)
(* into an empty or expired cache, and mcp/oauth.go's oauthTokenSource,    *)
(* which keeps its token in a store, refreshes it without a lock and is    *)
(* told by a flag to refresh one that has not expired.  Tokens are numbers *)
(* in the order the server issued them; 0 is no token.                     *)
(***************************************************************************)
EXTENDS Naturals

CONSTANTS
    Callers,        \* goroutines that ask for a token
    Sources,        \* the kinds tried: "cached", "oauth"; "static" keys need none
    MaxTokens       \* bound: tokens the server issues

ASSUME TokenAssumption == MaxTokens \in Nat

VARIABLES
    source,         \* the kind in use
    stored,         \* c.cached, or the token in the store
    force,          \* oauth: s.force
    issued,         \* the server: the last token it issued
    lapsed,         \* tokens whose ExpiresAt has passed
    tpc,            \* where each caller's Token is
    held,           \* the token it has fetched or returns
    forced          \* oauth: it took the force flag

tokenVars == <<source, stored, force, issued, lapsed, tpc, held, forced>>

TokenInit ==
    /\ source \in Sources
    /\ stored \in IF source = "oauth" THEN {0, 1} ELSE {0}
    /\ force = FALSE
    /\ issued = stored
    /\ lapsed = {}
    /\ tpc = [c \in Callers |-> "idle"]
    /\ held = [c \in Callers |-> 0]
    /\ forced = [c \in Callers |-> FALSE]

Usable(t) == t # 0 /\ t \notin lapsed
At(c, l) == tpc' = [tpc EXCEPT ![c] = l]

-----------------------------------------------------------------------------
\* cachedTokenSource.Token: a usable cached token is returned under the read
\* lock; otherwise the fetch starts, outside of it.
CachedToken(c) ==
    /\ source = "cached" /\ tpc[c] = "asked"
    /\ held' = [held EXCEPT ![c] = IF Usable(stored) THEN stored ELSE 0]
    /\ At(c, IF Usable(stored) THEN "has" ELSE "fetching")
    /\ UNCHANGED <<source, stored, force, issued, lapsed, forced>>

\* MUTANT: what was fetched is always written back.
CachedWriteAlways(c) ==
    /\ source = "cached" /\ tpc[c] = "storing"
    /\ stored' = held[c]
    /\ At(c, "has")
    /\ UNCHANGED <<source, force, issued, lapsed, held, forced>>

\* The write back, only into an empty or expired cache; the caller gets what
\* it fetched in any case.
CachedWrite(c) ==
    /\ source = "cached" /\ tpc[c] = "storing"
    /\ stored' = IF Usable(stored) THEN stored ELSE held[c]
    /\ At(c, "has")
    /\ UNCHANGED <<source, force, issued, lapsed, held, forced>>

\* oauthTokenSource.Token: the flag is taken under the lock ...
OAuthToken(c) ==
    /\ source = "oauth" /\ tpc[c] = "asked"
    /\ forced' = [forced EXCEPT ![c] = force]
    /\ force' = FALSE
    /\ At(c, "forced")
    /\ UNCHANGED <<source, stored, issued, lapsed, held>>

\* MUTANT: a token that has not expired is returned whatever the flag says.
OAuthGetUnforced(c) ==
    /\ source = "oauth" /\ tpc[c] = "forced"
    /\ held' = [held EXCEPT ![c] = IF Usable(stored) THEN stored ELSE 0]
    /\ At(c, IF Usable(stored) THEN "has" ELSE "fetching")
    /\ UNCHANGED <<source, stored, force, issued, lapsed, forced>>

\* ... and the store is read after it: a usable token is returned unless the
\* flag was set; otherwise it is refreshed, or the user authorizes.
OAuthGet(c) ==
    /\ source = "oauth" /\ tpc[c] = "forced"
    /\ LET use == Usable(stored) /\ ~forced[c] IN
          /\ held' = [held EXCEPT ![c] = IF use THEN stored ELSE 0]
          /\ At(c, IF use THEN "has" ELSE "fetching")
    /\ UNCHANGED <<source, stored, force, issued, lapsed, forced>>

OAuthStore(c) ==
    /\ source = "oauth" /\ tpc[c] = "storing"
    /\ stored' = held[c]
    /\ At(c, "has")
    /\ UNCHANGED <<source, force, issued, lapsed, held, forced>>

-----------------------------------------------------------------------------
\* The server issues a token for a fetch, a refresh or an authorization.
Issue(c) ==
    /\ tpc[c] = "fetching" /\ issued < MaxTokens
    /\ issued' = issued + 1
    /\ held' = [held EXCEPT ![c] = issued + 1]
    /\ At(c, "storing")
    /\ UNCHANGED <<source, stored, force, lapsed, forced>>

\* The fetch fails, or there is no Authorize callback after a failed refresh.
FetchFails(c) ==
    /\ tpc[c] = "fetching"
    /\ At(c, "failed")
    /\ UNCHANGED <<source, stored, force, issued, lapsed, held, forced>>

Lapse ==
    /\ stored # 0 /\ lapsed' = lapsed \cup {stored} /\ lapsed' # lapsed
    /\ UNCHANGED <<source, stored, force, issued, tpc, held, forced>>

\* Invalidate empties the cache, or asks for a refresh.
Invalidate ==
    CASE source = "cached" -> stored' = 0 /\ UNCHANGED force
      [] source = "oauth"  -> force' = TRUE /\ UNCHANGED stored
      [] OTHER             -> UNCHANGED <<stored, force>>

TokenStep(c) ==
    \/ CachedToken(c) \/ CachedWrite(c)
    \/ OAuthToken(c) \/ OAuthGet(c) \/ OAuthStore(c)
    \/ Issue(c) \/ FetchFails(c)

-----------------------------------------------------------------------------
\* A cached token that is still usable is not replaced: a fetch that took
\* longer never overwrites what a concurrent one has written (token.go:87-88).
FresherKept ==
    [][source = "cached" /\ Usable(stored) => stored' \in {stored, 0}]_tokenVars
=============================================================================
