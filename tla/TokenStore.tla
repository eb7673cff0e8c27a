----------------------------- MODULE TokenStore -----------------------------
(***************************************************************************)
(* The token store of the git HTTPS proxy,                                 *)
(* git-https-proxy/tokenstore/main.go.                                     *)
(*                                                                         *)
(* One store is shared by a goroutine per proxied git request, which calls *)
(* GetGitAccessToken, and by one goroutine that runs periodicTokenRefresh. *)
(* Two RWMutexes guard the state.  A write lock is modelled by its holder; *)
(* a read section (RLock, read one field, RUnlock) is one step that needs  *)
(* the lock to have no writer, because nothing else happens inside it.     *)
(* A write section lasts over an HTTP call and is two steps or more.       *)
(*                                                                         *)
(* Time is a counter.  Tokens are reduced to what isJWTExpired and the     *)
(* expiry test of GetGitAccessToken look at.  startedAt and fetchedAt are  *)
(* history variables: no action reads them.                                *)
(***************************************************************************)
EXTENDS Integers

CONSTANTS
    Requests,          \* goroutines that serve a proxied git request
    Periodic,          \* the goroutine started by New
    Providers,         \* ids of the configured git providers
    Free,              \* the holder of a lock nobody has write-locked
    Period,            \* RefreshTickerPeriod
    AccessLifetimes,   \* lifetimes Keycloak gives to access tokens
    RefreshLifetimes,  \* lifetimes Keycloak gives to refresh tokens
    GitLifetimes,      \* lifetimes of git provider tokens
    OtherAccess,       \* what else Keycloak may answer as access token
    OtherRefresh,      \* what else Keycloak may answer as refresh token
    MaxTime,           \* bound: the clock stops here
    Prompt,            \* TRUE: a refresh round ends before the next tick
    MaxFailedTicks     \* bound: consecutive ticks that renew nothing

ASSUME GoroutinesAssumption ==
    /\ Periodic \notin Requests
    /\ Free \notin Requests \cup {Periodic}

ASSUME TimesAssumption ==
    /\ Period \in Nat \ {0}
    /\ MaxTime \in Nat
    /\ MaxFailedTicks \in Nat
    /\ Prompt \in BOOLEAN
    /\ AccessLifetimes \subseteq Nat
    /\ RefreshLifetimes \subseteq Nat
    /\ GitLifetimes \subseteq Nat \ {0}

ASSUME KindsAssumption ==
    /\ OtherAccess \subseteq {"noexp", "opaque", "empty"}
    /\ OtherRefresh \subseteq {"noexp", "opaque", "empty"}

ASSUME ProvidersAssumption == Providers # {}

Goroutines == Requests \cup {Periodic}

(***************************************************************************)
(* Renku tokens.  "exp" and "noexp" are JWTs with and without an exp claim *)
(* (Keycloak leaves it out of offline tokens), "opaque" does not parse as  *)
(* a JWT and "empty" is the empty string, which does not parse either.     *)
(***************************************************************************)
Jwt == [kind : {"exp", "noexp", "opaque", "empty"}, exp : Nat]

Unlimited(k) == [kind |-> k, exp |-> 0]

Expiring(t) == [kind |-> "exp", exp |-> t]

\* A TokenSet of the gitAccessTokens map; exists is the map's second result.
TokenSet == [exists : BOOLEAN, expiresAt : Nat]

NoTokenSet == [exists |-> FALSE, expiresAt |-> 0]

\* What the local variables of a goroutine hold outside their scope.
NoJwt == Unlimited("empty")

AnyProvider == CHOOSE p \in Providers : TRUE

RequestPC == {"idle", "read", "check", "lockGit", "getRenku", "checkRenku",
              "lockRenku", "post", "getRenkuAgain", "get", "reread",
              "returned", "failed"}

PeriodicPC == {"wait", "readRefresh", "checkRefresh", "lockRenku", "post"}

VARIABLES
    now,                   \* the clock
    nextTick,              \* when refreshTicker fires next
    tickPending,           \* refreshTicker.C, a channel of capacity one
    renkuAccessToken,
    renkuRefreshToken,
    renkuAccessTokenLock,  \* its writer, or Free
    gitAccessTokens,
    gitAccessTokensLock,   \* its writer, or Free
    pc,                    \* where each goroutine is
    provider,              \* the provider a request asks for
    tokenSet,              \* the TokenSet a request last read
    jwt,                   \* the renku token a goroutine last read or sends
    failedTicks,           \* consecutive ticks whose POST renewed nothing
    startedAt,             \* history: when GetGitAccessToken first read
    fetchedAt              \* history: when a provider's token was stored

clock == <<now, nextTick, tickPending>>

renku == <<renkuAccessToken, renkuRefreshToken>>

git == <<gitAccessTokens, fetchedAt>>

locals == <<provider, tokenSet, startedAt>>

vars == <<clock, renku, renkuAccessTokenLock, git, gitAccessTokensLock, pc,
          locals, jwt, failedTicks>>

Goto(g, from, to) ==
    /\ pc[g] = from
    /\ pc' = [pc EXCEPT ![g] = to]

-----------------------------------------------------------------------------
(***************************************************************************)
(* Expiry.                                                                 *)
(***************************************************************************)

LeewayMissing == 0

ExpirationLeeway == 4 * Period

Parses(token) == token.kind \in {"exp", "noexp"}

\* isJWTExpired: a token that does not parse counts as expired (and the
\* error is returned with it); one without exp never expires.
isJWTExpired(token) ==
    \/ ~ Parses(token)
    \/ token.kind = "exp" /\ ~ (now + ExpirationLeeway < token.exp)

\* The test of GetGitAccessToken; an ExpiresAt of zero means "never".
GitTokenExpired(ts) ==
    0 < ts.expiresAt /\ ts.expiresAt < now + ExpirationLeeway

NeedsRefreshIgnoringExpiry(ts) == ~ ts.exists

NeedsRefresh(ts) == ~ ts.exists \/ GitTokenExpired(ts)

(***************************************************************************)
(* The token endpoint of Keycloak, as refreshRenkuAccessToken uses it:     *)
(* it refuses an expired refresh token, and may answer with any kind of    *)
(* access token and with or without a new refresh token.                   *)
(***************************************************************************)
EndpointAccepts(token) == token.kind = "exp" => now < token.exp

AccessGrants == {Expiring(now + l) : l \in AccessLifetimes}
                    \cup {Unlimited(k) : k \in OtherAccess}

RefreshGrants == {Expiring(now + l) : l \in RefreshLifetimes}
                     \cup {Unlimited(k) : k \in OtherRefresh}

-----------------------------------------------------------------------------
(***************************************************************************)
(* The initial state: the tokens come from the configuration, which        *)
(* Validate refuses when one of them is empty.                             *)
(***************************************************************************)
Init ==
    /\ now = 0
    /\ nextTick = Period
    /\ tickPending = FALSE
    /\ renkuAccessToken \in {Expiring(l) : l \in AccessLifetimes}
                                \cup {Unlimited(k) : k \in OtherAccess \ {"empty"}}
    /\ renkuRefreshToken \in {Expiring(l) : l \in RefreshLifetimes}
                                 \cup {Unlimited(k) : k \in OtherRefresh \ {"empty"}}
    /\ renkuAccessTokenLock = Free
    /\ gitAccessTokens = [p \in Providers |-> NoTokenSet]
    /\ gitAccessTokensLock = Free
    /\ pc = [g \in Goroutines |-> IF g = Periodic THEN "wait" ELSE "idle"]
    /\ provider = [r \in Requests |-> AnyProvider]
    /\ tokenSet = [r \in Requests |-> NoTokenSet]
    /\ jwt = [g \in Goroutines |-> NoJwt]
    /\ failedTicks = 0
    /\ startedAt = [r \in Requests |-> 0]
    /\ fetchedAt = [p \in Providers |-> 0]

(***************************************************************************)
(* The clock and the ticker, whose channel drops a tick nobody received.   *)
(* Under Prompt the round started by one tick ends before the next.        *)
(***************************************************************************)
RoundOpen == tickPending \/ pc[Periodic] # "wait"

Tick ==
    /\ now < MaxTime
    /\ (Prompt /\ now + 1 = nextTick) => ~ RoundOpen
    /\ now' = now + 1
    /\ IF now + 1 = nextTick
         THEN /\ nextTick' = nextTick + Period
              /\ tickPending' = TRUE
         ELSE UNCHANGED <<nextTick, tickPending>>
    /\ UNCHANGED <<renku, renkuAccessTokenLock, git, gitAccessTokensLock, pc,
                   locals, jwt, failedTicks>>

-----------------------------------------------------------------------------
(***************************************************************************)
(* GetGitAccessToken, called by the handler of a proxied request.          *)
(***************************************************************************)

\* A git request reaches the proxy handler.
ProxyRequest(r, p) ==
    /\ Goto(r, "idle", "read")
    /\ provider' = [provider EXCEPT ![r] = p]
    /\ UNCHANGED <<clock, renku, renkuAccessTokenLock, git,
                   gitAccessTokensLock, tokenSet, startedAt, jwt, failedTicks>>

\* The first read section.
ReadTokenSet(r) ==
    /\ Goto(r, "read", "check")
    /\ gitAccessTokensLock = Free
    /\ tokenSet' = [tokenSet EXCEPT ![r] = gitAccessTokens[provider[r]]]
    /\ startedAt' = [startedAt EXCEPT ![r] = now]
    /\ UNCHANGED <<clock, renku, renkuAccessTokenLock, git,
                   gitAccessTokensLock, provider, jwt, failedTicks>>

\* The expiry test, on the copy that was read.
CheckTokenSet(r) ==
    /\ Goto(r, "check", IF NeedsRefresh(tokenSet[r]) THEN "lockGit"
                                                      ELSE "reread")
    /\ tokenSet' = [tokenSet EXCEPT ![r] = NoTokenSet]
    /\ UNCHANGED <<clock, renku, renkuAccessTokenLock, git,
                   gitAccessTokensLock, provider, startedAt, jwt, failedTicks>>

\* The second read section: the token the request returns.
RereadTokenSet(r) ==
    /\ Goto(r, "reread", "returned")
    /\ gitAccessTokensLock = Free
    /\ tokenSet' = [tokenSet EXCEPT ![r] = gitAccessTokens[provider[r]]]
    /\ UNCHANGED <<clock, renku, renkuAccessTokenLock, git,
                   gitAccessTokensLock, provider, startedAt, jwt, failedTicks>>

\* The handler forwards the request with the token, or answers 401.
Respond(r) ==
    /\ pc[r] \in {"returned", "failed"}
    /\ pc' = [pc EXCEPT ![r] = "idle"]
    /\ provider' = [provider EXCEPT ![r] = AnyProvider]
    /\ tokenSet' = [tokenSet EXCEPT ![r] = NoTokenSet]
    /\ startedAt' = [startedAt EXCEPT ![r] = 0]
    /\ UNCHANGED <<clock, renku, renkuAccessTokenLock, git,
                   gitAccessTokensLock, jwt, failedTicks>>

-----------------------------------------------------------------------------
(***************************************************************************)
(* refreshGitAccessToken: the git lock is held from LockGit until the      *)
(* method returns.  Nothing is read again after the lock is obtained.      *)
(***************************************************************************)
LockGit(r) ==
    /\ Goto(r, "lockGit", "getRenku")
    /\ gitAccessTokensLock = Free
    /\ gitAccessTokensLock' = r
    /\ UNCHANGED <<clock, renku, renkuAccessTokenLock, git, locals, jwt,
                   failedTicks>>

\* getValidRenkuAccessToken reads the token with getRenkuAccessToken ...
ReadRenkuToken(r) ==
    /\ Goto(r, "getRenku", "checkRenku")
    /\ renkuAccessTokenLock = Free
    /\ jwt' = [jwt EXCEPT ![r] = renkuAccessToken]
    /\ UNCHANGED <<clock, renku, renkuAccessTokenLock, git,
                   gitAccessTokensLock, locals, failedTicks>>

\* The test of getValidRenkuAccessToken: a token that does not parse ends
\* the call with an error, an expired one is refreshed.
CheckRenkuToken(r) ==
    /\ pc[r] = "checkRenku"
    /\ IF ~ Parses(jwt[r])
         THEN /\ pc' = [pc EXCEPT ![r] = "failed"]
              /\ gitAccessTokensLock' = Free
         ELSE /\ pc' = [pc EXCEPT ![r] = IF isJWTExpired(jwt[r])
                                           THEN "lockRenku"
                                           ELSE "getRenkuAgain"]
              /\ UNCHANGED gitAccessTokensLock
    /\ jwt' = [jwt EXCEPT ![r] = NoJwt]
    /\ UNCHANGED <<clock, renku, renkuAccessTokenLock, git, locals,
                   failedTicks>>

\* ... and reads it again for the GET, untested: a refresh by the periodic
\* goroutine may have come in between.  The GET is sent.
ReadValidRenkuToken(r) ==
    /\ Goto(r, "getRenkuAgain", "get")
    /\ renkuAccessTokenLock = Free
    /\ UNCHANGED <<clock, renku, renkuAccessTokenLock, git,
                   gitAccessTokensLock, locals, jwt, failedTicks>>

GitTokenSetLeewaySubtracted(e) ==
    [exists |-> TRUE, expiresAt |-> e - ExpirationLeeway]

\* The conversion TokenSet(resParsed) of an answer.
GitTokenSet(e) == [exists |-> TRUE, expiresAt |-> e]

\* The provider's token endpoint answers 200: ExpiresAt is zero or a time.
GitTokenReceived(r) ==
    /\ Goto(r, "get", "reread")
    /\ \E e \in {0} \cup {now + l : l \in GitLifetimes} :
          gitAccessTokens' =
              [gitAccessTokens EXCEPT ![provider[r]] = GitTokenSet(e)]
    /\ fetchedAt' = [fetchedAt EXCEPT ![provider[r]] = now]
    /\ gitAccessTokensLock' = Free
    /\ UNCHANGED <<clock, renku, renkuAccessTokenLock, locals, jwt,
                   failedTicks>>

\* It cannot be reached in 30 seconds, answers another status or no JSON.
GitTokenRefused(r) ==
    /\ Goto(r, "get", "failed")
    /\ gitAccessTokensLock' = Free
    /\ UNCHANGED <<clock, renku, renkuAccessTokenLock, git, locals, jwt,
                   failedTicks>>

-----------------------------------------------------------------------------
(***************************************************************************)
(* refreshRenkuAccessToken, called by a request that holds the git lock    *)
(* and by the periodic goroutine.  The renku lock is held over the POST.   *)
(***************************************************************************)
LockRenkuNotNeeded(g) ==
    /\ Goto(g, "lockRenku", "post")
    /\ jwt' = [jwt EXCEPT ![g] = renkuRefreshToken]
    /\ UNCHANGED <<clock, renku, renkuAccessTokenLock, git,
                   gitAccessTokensLock, locals, failedTicks>>

LockRenku(g) ==
    /\ Goto(g, "lockRenku", "post")
    /\ renkuAccessTokenLock = Free
    /\ renkuAccessTokenLock' = g
    /\ jwt' = [jwt EXCEPT ![g] = renkuRefreshToken]
    /\ UNCHANGED <<clock, renku, git, gitAccessTokensLock, locals,
                   failedTicks>>

StoreAnyRefreshToken(granted) == granted

\* A new refresh token is kept only if the answer has one.
StoreRefreshToken(granted) ==
    IF granted.kind = "empty" THEN renkuRefreshToken ELSE granted

\* The POST is answered with 200 and JSON.
RenkuTokenReceived(g) ==
    /\ Goto(g, "post", IF g = Periodic THEN "wait" ELSE "getRenkuAgain")
    /\ EndpointAccepts(jwt[g])
    /\ \E access \in AccessGrants, refresh \in RefreshGrants :
          /\ renkuAccessToken' = access
          /\ renkuRefreshToken' = StoreRefreshToken(refresh)
          /\ IF refresh.kind # "empty"
               THEN failedTicks' = 0
               ELSE IF g = Periodic
                      THEN /\ failedTicks < MaxFailedTicks
                           /\ failedTicks' = failedTicks + 1
                      ELSE UNCHANGED failedTicks
    /\ renkuAccessTokenLock' = Free
    /\ jwt' = [jwt EXCEPT ![g] = NoJwt]
    /\ UNCHANGED <<clock, git, gitAccessTokensLock, locals>>

UnlockGitOnError(g) ==
    gitAccessTokensLock' = IF g = Periodic THEN gitAccessTokensLock ELSE Free

KeepRenkuLockOnError(g) ==
    /\ renkuAccessTokenLock' = renkuAccessTokenLock
    /\ UnlockGitOnError(g)

\* The deferred Unlocks on the error path: renku, then git for a request.
UnlockOnError(g) ==
    /\ renkuAccessTokenLock' = Free
    /\ UnlockGitOnError(g)

\* The POST fails, is refused, or its answer is not JSON.  A request gives
\* up; the periodic goroutine logs the error and waits for the next tick.
RenkuTokenRefused(g) ==
    /\ Goto(g, "post", IF g = Periodic THEN "wait" ELSE "failed")
    /\ IF g = Periodic
         THEN /\ failedTicks < MaxFailedTicks
              /\ failedTicks' = failedTicks + 1
         ELSE UNCHANGED failedTicks
    /\ UnlockOnError(g)
    /\ jwt' = [jwt EXCEPT ![g] = NoJwt]
    /\ UNCHANGED <<clock, renku, git, locals>>

-----------------------------------------------------------------------------
(***************************************************************************)
(* periodicTokenRefresh                                                    *)
(***************************************************************************)
ReceiveTick ==
    /\ tickPending
    /\ Goto(Periodic, "wait", "readRefresh")
    /\ tickPending' = FALSE
    /\ UNCHANGED <<now, nextTick, renku, renkuAccessTokenLock, git,
                   gitAccessTokensLock, locals, jwt, failedTicks>>

ReadRefreshToken ==
    /\ Goto(Periodic, "readRefresh", "checkRefresh")
    /\ renkuAccessTokenLock = Free
    /\ jwt' = [jwt EXCEPT ![Periodic] = renkuRefreshToken]
    /\ UNCHANGED <<clock, renku, renkuAccessTokenLock, git,
                   gitAccessTokensLock, locals, failedTicks>>

\* The error of isJWTExpired is only logged here: a refresh token that does
\* not parse is refreshed like an expired one.
CheckRefreshToken ==
    /\ Goto(Periodic, "checkRefresh",
            IF isJWTExpired(jwt[Periodic]) THEN "lockRenku" ELSE "wait")
    /\ jwt' = [jwt EXCEPT ![Periodic] = NoJwt]
    /\ UNCHANGED <<clock, renku, renkuAccessTokenLock, git,
                   gitAccessTokensLock, locals, failedTicks>>

-----------------------------------------------------------------------------
\* The steps a goroutine inside a call takes by itself, and the end of the
\* GET, which the 30 second timeout of its client forces.
RequestStep(r) ==
    \/ ReadTokenSet(r)
    \/ CheckTokenSet(r)
    \/ LockGit(r)
    \/ ReadRenkuToken(r)
    \/ CheckRenkuToken(r)
    \/ LockRenku(r)
    \/ ReadValidRenkuToken(r)
    \/ GitTokenReceived(r)
    \/ GitTokenRefused(r)
    \/ RereadTokenSet(r)

PeriodicStep ==
    \/ ReceiveTick
    \/ ReadRefreshToken
    \/ CheckRefreshToken
    \/ LockRenku(Periodic)

Next ==
    \/ Tick
    \/ \E r \in Requests, p \in Providers : ProxyRequest(r, p)
    \/ \E r \in Requests : RequestStep(r)
    \/ \E r \in Requests : Respond(r)
    \/ PeriodicStep
    \/ \E g \in Goroutines : RenkuTokenReceived(g)
    \/ \E g \in Goroutines : RenkuTokenRefused(g)

Spec == Init /\ [][Next]_vars

(***************************************************************************)
(* Fairness.  A runnable goroutine runs, and sync.RWMutex starves neither  *)
(* readers nor writers: a goroutine whose lock becomes free again and      *)
(* again obtains it, which is strong fairness of its steps.  The POST to   *)
(* Keycloak goes through http.DefaultClient, which has no timeout: nothing *)
(* is assumed about its end.                                               *)
(***************************************************************************)
Fairness ==
    /\ \A r \in Requests : SF_vars(RequestStep(r))
    /\ SF_vars(PeriodicStep)

FairSpec == Spec /\ Fairness

-----------------------------------------------------------------------------
(***************************************************************************)
(* Properties                                                              *)
(***************************************************************************)

\* Every variable has its type; the locals of a goroutine are those its
\* place in the code allows.
TypeOK ==
    /\ now \in 0 .. MaxTime
    /\ nextTick \in Nat
    /\ tickPending \in BOOLEAN
    /\ renkuAccessToken \in Jwt
    /\ renkuRefreshToken \in Jwt
    /\ renkuAccessTokenLock \in Goroutines \cup {Free}
    /\ gitAccessTokens \in [Providers -> TokenSet]
    /\ gitAccessTokensLock \in Requests \cup {Free}
    /\ pc \in [Goroutines -> RequestPC \cup PeriodicPC]
    /\ pc[Periodic] \in PeriodicPC
    /\ \A r \in Requests : pc[r] \in RequestPC
    /\ provider \in [Requests -> Providers]
    /\ tokenSet \in [Requests -> TokenSet]
    /\ jwt \in [Goroutines -> Jwt]
    /\ failedTicks \in 0 .. MaxFailedTicks
    /\ startedAt \in [Requests -> Nat]
    /\ fetchedAt \in [Providers -> Nat]

\* The two comments on the mutexes of TokenStore: neither the renku token
\* nor a git token is refreshed twice at the same time, so no two POSTs to
\* Keycloak and no two exchanges for git tokens are ever in flight together.
NoConcurrentRefresh ==
    /\ \A g, h \in Goroutines :
          pc[g] = "post" /\ pc[h] = "post" => g = h
    /\ \A r, s \in Requests :
          pc[r] \in {"getRenku", "get", "post"}
              /\ pc[s] \in {"getRenku", "get", "post"} => r = s

\* The refresh token a POST carries is still the stored one when its answer
\* arrives: an answer never overwrites a token that was rotated meanwhile.
SentTokenIsStored ==
    \A g \in Goroutines : pc[g] = "post" => jwt[g] = renkuRefreshToken

\* refreshRenkuAccessToken never trades the refresh token for an empty one,
\* whatever Keycloak answers: without it no token can be renewed any more.
RefreshTokenNeverLost == renkuRefreshToken.kind # "empty"

\* A token set that a call which first read at time t may return: it does
\* not expire within the leeway after t, or it was fetched since t.
Usable(ts, fetched, t) ==
    /\ ts.exists
    /\ \/ ts.expiresAt = 0
       \/ ts.expiresAt >= t + ExpirationLeeway
       \/ fetched >= t

\* GetGitAccessToken "returns a valid access token": what it returns was
\* outside the leeway when the call started or was fetched during the call,
\* although the token is tested on a copy and read again under another lock
\* section, between which other requests may have replaced it.
ReturnedTokenUsable ==
    \A r \in Requests :
        pc[r] = "returned" =>
            Usable(tokenSet[r], fetchedAt[provider[r]], startedAt[r])

\* "Used to make sure the refresh token does not expire": with a leeway of
\* four periods the stored refresh token never expires, provided a round
\* ends before the next tick (Prompt), at most MaxFailedTicks ticks in a row
\* renew nothing and new refresh tokens outlive the leeway.
RefreshTokenAlive ==
    renkuRefreshToken.kind = "exp" => now < renkuRefreshToken.exp

\* Every call of GetGitAccessToken ends unless a POST to Keycloak hangs for
\* ever: nobody keeps a lock, and the two locks are never taken in opposite
\* orders.
CallsEnd ==
    []<>(\A g \in Goroutines : pc[g] # "post") =>
        \A r \in Requests :
            pc[r] = "read" ~> pc[r] \in {"returned", "failed"}

=============================================================================
