-------------------------- MODULE TokenStoreProofs --------------------------
(***************************************************************************)
(* Theorems about TokenStore, for every number of requests and providers   *)
(* and every period, lifetime and bound.                                   *)
(***************************************************************************)
EXTENDS TokenStore, TLAPS

(***************************************************************************)
(* The inductive strengthening of the locking properties: a goroutine      *)
(* inside a write section is the recorded holder of that lock, and the     *)
(* token a POST carries is the stored one.                                 *)
(***************************************************************************)
HoldsGit(r) == pc[r] \in {"getRenku", "checkRenku", "lockRenku", "post",
                          "getRenkuAgain", "get"}

LockInv ==
    /\ \A r \in Requests : HoldsGit(r) => gitAccessTokensLock = r
    /\ \A g \in Goroutines : pc[g] = "post" => renkuAccessTokenLock = g
    /\ SentTokenIsStored

\* What a request's place in GetGitAccessToken says about the stored token
\* of its provider: once the expiry test of the copy succeeds, the stored
\* token, whoever replaced it since, is usable.
UsableFor(r) ==
    /\ startedAt[r] <= now
    /\ pc[r] = "check" /\ ~ NeedsRefresh(tokenSet[r]) =>
          Usable(gitAccessTokens[provider[r]],
                 fetchedAt[provider[r]], startedAt[r])
    /\ pc[r] = "reread" =>
          Usable(gitAccessTokens[provider[r]],
                 fetchedAt[provider[r]], startedAt[r])
    /\ pc[r] = "returned" =>
          Usable(tokenSet[r], fetchedAt[provider[r]], startedAt[r])

UsableInv == \A r \in Requests : UsableFor(r)

\* How much longer than the last tick the refresh token lives.  A round
\* that finds it outside the leeway, or renews it, leaves four periods;
\* each round that fails costs one, and so does a tick whose round is open.
LastTick == nextTick - Period

Margin == CASE failedTicks = 0 -> 4 * Period
            [] failedTicks = 1 -> 3 * Period
            [] OTHER -> 2 * Period

Outlives(token, t) == token.kind = "exp" => t < token.exp

AliveInv ==
    /\ LastTick <= now /\ now < nextTick
    /\ RoundOpen => Outlives(renkuRefreshToken, LastTick + Margin - Period)
    /\ ~ RoundOpen => Outlives(renkuRefreshToken, LastTick + Margin)
    /\ pc[Periodic] = "checkRefresh" =>
          \/ jwt[Periodic] = renkuRefreshToken
          \/ Outlives(renkuRefreshToken, LastTick + 4 * Period)

-----------------------------------------------------------------------------
LEMMA GrantsType ==
    ASSUME now \in Nat
    PROVE  AccessGrants \subseteq Jwt /\ RefreshGrants \subseteq Jwt
  BY TimesAssumption, KindsAssumption
     DEF AccessGrants, RefreshGrants, Expiring, Unlimited, Jwt

LEMMA AnyProviderType == AnyProvider \in Providers
<1>1. \E p \in Providers : TRUE
  BY ProvidersAssumption
<1>2. QED
  BY <1>1, Zenon DEF AnyProvider

\* Every reachable state of the token store is well typed.
THEOREM TypeCorrect == Spec => []TypeOK
<1> USE GoroutinesAssumption, TimesAssumption DEF Goroutines
<1>1. Init => TypeOK
  <2> SUFFICES ASSUME Init PROVE TypeOK
    OBVIOUS
  <2> USE DEF Init
  <2>1. renkuAccessToken \in Jwt /\ renkuRefreshToken \in Jwt
    BY KindsAssumption DEF Jwt, Expiring, Unlimited
  <2>2. /\ gitAccessTokens \in [Providers -> TokenSet]
        /\ tokenSet \in [Requests -> TokenSet]
    BY DEF TokenSet, NoTokenSet
  <2>3. jwt \in [Goroutines -> Jwt]
    BY DEF Jwt, NoJwt, Unlimited
  <2>4. provider \in [Requests -> Providers]
    BY AnyProviderType
  <2>5. pc \in [Goroutines -> RequestPC \cup PeriodicPC]
    BY DEF RequestPC, PeriodicPC
  <2>6. /\ pc[Periodic] \in PeriodicPC
        /\ \A r \in Requests : pc[r] \in RequestPC
    BY DEF RequestPC, PeriodicPC
  <2>7. /\ now \in 0 .. MaxTime
        /\ nextTick \in Nat
        /\ failedTicks \in 0 .. MaxFailedTicks
        /\ startedAt \in [Requests -> Nat]
        /\ fetchedAt \in [Providers -> Nat]
    OBVIOUS
  <2>8. /\ tickPending \in BOOLEAN
        /\ renkuAccessTokenLock \in Goroutines \cup {Free}
        /\ gitAccessTokensLock \in Requests \cup {Free}
    BY Zenon
  <2>9. QED
    BY <2>1, <2>2, <2>3, <2>4, <2>5, <2>6, <2>7, <2>8 DEF TypeOK
<1>2. TypeOK /\ [Next]_vars => TypeOK'
  <2> SUFFICES ASSUME TypeOK, [Next]_vars PROVE TypeOK'
    OBVIOUS
  <2> USE DEF TypeOK, RequestPC, PeriodicPC, clock, renku, git, locals, Goto
  <2>1. CASE Tick
    <3>1. /\ now' \in 0 .. MaxTime
          /\ nextTick' \in Nat
      BY <2>1 DEF Tick
    <3>2. tickPending' \in BOOLEAN
      BY <2>1, Zenon DEF Tick
    <3>3. QED
      BY <2>1, <3>1, <3>2 DEF Tick
  <2>2. ASSUME NEW r \in Requests, NEW p \in Providers, ProxyRequest(r, p)
        PROVE  TypeOK'
    BY <2>2 DEF ProxyRequest
  <2>3. ASSUME NEW r \in Requests, ReadTokenSet(r) PROVE TypeOK'
    BY <2>3 DEF ReadTokenSet
  <2>4. ASSUME NEW r \in Requests, CheckTokenSet(r) PROVE TypeOK'
    BY <2>4 DEF CheckTokenSet, NoTokenSet, TokenSet
  <2>5. ASSUME NEW r \in Requests, LockGit(r) PROVE TypeOK'
    BY <2>5 DEF LockGit
  <2>6. ASSUME NEW r \in Requests, ReadRenkuToken(r) PROVE TypeOK'
    BY <2>6 DEF ReadRenkuToken
  <2>7. ASSUME NEW r \in Requests, CheckRenkuToken(r) PROVE TypeOK'
    BY <2>7 DEF CheckRenkuToken, NoJwt, Unlimited, Jwt
  <2>8. ASSUME NEW g \in Goroutines, LockRenku(g) PROVE TypeOK'
    BY <2>8 DEF LockRenku
  <2>9. ASSUME NEW r \in Requests, ReadValidRenkuToken(r) PROVE TypeOK'
    BY <2>9 DEF ReadValidRenkuToken
  <2>10. ASSUME NEW r \in Requests, GitTokenReceived(r) PROVE TypeOK'
    BY <2>10 DEF GitTokenReceived, GitTokenSet, TokenSet
  <2>11. ASSUME NEW r \in Requests, GitTokenRefused(r) PROVE TypeOK'
    BY <2>11 DEF GitTokenRefused
  <2>12. ASSUME NEW r \in Requests, RereadTokenSet(r) PROVE TypeOK'
    BY <2>12 DEF RereadTokenSet
  <2>13. ASSUME NEW r \in Requests, Respond(r) PROVE TypeOK'
    BY <2>13, AnyProviderType DEF Respond, NoTokenSet, TokenSet
  <2>14. ASSUME NEW g \in Goroutines, RenkuTokenReceived(g) PROVE TypeOK'
    BY <2>14, GrantsType
       DEF RenkuTokenReceived, StoreRefreshToken, NoJwt, Unlimited, Jwt
  <2>15. ASSUME NEW g \in Goroutines, RenkuTokenRefused(g) PROVE TypeOK'
    BY <2>15 DEF RenkuTokenRefused, UnlockOnError, UnlockGitOnError, NoJwt,
                 Unlimited, Jwt
  <2>16. CASE ReceiveTick
    BY <2>16 DEF ReceiveTick
  <2>17. CASE ReadRefreshToken
    BY <2>17 DEF ReadRefreshToken
  <2>18. CASE CheckRefreshToken
    BY <2>18 DEF CheckRefreshToken, NoJwt, Unlimited, Jwt
  <2>19. CASE UNCHANGED vars
    BY <2>19 DEF vars
  <2>20. QED
    BY <2>1, <2>2, <2>3, <2>4, <2>5, <2>6, <2>7, <2>8, <2>9, <2>10, <2>11,
       <2>12, <2>13, <2>14, <2>15, <2>16, <2>17, <2>18, <2>19
       DEF Next, RequestStep, PeriodicStep
<1>3. QED
  BY <1>1, <1>2, PTL DEF Spec


-----------------------------------------------------------------------------
(***************************************************************************)
(* The locks.                                                              *)
(***************************************************************************)
LEMMA LockInvariant == Spec => []LockInv
<1> USE GoroutinesAssumption DEF Goroutines, LockInv, HoldsGit,
        SentTokenIsStored
<1>1. Init => LockInv
  BY DEF Init
<1>2. TypeOK /\ LockInv /\ [Next]_vars => LockInv'
  <2> SUFFICES ASSUME TypeOK, LockInv, [Next]_vars PROVE LockInv'
    OBVIOUS
  <2> USE DEF TypeOK, RequestPC, PeriodicPC, clock, renku, git, locals, Goto
  <2>1. CASE Tick
    BY <2>1 DEF Tick
  <2>2. ASSUME NEW r \in Requests, NEW p \in Providers, ProxyRequest(r, p)
        PROVE  LockInv'
    BY <2>2 DEF ProxyRequest
  <2>3. ASSUME NEW r \in Requests, ReadTokenSet(r) PROVE LockInv'
    BY <2>3 DEF ReadTokenSet
  <2>4. ASSUME NEW r \in Requests, CheckTokenSet(r) PROVE LockInv'
    BY <2>4 DEF CheckTokenSet
  <2>5. ASSUME NEW r \in Requests, LockGit(r) PROVE LockInv'
    BY <2>5 DEF LockGit
  <2>6. ASSUME NEW r \in Requests, ReadRenkuToken(r) PROVE LockInv'
    BY <2>6 DEF ReadRenkuToken
  <2>7. ASSUME NEW r \in Requests, CheckRenkuToken(r) PROVE LockInv'
    BY <2>7 DEF CheckRenkuToken
  <2>8. ASSUME NEW g \in Goroutines, LockRenku(g) PROVE LockInv'
    BY <2>8 DEF LockRenku
  <2>9. ASSUME NEW r \in Requests, ReadValidRenkuToken(r) PROVE LockInv'
    BY <2>9 DEF ReadValidRenkuToken
  <2>10. ASSUME NEW r \in Requests, GitTokenReceived(r) PROVE LockInv'
    BY <2>10 DEF GitTokenReceived
  <2>11. ASSUME NEW r \in Requests, GitTokenRefused(r) PROVE LockInv'
    BY <2>11 DEF GitTokenRefused
  <2>12. ASSUME NEW r \in Requests, RereadTokenSet(r) PROVE LockInv'
    BY <2>12 DEF RereadTokenSet
  <2>13. ASSUME NEW r \in Requests, Respond(r) PROVE LockInv'
    BY <2>13 DEF Respond
  <2>14. ASSUME NEW g \in Goroutines, RenkuTokenReceived(g) PROVE LockInv'
    BY <2>14 DEF RenkuTokenReceived
  <2>15. ASSUME NEW g \in Goroutines, RenkuTokenRefused(g) PROVE LockInv'
    BY <2>15 DEF RenkuTokenRefused, UnlockOnError, UnlockGitOnError
  <2>16. CASE ReceiveTick
    BY <2>16 DEF ReceiveTick
  <2>17. CASE ReadRefreshToken
    BY <2>17 DEF ReadRefreshToken
  <2>18. CASE CheckRefreshToken
    BY <2>18 DEF CheckRefreshToken
  <2>19. CASE UNCHANGED vars
    BY <2>19 DEF vars
  <2>20. QED
    BY <2>1, <2>2, <2>3, <2>4, <2>5, <2>6, <2>7, <2>8, <2>9, <2>10, <2>11,
       <2>12, <2>13, <2>14, <2>15, <2>16, <2>17, <2>18, <2>19
       DEF Next, RequestStep, PeriodicStep
<1>3. QED
  BY <1>1, <1>2, TypeCorrect, PTL DEF Spec

\* At most one POST to Keycloak and at most one exchange for a git token are
\* in flight, whatever the number of requests.
THEOREM NoTwoRefreshes == Spec => []NoConcurrentRefresh
<1>1. LockInv => NoConcurrentRefresh
  BY DEF LockInv, HoldsGit, NoConcurrentRefresh, Goroutines
<1>2. QED
  BY <1>1, LockInvariant, PTL

\* The refresh token that a POST sends is the stored one until its answer.
THEOREM SentTokenNotOverwritten == Spec => []SentTokenIsStored
<1>1. LockInv => SentTokenIsStored
  BY DEF LockInv
<1>2. QED
  BY <1>1, LockInvariant, PTL

\* Only an answer of Keycloak changes the renku tokens.
LEMMA RenkuTokensChange ==
    [Next]_vars => \/ UNCHANGED renku
                   \/ \E g \in Goroutines : RenkuTokenReceived(g)
<1> SUFFICES ASSUME [Next]_vars, ~ \E g \in Goroutines : RenkuTokenReceived(g)
             PROVE  UNCHANGED renku
  OBVIOUS
<1>1. CASE UNCHANGED vars
  BY <1>1 DEF vars, renku
<1>2. CASE Next
  BY <1>2 DEF Next, RequestStep, PeriodicStep, renku, Tick, ProxyRequest,
              ReadTokenSet, CheckTokenSet, LockGit, ReadRenkuToken,
              CheckRenkuToken, LockRenku, ReadValidRenkuToken,
              GitTokenReceived, GitTokenRefused, RereadTokenSet, Respond,
              RenkuTokenRefused, ReceiveTick, ReadRefreshToken,
              CheckRefreshToken
<1>3. QED
  BY <1>1, <1>2

\* No sequence of answers of Keycloak erases the refresh token.
THEOREM RefreshTokenKept == Spec => []RefreshTokenNeverLost
<1>1. Init => RefreshTokenNeverLost
  BY DEF Init, Expiring, Unlimited, RefreshTokenNeverLost
<1>2. RefreshTokenNeverLost /\ [Next]_vars => RefreshTokenNeverLost'
  <2>1. ASSUME RefreshTokenNeverLost, NEW g \in Goroutines,
               RenkuTokenReceived(g)
        PROVE  RefreshTokenNeverLost'
    BY <2>1 DEF RenkuTokenReceived, StoreRefreshToken, RefreshTokenNeverLost
  <2>2. RefreshTokenNeverLost /\ UNCHANGED renku => RefreshTokenNeverLost'
    BY DEF RefreshTokenNeverLost, renku
  <2>3. QED
    BY <2>1, <2>2, RenkuTokensChange
<1>3. QED
  BY <1>1, <1>2, PTL DEF Spec

-----------------------------------------------------------------------------
(***************************************************************************)
(* What GetGitAccessToken returns.                                         *)
(***************************************************************************)

\* A step changes the stored token of a provider only by storing one that
\* is usable for every call that started before; the clock never goes back.
LEMMA GitTokensChange ==
    ASSUME TypeOK, [Next]_vars
    PROVE  /\ now <= now' /\ now' \in Nat
           /\ \A p \in Providers :
                 \/ /\ gitAccessTokens'[p] = gitAccessTokens[p]
                    /\ fetchedAt'[p] = fetchedAt[p]
                 \/ /\ gitAccessTokens'[p].exists
                    /\ fetchedAt'[p] = now
<1> USE DEF TypeOK, git, clock
<1>1. CASE UNCHANGED vars
  BY <1>1 DEF vars
<1>2. ASSUME NEW r \in Requests, GitTokenReceived(r)
      PROVE  /\ now' = now
             /\ \A p \in Providers :
                   \/ /\ gitAccessTokens'[p] = gitAccessTokens[p]
                      /\ fetchedAt'[p] = fetchedAt[p]
                   \/ /\ gitAccessTokens'[p].exists
                      /\ fetchedAt'[p] = now
  BY <1>2 DEF GitTokenReceived, GitTokenSet
<1>3. CASE Tick
  BY <1>3, TimesAssumption DEF Tick
<1>4. CASE Next /\ ~ Tick /\ ~ \E r \in Requests : GitTokenReceived(r)
  <2>1. UNCHANGED git /\ now' = now
    BY <1>4 DEF Next, RequestStep, PeriodicStep, ProxyRequest, ReadTokenSet,
                CheckTokenSet, LockGit, ReadRenkuToken, CheckRenkuToken,
                LockRenku, ReadValidRenkuToken, GitTokenRefused,
                RereadTokenSet, Respond, RenkuTokenReceived,
                RenkuTokenRefused, ReceiveTick, ReadRefreshToken,
                CheckRefreshToken
  <2>2. QED
    BY <2>1
<1>5. QED
  BY <1>1, <1>2, <1>3, <1>4

\* So a usable stored token stays usable for a call in progress.
LEMMA UsableStays ==
    ASSUME TypeOK, [Next]_vars, NEW p \in Providers, NEW t \in Nat, t <= now,
           Usable(gitAccessTokens[p], fetchedAt[p], t)
    PROVE  Usable(gitAccessTokens'[p], fetchedAt'[p], t)
  BY GitTokensChange DEF Usable, TypeOK

\* A step that leaves a request alone, though it may replace the token of
\* its provider, keeps the request's invariant.
LEMMA UsableForOthers ==
    ASSUME TypeOK, [Next]_vars, NEW r \in Requests, UsableFor(r),
           pc'[r] = pc[r], provider'[r] = provider[r],
           tokenSet'[r] = tokenSet[r], startedAt'[r] = startedAt[r]
    PROVE  UsableFor(r)'
<1> DEFINE p == provider[r]
           t == startedAt[r]
<1>1. p \in Providers /\ t \in Nat /\ t <= now /\ now <= now' /\ now' \in Nat
  BY GitTokensChange DEF UsableFor, TypeOK
<1>2. Usable(gitAccessTokens[p], fetchedAt[p], t)
         => Usable(gitAccessTokens'[p], fetchedAt'[p], t)
  BY <1>1, UsableStays
<1>3. pc[r] = "check" /\ ~ NeedsRefresh(tokenSet[r])'
         => Usable(gitAccessTokens[p], fetchedAt[p], t)
  <2>1. ~ NeedsRefresh(tokenSet[r])' => ~ NeedsRefresh(tokenSet[r])
    BY <1>1, TimesAssumption
       DEF NeedsRefresh, GitTokenExpired, ExpirationLeeway, TypeOK, TokenSet
  <2>2. QED
    BY <2>1 DEF UsableFor
<1>4. pc[r] = "returned" => Usable(tokenSet[r], fetchedAt'[p], t)
  <2>1. fetchedAt'[p] = fetchedAt[p] \/ fetchedAt'[p] = now
    BY <1>1, GitTokensChange
  <2>2. QED
    BY <1>1, <2>1 DEF UsableFor, Usable, TypeOK
<1>5. startedAt'[r] <= now'
  BY <1>1 DEF TypeOK
<1>6. QED
  BY <1>2, <1>3, <1>4, <1>5 DEF UsableFor, NeedsRefresh, GitTokenExpired

\* What a call of GetGitAccessToken returns was outside the expiry leeway
\* when the call started, or was fetched while the call ran, whatever the
\* other calls did to the token between its expiry test and the last read.
THEOREM ReturnedTokens == Spec => []ReturnedTokenUsable
<1> USE GoroutinesAssumption, TimesAssumption DEF Goroutines
<1>1. Init => UsableInv
  <2> SUFFICES ASSUME Init, NEW r \in Requests PROVE UsableFor(r)
    BY DEF UsableInv
  <2>1. pc[r] = "idle" /\ startedAt[r] = 0 /\ now = 0
    BY DEF Init
  <2>2. QED
    BY <2>1 DEF UsableFor
<1>2. TypeOK /\ UsableInv /\ [Next]_vars => UsableInv'
  <2> SUFFICES ASSUME TypeOK, UsableInv, [Next]_vars, NEW r \in Requests
               PROVE  UsableFor(r)'
    BY DEF UsableInv
  <2>0. UsableFor(r)
    BY DEF UsableInv
  <2> USE DEF TypeOK, RequestPC, git, clock, renku, locals, Goto
  <2>1. CASE \E p \in Providers : ProxyRequest(r, p)
    BY <2>1, <2>0 DEF ProxyRequest, UsableFor
  <2>2. CASE ReadTokenSet(r)
    BY <2>2 DEF ReadTokenSet, UsableFor, Usable, NeedsRefresh,
                GitTokenExpired, ExpirationLeeway, TokenSet
  <2>3. CASE CheckTokenSet(r)
    BY <2>3, <2>0 DEF CheckTokenSet, UsableFor
  <2>4. CASE GitTokenReceived(r)
    BY <2>4, <2>0 DEF GitTokenReceived, GitTokenSet, UsableFor, Usable
  <2>5. CASE RereadTokenSet(r)
    BY <2>5, <2>0 DEF RereadTokenSet, UsableFor
  <2>6. CASE Respond(r)
    BY <2>6 DEF Respond, UsableFor, NoTokenSet
  <2>7. CASE \/ LockGit(r) \/ ReadRenkuToken(r) \/ CheckRenkuToken(r)
             \/ LockRenku(r) \/ ReadValidRenkuToken(r)
             \/ GitTokenRefused(r) \/ RenkuTokenReceived(r)
             \/ RenkuTokenRefused(r)
    BY <2>7, <2>0 DEF LockGit, ReadRenkuToken, CheckRenkuToken, LockRenku,
          ReadValidRenkuToken, GitTokenRefused, RenkuTokenReceived,
          RenkuTokenRefused, UsableFor
  <2>8. CASE \/ UNCHANGED vars
             \/ Tick
             \/ PeriodicStep
             \/ RenkuTokenReceived(Periodic)
             \/ RenkuTokenRefused(Periodic)
             \/ \E q \in Requests \ {r} :
                   \/ \E p \in Providers : ProxyRequest(q, p)
                   \/ RequestStep(q)
                   \/ Respond(q)
                   \/ RenkuTokenReceived(q)
                   \/ RenkuTokenRefused(q)
    <3>1. /\ pc'[r] = pc[r]
          /\ provider'[r] = provider[r]
          /\ tokenSet'[r] = tokenSet[r]
          /\ startedAt'[r] = startedAt[r]
      <4>1. CASE UNCHANGED vars
        BY <4>1 DEF vars
      <4>2. CASE \/ Tick \/ PeriodicStep \/ RenkuTokenReceived(Periodic)
                 \/ RenkuTokenRefused(Periodic)
        BY <4>2 DEF Tick, PeriodicStep, ReceiveTick, ReadRefreshToken,
              CheckRefreshToken, LockRenku, RenkuTokenReceived,
              RenkuTokenRefused
      <4>3. ASSUME NEW q \in Requests \ {r},
                   \/ \E p \in Providers : ProxyRequest(q, p)
                   \/ RequestStep(q)
                   \/ Respond(q)
                   \/ RenkuTokenReceived(q)
                   \/ RenkuTokenRefused(q)
            PROVE  /\ pc'[r] = pc[r]
                   /\ provider'[r] = provider[r]
                   /\ tokenSet'[r] = tokenSet[r]
                   /\ startedAt'[r] = startedAt[r]
        BY <4>3 DEF RequestStep, ProxyRequest, ReadTokenSet, CheckTokenSet,
              LockGit, ReadRenkuToken, CheckRenkuToken, LockRenku,
              ReadValidRenkuToken, GitTokenReceived, GitTokenRefused,
              RereadTokenSet, Respond, RenkuTokenReceived, RenkuTokenRefused
      <4>4. QED
        BY <2>8, <4>1, <4>2, <4>3
    <3>2. QED
      BY <3>1, <2>0, UsableForOthers
  <2>9. QED
    BY <2>1, <2>2, <2>3, <2>4, <2>5, <2>6, <2>7, <2>8
       DEF Next, RequestStep
<1>3. UsableInv => ReturnedTokenUsable
  BY DEF UsableInv, UsableFor, ReturnedTokenUsable
<1>4. QED
  BY <1>1, <1>2, <1>3, TypeCorrect, PTL DEF Spec

-----------------------------------------------------------------------------
(***************************************************************************)
(* The refresh token stays alive.                                          *)
(***************************************************************************)

\* Under the assumptions that a refresh round ends before the next tick,
\* that at most two ticks in a row renew nothing and that Keycloak's refresh
\* tokens outlive the leeway of four periods, the stored refresh token never
\* expires, for every period.
THEOREM RefreshTokenStaysAlive ==
    ASSUME Prompt, MaxFailedTicks <= 2,
           \A l \in RefreshLifetimes : l > ExpirationLeeway
    PROVE  Spec => []RefreshTokenAlive
<1> USE GoroutinesAssumption, TimesAssumption DEF Goroutines, ExpirationLeeway
<1>1. Init => AliveInv
  <2> SUFFICES ASSUME Init PROVE AliveInv
    OBVIOUS
  <2>1. now = 0 /\ nextTick = Period /\ failedTicks = 0 /\ ~ RoundOpen
    BY DEF Init, RoundOpen
  <2>2. renkuRefreshToken.kind = "exp" => 4 * Period < renkuRefreshToken.exp
    BY KindsAssumption DEF Init, Expiring, Unlimited
  <2>3. pc[Periodic] # "checkRefresh"
    BY DEF Init
  <2>4. QED
    BY <2>1, <2>2, <2>3 DEF AliveInv, LastTick, Margin, Outlives
<1>2. TypeOK /\ AliveInv /\ [Next]_vars => AliveInv'
  <2> SUFFICES ASSUME TypeOK, AliveInv, [Next]_vars PROVE AliveInv'
    OBVIOUS
  <2> USE DEF TypeOK, clock, renku, git, locals, Goto
  <2> USE DEF AliveInv, LastTick, Margin, Outlives, RoundOpen
  <2>1. CASE Tick
    BY <2>1 DEF Tick
  <2>2. CASE ReceiveTick
    BY <2>2 DEF ReceiveTick
  <2>3. CASE ReadRefreshToken
    BY <2>3 DEF ReadRefreshToken
  <2>4. CASE CheckRefreshToken
    <3>1. /\ RoundOpen
          /\ pc'[Periodic] \in {"lockRenku", "wait"}
          /\ UNCHANGED <<now, nextTick, renkuRefreshToken, failedTicks>>
          /\ pc'[Periodic] = "wait" => ~ isJWTExpired(jwt[Periodic])
      BY <2>4 DEF CheckRefreshToken
    <3>2. ~ isJWTExpired(jwt[Periodic])
             => Outlives(jwt[Periodic], LastTick + 4 * Period)
      BY DEF isJWTExpired, Jwt
    <3>3. pc'[Periodic] = "wait"
             => Outlives(renkuRefreshToken, LastTick + 4 * Period)
      BY <2>4, <3>1, <3>2 DEF CheckRefreshToken
    <3>4. renkuRefreshToken.exp \in Nat
      BY DEF Jwt
    <3>5. QED
      BY <3>1, <3>3, <3>4
  <2>5. CASE LockRenku(Periodic)
    BY <2>5 DEF LockRenku
  <2>6. CASE RenkuTokenRefused(Periodic)
    <3>1. /\ RoundOpen
          /\ pc'[Periodic] = "wait"
          /\ UNCHANGED <<now, nextTick, renkuRefreshToken>>
          /\ failedTicks \in {0, 1} /\ failedTicks' = failedTicks + 1
      BY <2>6 DEF RenkuTokenRefused
    <3>2. renkuRefreshToken.exp \in Nat
      BY DEF Jwt
    <3>3. QED
      BY <3>1, <3>2
  <2>7. ASSUME NEW g \in Goroutines, RenkuTokenReceived(g) PROVE AliveInv'
    <3> DEFINE renewed == Outlives(renkuRefreshToken', LastTick + 4 * Period)
    <3>1. /\ UNCHANGED <<now, nextTick, tickPending>>
          /\ pc[g] = "post"
          /\ pc'[Periodic] = IF g = Periodic THEN "wait" ELSE pc[Periodic]
          /\ g # Periodic => jwt'[Periodic] = jwt[Periodic]
      BY <2>7 DEF RenkuTokenReceived
    <3>2. PICK refresh \in RefreshGrants :
             /\ renkuRefreshToken' = StoreRefreshToken(refresh)
             /\ IF refresh.kind # "empty"
                  THEN failedTicks' = 0
                  ELSE IF g = Periodic
                         THEN /\ failedTicks < MaxFailedTicks
                              /\ failedTicks' = failedTicks + 1
                         ELSE UNCHANGED failedTicks
      BY <2>7 DEF RenkuTokenReceived
    <3>3. renkuRefreshToken.exp \in Nat /\ now \in Nat
      BY DEF Jwt
    <3>4. CASE refresh.kind # "empty"
      <4>1. failedTicks' = 0 /\ renkuRefreshToken' = refresh
        BY <3>2, <3>4 DEF StoreRefreshToken
      <4>2. refresh.kind = "exp" => now + 4 * Period < refresh.exp
        BY <3>3, KindsAssumption DEF RefreshGrants, Expiring, Unlimited
      <4>3. refresh.exp \in Nat
        BY <3>3, GrantsType DEF Jwt
      <4>4. renewed
        BY <3>3, <4>1, <4>2, <4>3
      <4>5. QED
        BY <3>1, <4>1, <4>3, <4>4
    <3>5. CASE refresh.kind = "empty" /\ g = Periodic
      <4>1. /\ renkuRefreshToken' = renkuRefreshToken
            /\ failedTicks \in {0, 1} /\ failedTicks' = failedTicks + 1
        BY <3>2, <3>5 DEF StoreRefreshToken
      <4>2. RoundOpen
        BY <3>1, <3>5
      <4>3. QED
        BY <3>1, <3>3, <3>5, <4>1, <4>2
    <3>6. CASE refresh.kind = "empty" /\ g # Periodic
      <4>1. UNCHANGED <<renkuRefreshToken, failedTicks>>
        BY <3>2, <3>6 DEF StoreRefreshToken
      <4>2. QED
        BY <3>1, <3>6, <4>1
    <3>7. QED
      BY <3>4, <3>5, <3>6
  <2>8. ASSUME NEW r \in Requests,
               \/ \E p \in Providers : ProxyRequest(r, p)
               \/ RequestStep(r)
               \/ Respond(r)
               \/ RenkuTokenRefused(r)
        PROVE  AliveInv'
    BY <2>8 DEF RequestStep, ProxyRequest, ReadTokenSet, CheckTokenSet,
          LockGit, ReadRenkuToken, CheckRenkuToken, LockRenku,
          ReadValidRenkuToken, GitTokenReceived, GitTokenRefused,
          RereadTokenSet, Respond, RenkuTokenRefused
  <2>9. CASE UNCHANGED vars
    BY <2>9 DEF vars
  <2>10. QED
    BY <2>1, <2>2, <2>3, <2>4, <2>5, <2>6, <2>7, <2>8, <2>9
       DEF Next, PeriodicStep
<1>3. TypeOK /\ AliveInv => RefreshTokenAlive
  BY DEF TypeOK, AliveInv, RefreshTokenAlive, LastTick, Margin, Outlives, Jwt
<1>4. QED
  BY <1>1, <1>2, <1>3, TypeCorrect, PTL DEF Spec

=============================================================================
