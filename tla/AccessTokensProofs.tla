------------------------- MODULE AccessTokensProofs -------------------------
(***************************************************************************)
(* Proofs about AccessTokens, for any lifetimes and any length of a        *)
(* second in ticks.                                                        *)
(***************************************************************************)
EXTENDS AccessTokens, TLAPS

\* Dropping the fraction of a second moves a time back by less than a second.
LEMMA Truncation ==
    ASSUME NEW t \in Nat
    PROVE  NumericDate(t) \in Nat /\ NumericDate(t) <= t /\ t < NumericDate(t) + Second
<1>1. Second \in Nat /\ Second > 0
  BY TimeAssumption
<1>2. t % Second \in 0..(Second - 1) /\ t % Second <= t
  BY <1>1
<1> QED BY <1>1, <1>2 DEF NumericDate

\* The times in a token are those of its issue, less than a second early.
Issued ==
    /\ access.issuedAt <= now
    /\ access.reported = access.issuedAt + accessTTL
    /\ access.notBefore <= access.issuedAt
    /\ access.expiresAt <= access.reported
    /\ access.reported < access.expiresAt + Second
\* The refresh token counts from a later reading of the clock.
Paired == access # Nil /\ access.issuedAt + refreshTTL <= refresh

TokenInv ==
    /\ TypeOK
    /\ access # Nil => Issued
    /\ refresh # Nil => Paired

LEMMA InvInit == Init => TokenInv
<1> SUFFICES ASSUME Init PROVE TokenInv
  OBVIOUS
<1>1. 0 \in Nat /\ started \in 0..now
  BY DEF Init
<1> QED BY <1>1 DEF Init, TokenInv, TypeOK, Stage

LEMMA InvStep == TokenInv /\ [Next]_vars => TokenInv'
<1> SUFFICES ASSUME TokenInv, [Next]_vars PROVE TokenInv'
  OBVIOUS
<1>a. /\ accessTTL \in Nat /\ refreshTTL \in Nat /\ now \in Nat /\ started \in 0..now
      /\ Second \in Nat /\ TypeOK
  BY TimeAssumption DEF TokenInv, TypeOK
<1>1. CASE Tick
  <2>1. now' = now + 1 /\ UNCHANGED <<config, stage, started, access, refresh>>
    BY <1>1 DEF Tick
  <2>2. TypeOK'
    BY <1>a, <2>1 DEF TypeOK, config
  <2>3. access' # Nil => Issued'
    <3>1. access # Nil => access.issuedAt \in Nat
      BY <1>a DEF TypeOK, Access
    <3> QED BY <1>a, <2>1, <3>1 DEF TokenInv, Issued, config
  <2> QED BY <2>1, <2>2, <2>3 DEF TokenInv, Paired, config
<1>2. CASE Begin
  BY <1>a, <1>2 DEF Begin, TokenInv, TypeOK, Issued, Paired, Stage, config
<1>3. CASE IssueAccessToken
  <2> DEFINE new == [notBefore |-> NumericDate(now), expiresAt |-> NumericDate(now + accessTTL),
                     reported |-> now + accessTTL, issuedAt |-> now]
  <2>1. /\ access' = new /\ stage' = "signed" /\ refresh' = Nil
        /\ UNCHANGED <<config, now, started>>
    BY <1>3 DEF IssueAccessToken
  <2>2. /\ NumericDate(now) \in Nat /\ NumericDate(now) <= now
        /\ NumericDate(now + accessTTL) \in Nat
        /\ NumericDate(now + accessTTL) <= now + accessTTL
        /\ now + accessTTL < NumericDate(now + accessTTL) + Second
    BY <1>a, Truncation
  <2>3. new \in Access /\ new # Nil
    BY <1>a, <2>2, NilAssumption DEF Access
  <2>4. TypeOK'
    BY <1>a, <2>1, <2>3 DEF TypeOK, Stage, config
  <2>5. Issued'
    BY <1>a, <2>1, <2>2 DEF Issued, config
  <2> QED BY <2>1, <2>4, <2>5 DEF TokenInv
<1>4. CASE GenerateRefreshToken
  <2>1. /\ refresh' = now + refreshTTL /\ stage' = "stored" /\ stage = "signed"
        /\ UNCHANGED <<config, now, started, access>>
    BY <1>4 DEF GenerateRefreshToken
  <2>2. access # Nil /\ Issued /\ access.issuedAt \in Nat
    BY <1>a, <2>1 DEF TokenInv, TypeOK, Access
  <2>3. TypeOK'
    BY <1>a, <2>1, <2>2 DEF TypeOK, Stage, config
  <2>4. Issued' /\ Paired'
    BY <1>a, <2>1, <2>2 DEF Issued, Paired, config
  <2> QED BY <2>3, <2>4 DEF TokenInv
<1>5. CASE End
  BY <1>a, <1>5 DEF End, TokenInv, TypeOK, Issued, Paired, Stage, config
<1>6. CASE UNCHANGED vars
  BY <1>a, <1>6 DEF vars, TokenInv, TypeOK, Issued, Paired, config
<1> QED BY <1>1, <1>2, <1>3, <1>4, <1>5, <1>6 DEF Next

LEMMA InvariantHolds == Spec => []TokenInv
<1>1. Init => TokenInv
  BY InvInit
<1>2. TokenInv /\ [Next]_vars => TokenInv'
  BY InvStep
<1> QED BY <1>1, <1>2, PTL DEF Spec

\* What the invariant says of a token, as numbers.
LEMMA TokenNumbers ==
    ASSUME TokenInv, access # Nil
    PROVE  /\ Issued /\ now \in Nat /\ Second \in Nat
           /\ access.notBefore \in Nat /\ access.expiresAt \in Nat
           /\ access.reported \in Nat /\ access.issuedAt \in Nat
BY TimeAssumption DEF TokenInv, TypeOK, Access

\* No token is honoured at or after the expiry the client was told (IssueAccessToken).
THEOREM NeverHonouredTooLong == Spec => []HonouredInTime
<1>1. TokenInv => HonouredInTime
  BY TokenNumbers DEF HonouredInTime, ParseAccessToken, Issued
<1> QED BY <1>1, InvariantHolds, PTL

\* Truncation costs less than a second of a lifetime, and nothing at its start.
THEOREM UsableFromTheStart == Spec => []UsableUntilLastSecond
<1>1. TokenInv => UsableUntilLastSecond
  <2> SUFFICES ASSUME TokenInv, access # Nil, now + Second <= access.reported
               PROVE  ParseAccessToken(access)
    BY DEF UsableUntilLastSecond
  <2>1. access.notBefore <= now /\ now < access.expiresAt
    BY TokenNumbers DEF Issued
  <2> QED BY <2>1 DEF ParseAccessToken
<1> QED BY <1>1, InvariantHolds, PTL

\* With lifetimes in the right order the refresh token is the last to expire.
THEOREM SessionOutlivesAccess == Spec => []RefreshOutlivesAccess
<1>1. TokenInv => RefreshOutlivesAccess
  <2> SUFFICES ASSUME TokenInv, access # Nil, refresh # Nil, accessTTL <= refreshTTL,
                      ParseAccessToken(access)
               PROVE  RefreshAccepted(refresh)
    BY DEF RefreshOutlivesAccess
  <2>1. /\ refresh \in Nat /\ Paired /\ accessTTL \in Nat /\ refreshTTL \in Nat
    BY TimeAssumption DEF TokenInv, TypeOK
  <2> QED BY <2>1, TokenNumbers DEF Paired, Issued, ParseAccessToken, RefreshAccepted
<1> QED BY <1>1, InvariantHolds, PTL
=============================================================================
