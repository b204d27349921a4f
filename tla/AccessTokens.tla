---------------------------- MODULE AccessTokens ----------------------------
(***************************************************************************)
(* The lifetimes of the two tokens of a session: IssueAccessToken,         *)
(* ParseAccessToken and GenerateRefreshToken in internal/auth/tokens.go,   *)
(* as issueSessionWithModel and Refresh in service.go use them.            *)
(*                                                                         *)
(* Instants are ticks of the wall clock of the server, Second of them in a *)
(* second.  The times in a JWT are whole seconds: jwt.NewNumericDate drops *)
(* the rest.  The expiry that is reported to the client, and the one of    *)
(* the refresh token, keep it.                                             *)
(***************************************************************************)
EXTENDS Integers

CONSTANTS
    Second,      \* ticks in a second
    TTL,         \* the lifetimes that can be configured
    MaxTime,     \* bound of the clock
    Nil

ASSUME TimeAssumption ==
    /\ Second \in Nat \ {0}
    /\ TTL \subseteq Nat \ {0}
    /\ MaxTime \in Nat

Access == [notBefore : Nat, expiresAt : Nat, reported : Nat, issuedAt : Nat]

ASSUME NilAssumption == Nil \notin Access \cup Nat

VARIABLES
    accessTTL, refreshTTL,  \* the configuration of the TokenManager
    now,
    stage,      \* of the request that issues tokens
    started,    \* when it began
    access,     \* the last access token, Nil before there is one
    refresh     \* the expiry of the refresh token issued with it, Nil before

config == <<accessTTL, refreshTTL>>
vars == <<config, now, stage, started, access, refresh>>

Stage == {"idle", "begun", "signed", "stored"}

Init ==
    /\ accessTTL \in TTL
    /\ refreshTTL \in TTL
    /\ now = 0
    /\ stage = "idle"
    /\ started = 0
    /\ access = Nil
    /\ refresh = Nil

Tick ==
    /\ now < MaxTime
    /\ now' = now + 1
    /\ UNCHANGED <<config, stage, started, access, refresh>>

\* Mutant: times are rounded up.
RoundUp(t) == t + ((-t) % Second)

\* jwt.NewNumericDate, whose TimePrecision is a second.
NumericDate(t) == t - (t % Second)

\* The library's validation: not before nbf, before exp, no leeway.
ParseAccessToken(token) == token.notBefore <= now /\ now < token.expiresAt

\* Refresh turns a token away if now.After(expires_at).
RefreshAccepted(expiry) == now <= expiry

\* Login at any time; Refresh while the refresh token has not expired (now.After).
Begin ==
    /\ stage = "idle"
    /\ stage' = "begun"
    /\ started' = now
    /\ UNCHANGED <<config, now, access, refresh>>

\* Mutant: the token cannot be used before the next whole second.
IssueLater ==
    /\ stage = "begun"
    /\ stage' = "signed"
    /\ access' = [notBefore |-> RoundUp(now), expiresAt |-> NumericDate(now + accessTTL),
                  reported |-> now + accessTTL, issuedAt |-> now]
    /\ refresh' = Nil
    /\ UNCHANGED <<config, now, started>>

IssueAccessToken ==
    /\ stage = "begun"
    /\ stage' = "signed"
    /\ access' = [notBefore |-> NumericDate(now), expiresAt |-> NumericDate(now + accessTTL),
                  reported |-> now + accessTTL, issuedAt |-> now]
    /\ refresh' = Nil
    /\ UNCHANGED <<config, now, started>>

\* Mutant: the lifetime counts from the instant that Refresh read when it began.
GenerateFromStart ==
    /\ stage = "signed"
    /\ stage' = "stored"
    /\ refresh' = started + refreshTTL
    /\ UNCHANGED <<config, now, started, access>>

GenerateRefreshToken ==
    /\ stage = "signed"
    /\ stage' = "stored"
    /\ refresh' = now + refreshTTL
    /\ UNCHANGED <<config, now, started, access>>

\* The transaction commits and the client gets both, or it rolls back: a signed token
\* that nobody was given.
End ==
    /\ stage \in {"begun", "signed", "stored"}
    /\ stage' = "idle"
    /\ UNCHANGED <<config, now, started, access, refresh>>

Next == Tick \/ Begin \/ IssueAccessToken \/ GenerateRefreshToken \/ End

Spec == Init /\ [][Next]_vars

-----------------------------------------------------------------------------
(* Properties                                                              *)

TypeOK ==
    /\ accessTTL \in TTL /\ refreshTTL \in TTL
    /\ now \in Nat
    /\ stage \in Stage
    /\ started \in 0..now
    /\ access \in Access \cup {Nil}
    /\ refresh \in Nat \cup {Nil}
    /\ stage \in {"signed", "stored"} => access # Nil

\* No access token is honoured at or after the expiry that was reported for it.
HonouredInTime ==
    access # Nil => (ParseAccessToken(access) => now < access.reported)

\* From the instant it is issued until a second before its reported expiry a token is
\* honoured; a lifetime below a second promises nothing, and Load accepts one.
UsableUntilLastSecond ==
    access # Nil =>
        (now + Second <= access.reported => ParseAccessToken(access))

\* A session is never outlived by its access token if the lifetimes are configured so:
\* while the one is honoured the other still refreshes (two clock readings in one request).
RefreshOutlivesAccess ==
    access # Nil /\ refresh # Nil /\ accessTTL <= refreshTTL =>
        (ParseAccessToken(access) => RefreshAccepted(refresh))
=============================================================================
