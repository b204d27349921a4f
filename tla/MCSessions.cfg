\* Two mailboxes, one of them spelled in two ways, one slug, and their sessions:
\* registrations, logins and refreshes at once, revocations, expiry, crashes.
SPECIFICATION FairSpec
CONSTANTS
    RawEmail = {"Ann@x", "ann@x", "bob@x"}
    Email = {"ann@x", "bob@x"}
    CanonicalEmail <- SpellingsOfEmail
    RawSlug = {"acme"}
    Slug = {"acme"}
    CanonicalSlug <- OneSlug
    UserId = {u1, u2}
    OrgId = {o1, o2}
    Token = {t1, t2, t3}
    Request = {r1, r2}
    RefreshTTL = 1
    MaxTime = 2
    Nil = Nil
INVARIANTS
    UniqueAccounts
    RegistrationAtomic
    RotationChain
    OneLiveTokenPerSession
    RefreshAudited
    DeliveredDurable
PROPERTIES
    ImplementsTokenChain
    EveryRequestEnds
\* The token budget runs out: the bounded system stops.
CHECK_DEADLOCK FALSE
