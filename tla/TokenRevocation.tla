--------------------------- MODULE TokenRevocation ---------------------------
(* JwtService with its TokenRevocationList (src/src/auth/jwt.rs,               *)
(* token_revocation.rs): access and refresh tokens are issued, tracked per     *)
(* user, revoked one by one or all of a user, validated and pruned.  The two   *)
(* maps have a lock each, so that an operation on both is two steps except in  *)
(* prune_expired, which holds both.  Signatures always verify: a token here is *)
(* one the service has encoded.                                                *)
EXTENDS AuthClock

CONSTANTS
    Tokens,      \* jtis: each issue draws a new one
    AccessTtl, RefreshTtl,
    Leeway,      \* jsonwebtoken accepts a token so long after its exp
    NoToken

ASSUME TokenConfig == AccessTtl \in Nat /\ RefreshTtl \in Nat /\ Leeway \in Nat

VARIABLES
    tokens,       \* every token encoded: its user, kind and exp
    userTokens,   \* user_tokens, the index of tracked jtis
    revoked,      \* revoked_tokens
    tokenCalls,   \* the call each caller is in
    dead          \* history: tokens a completed revocation was about

tokenVars == <<tokens, userTokens, revoked, tokenCalls, dead>>

Kinds == {"access", "refresh"}

TokenRecords == [user : Users, kind : Kinds, exp : Nat]

\* What a call keeps between its two steps; the aims are history.
TokenCalls ==
    [op : {"issue", "revoke"}, token : Tokens]
        \cup [op : {"revokeAll"}, copied : SUBSET Tokens, aims : SUBSET Tokens]

ASSUME TokenCallMark == Idle \notin TokenCalls

TokenTypeOK ==
    /\ tokens \in [Tokens -> TokenRecords \cup {NoToken}]
    /\ userTokens \subseteq Tokens
    /\ revoked \subseteq Tokens
    /\ tokenCalls \in [Callers -> {Idle} \cup TokenCalls]
    /\ dead \subseteq Tokens

TokenInit ==
    /\ tokens = [t \in Tokens |-> NoToken]
    /\ userTokens = {}
    /\ revoked = {}
    /\ tokenCalls = [c \in Callers |-> Idle]
    /\ dead = {}

InCall(c, op) == tokenCalls[c] /= Idle /\ tokenCalls[c].op = op

Issued(t) == tokens[t] /= NoToken

\* A token reaches its user when the call that issues it has tracked it.
Held(t) == Issued(t) /\ \A c \in Callers : InCall(c, "issue") => tokenCalls[c].token /= t

HeldBy(u) == {t \in Tokens : Held(t) /\ tokens[t].user = u}

\* decode: jsonwebtoken compares exp with the clock and its leeway.
Decodes(t) == tokens[t].exp + Leeway >= now

Encode(c, t, u, kind) ==
    /\ ~Issued(t)
    /\ tokenCalls[c] = Idle
    /\ tokens' = [tokens EXCEPT ![t] =
            [user |-> u, kind |-> kind,
             exp |-> now + (IF kind = "access" THEN AccessTtl ELSE RefreshTtl)]]
    /\ tokenCalls' = [tokenCalls EXCEPT ![c] = [op |-> "issue", token |-> t]]
    /\ UNCHANGED <<userTokens, revoked, dead>>

\* generate_token, generate_refresh_token
Generate(c, t, u, kind) == Begin /\ Encode(c, t, u, kind)

\* validate_refresh_token: the signature, the audience, the role, the expiry.
AcceptsRefresh(t) ==
    Held(t) /\ tokens[t].kind = "refresh" /\ Decodes(t)

\* refresh_access_token
RefreshAccess(c, t, new) ==
    /\ Begin
    /\ AcceptsRefresh(t)
    /\ Encode(c, new, tokens[t].user, "access")

\* track_issued_token
Track(c) ==
    /\ InCall(c, "issue")
    /\ userTokens' = userTokens \cup {tokenCalls[c].token}
    /\ tokenCalls' = [tokenCalls EXCEPT ![c] = Idle]
    /\ UNCHANGED <<tokens, revoked, dead, clockVars>>

\* revoke_token: the revoked set under its lock ...
Revoke(c, t) ==
    /\ Begin
    /\ tokenCalls[c] = Idle
    /\ Held(t)
    /\ revoked' = revoked \cup {t}
    /\ tokenCalls' = [tokenCalls EXCEPT ![c] = [op |-> "revoke", token |-> t]]
    /\ UNCHANGED <<tokens, userTokens, dead>>

\* ... then the index under its own.
RevokeIndexes(c) ==
    /\ InCall(c, "revoke")
    /\ userTokens' = userTokens \cup {tokenCalls[c].token}
    /\ dead' = dead \cup {tokenCalls[c].token}
    /\ tokenCalls' = [tokenCalls EXCEPT ![c] = Idle]
    /\ UNCHANGED <<tokens, revoked, clockVars>>

IndexOf(u) == {t \in userTokens : tokens[t].user = u}

\* revoke_all_user_tokens: a copy of the user's index ...
RevokeAllCopies(c, u) ==
    /\ Begin
    /\ tokenCalls[c] = Idle
    /\ tokenCalls' = [tokenCalls EXCEPT ![c] =
            [op |-> "revokeAll", copied |-> IndexOf(u), aims |-> HeldBy(u)]]
    /\ UNCHANGED <<tokens, userTokens, revoked, dead>>

\* ... then the copy into the revoked set.
RevokeAllInserts(c) ==
    /\ InCall(c, "revokeAll")
    /\ revoked' = revoked \cup tokenCalls[c].copied
    /\ dead' = dead \cup tokenCalls[c].aims
    /\ tokenCalls' = [tokenCalls EXCEPT ![c] = Idle]
    /\ UNCHANGED <<tokens, userTokens, clockVars>>

\* Mutant: pruned in the last second in which the token is valid.
ListedBefore(t) == tokens[t].exp > now

StillListed(t) == tokens[t].exp >= now

PruneExpired ==
    /\ \E t \in revoked \cup userTokens : ~StillListed(t)
    /\ revoked' = {t \in revoked : StillListed(t)}
    /\ userTokens' = {t \in userTokens : StillListed(t)}
    /\ UNCHANGED <<tokens, tokenCalls, dead, clockVars>>

TokenNext ==
    \/ \E c \in Callers :
        \/ Track(c) \/ RevokeIndexes(c) \/ RevokeAllInserts(c)
        \/ \E t \in Tokens : Revoke(c, t)
        \/ \E t, new \in Tokens : RefreshAccess(c, t, new)
        \/ \E u \in Users : RevokeAllCopies(c, u)
        \/ \E t \in Tokens, u \in Users, kind \in Kinds : Generate(c, t, u, kind)
    \/ PruneExpired

\* validate_token
AcceptsAccess(t) == Held(t) /\ tokens[t].kind = "access" /\ Decodes(t) /\ t \notin revoked

-----------------------------------------------------------------------------
\* Once a revocation has returned, the access tokens it was about (for all tokens
\* of a user: those the user held when it began) are rejected until they expire,
\* whatever is issued, revoked, refreshed and pruned at the same time
\* (validate_token, revoke_token, revoke_all_user_tokens, prune_expired).
RevokedTokensAreRejected ==
    \A t \in dead : tokens[t].exp >= now => ~AcceptsAccess(t)

\* The comment in generate_refresh_token: a password-change revocation reaches
\* the refresh tokens too.
RevokedRefreshTokensAreRejected ==
    \A t \in dead : tokens[t].exp >= now => ~AcceptsRefresh(t)
=============================================================================
