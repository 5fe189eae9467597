----------------------------- MODULE AuthProofs ------------------------------
(***************************************************************************)
(* Proofs about AuthServices, for any users, callers, sessions, tokens,    *)
(* keys, lifetimes and bounds.                                             *)
(***************************************************************************)
EXTENDS AuthServices, SumProofs, TLAPS

(***************************************************************************)
(* The clock                                                               *)
(***************************************************************************)

(* The clock shows a time and never goes back.                             *)
LEMMA ClockStep ==
    ASSUME now \in Times, [Next]_vars
    PROVE  now' \in Times /\ now' >= now
<1>1. CASE Tick
    BY <1>1, BoundsNat DEF Tick, Times
<1>2. CASE now' = now
    BY <1>2, BoundsNat DEF Times
<1>3. now' = now \/ Tick
    BY DEF Next, vars, clockVars, Begin, LockNext, LockSave, LockRead, LockCleanup,
           SessionNext, CreateSession, SessionSave, SessionRead, RevokeUserSessions,
           CleanupSessions, TokenNext, Track, RevokeIndexes, RevokeAllInserts, Revoke,
           RefreshAccess, RevokeAllCopies, Generate, PruneExpired,
           LimitNext, LimitSave, LimitRead, LimitReset, LimitCleanup
<1> QED BY <1>1, <1>2, <1>3

(* A step is one of the service it exercises, or leaves that service alone. *)
LEMMA OneService ==
    ASSUME [Next]_vars
    PROVE  /\ SessionNext \/ UNCHANGED sessionVars
           /\ TokenNext \/ UNCHANGED tokenVars
           /\ LockNext \/ UNCHANGED lockVars
           /\ LimitNext \/ UNCHANGED limitVars
BY DEF Next, vars

(***************************************************************************)
(* Sessions: a revoked session is gone or inactive                          *)
(***************************************************************************)

SessionInv ==
    /\ SessionTypeOK
    /\ \A s \in revokedIds \ sessionRaced : sessions[s] = NoSession \/ ~sessions[s].active

LEMMA SessionInvInit == Init => SessionInv
BY DEF Init, SessionInit, SessionInv, SessionTypeOK

(* Creating draws an id that was never revoked.                            *)
LEMMA CreateKeepsSessions ==
    ASSUME now \in Times, SessionInv, NEW s \in Sessions, NEW u \in Users, CreateSession(s, u)
    PROVE  SessionInv'
<1>1. [user |-> u, active |-> TRUE, expires |-> now + SessionTtl] \in SessionRecords
    BY SessionConfig, BoundsNat DEF SessionRecords, Times
<1> QED BY <1>1 DEF CreateSession, Fresh, SessionInv, SessionTypeOK

(* Reading begins a call and touches no session.                           *)
LEMMA ReadKeepsSessions ==
    ASSUME SessionInv, NEW c \in Callers, NEW op \in SessionOps, NEW s \in Sessions,
           SessionRead(c, op, s)
    PROVE  SessionInv'
<1>1. sessions[s] \in SessionRecords
    BY DEF SessionRead, SessionInv, SessionTypeOK
<1> QED BY <1>1 DEF SessionRead, SessionInv, SessionTypeOK

(* Saving over an unchanged session keeps it inactive; saving over a change  *)
(* makes the session one of the raced.                                      *)
LEMMA SaveKeepsSessions ==
    ASSUME now \in Times, SessionInv, NEW c \in Callers, SessionSave(c)
    PROVE  SessionInv'
<1> DEFINE call == sessionCalls[c]
<1>1. call \in [op : SessionOps, id : Sessions, read : SessionRecords]
    BY DEF SessionSave, SessionInv, SessionTypeOK
<1> HIDE DEF call
<1>2. SessionComputed(call) \in SessionRecords
    <2>1. now + SessionTtl \in Int /\ now \in Int
        BY SessionConfig, BoundsNat DEF Times
    <2> QED BY <1>1, <2>1 DEF SessionComputed, SessionRecords, SessionOps
<1>5. ~call.read.active \/ call.op = "revoke" => ~SessionComputed(call).active
    BY <1>1 DEF SessionComputed, SessionRecords, SessionOps
<1>6. /\ call # Idle
      /\ sessions' = [sessions EXCEPT ![call.id] = SessionComputed(call)]
      /\ sessionCalls' = [sessionCalls EXCEPT ![c] = Idle]
      /\ revokedIds' = IF call.op = "revoke" THEN revokedIds \cup {call.id} ELSE revokedIds
      /\ sessionRaced' = IF call.read = sessions[call.id]
                         THEN sessionRaced ELSE sessionRaced \cup {call.id}
    BY DEF SessionSave, call
<1>3. SessionTypeOK'
    BY <1>1, <1>2, <1>6 DEF SessionInv, SessionTypeOK
<1>4. ASSUME NEW s \in revokedIds' \ sessionRaced'
      PROVE  sessions'[s] = NoSession \/ ~sessions'[s].active
    <2>1. CASE s # call.id
        BY <1>1, <1>4, <1>6, <2>1 DEF SessionInv, SessionTypeOK
    <2>2. CASE s = call.id
        <3>1. call.read = sessions[s] /\ s \notin sessionRaced
            BY <1>4, <1>6, <2>2
        <3>2. sessions'[s] = SessionComputed(call)
            BY <1>1, <1>6, <2>2 DEF SessionInv, SessionTypeOK
        <3>3. CASE call.op = "revoke"
            BY <1>5, <3>2, <3>3
        <3>4. CASE call.op # "revoke"
            <4>1. s \in revokedIds \ sessionRaced
                BY <1>4, <1>6, <2>2, <3>1, <3>4
            <4>2. call.read = NoSession \/ ~call.read.active
                BY <3>1, <4>1 DEF SessionInv
            <4>3. CASE ~call.read.active
                BY <1>5, <3>2, <4>3
            <4>4. CASE call.read = NoSession
                <5>1. NoSession \in SessionRecords
                    BY <1>1, <4>4
                <5> QED BY <5>1, SessionMark
            <4> QED BY <4>2, <4>3, <4>4
        <3> QED BY <3>3, <3>4
    <2> QED BY <2>1, <2>2
<1> QED BY <1>3, <1>4 DEF SessionInv

(* A revocation of all, and a cleanup, remove what they revoke.             *)
LEMMA RemovalKeepsSessions ==
    ASSUME SessionInv,
           (\E u \in Users : RevokeUserSessions(u)) \/ CleanupSessions
    PROVE  SessionInv'
<1>1. CASE \E u \in Users : RevokeUserSessions(u)
    BY <1>1 DEF RevokeUserSessions, SessionsOf, SessionInv, SessionTypeOK
<1>2. CASE CleanupSessions
    BY <1>2 DEF CleanupSessions, Lapsed, SessionInv, SessionTypeOK
<1> QED BY <1>1, <1>2

LEMMA SessionInvStep ==
    ASSUME now \in Times, SessionInv, [Next]_vars
    PROVE  SessionInv'
<1>1. CASE UNCHANGED sessionVars
    BY <1>1 DEF sessionVars, SessionInv, SessionTypeOK
<1>2. CASE SessionNext
    BY <1>2, CreateKeepsSessions, ReadKeepsSessions, SaveKeepsSessions,
       RemovalKeepsSessions DEF SessionNext
<1> QED BY <1>1, <1>2, OneService

LEMMA SessionInvHolds == Spec => []SessionInv
<1>1. Init => now \in Times /\ SessionInv
    BY SessionInvInit, BoundsNat DEF Init, ClockInit, Times
<1>2. now \in Times /\ SessionInv /\ [Next]_vars => (now \in Times /\ SessionInv)'
    BY ClockStep, SessionInvStep DEF Times
<1> QED BY <1>1, <1>2, PTL DEF Spec

(* Whatever is created, validated, refreshed, touched, revoked and cleaned  *)
(* up at the same time, a session a revocation has completed for is never   *)
(* usable again, unless a call saved what it had read before.               *)
THEOREM SessionsStayRevoked == Spec => []RevokedSessionsStayRevoked
<1>1. SessionInv => RevokedSessionsStayRevoked
    BY DEF SessionInv, RevokedSessionsStayRevoked, Usable
<1> QED BY <1>1, SessionInvHolds, PTL

(***************************************************************************)
(* Tokens: a token a completed revocation was about is on the revoked list  *)
(* until it expires                                                         *)
(***************************************************************************)

Expired(t) == tokens[t].exp < now

\* What reached a user is in the index, ...
HeldAreIndexed == \A t \in Tokens : Held(t) => t \in userTokens \/ Expired(t)

\* ... what a call is about to report revoked already is, or will be at its
\* last step, ...
RevokeListed(c) ==
    InCall(c, "revoke") =>
        LET t == tokenCalls[c].token IN Issued(t) /\ (t \in revoked \/ Expired(t))

CopyCoversAims(c) ==
    InCall(c, "revokeAll") =>
        \A t \in tokenCalls[c].aims : Issued(t) /\ (t \in tokenCalls[c].copied \/ Expired(t))

CallsListed == \A c \in Callers : RevokeListed(c) /\ CopyCoversAims(c)

\* ... and what was reported revoked is listed.
DeadAreListed == \A t \in dead : Issued(t) /\ (t \in revoked \/ Expired(t))

TokenInv ==
    /\ TokenTypeOK
    /\ HeldAreIndexed
    /\ CallsListed
    /\ DeadAreListed

LEMMA TokenInvInit == Init => TokenInv
BY DEF Init, TokenInit, TokenInv, TokenTypeOK, HeldAreIndexed, CallsListed,
       RevokeListed, CopyCoversAims, DeadAreListed, Held, Issued, InCall

(* What has expired stays so.                                              *)
LEMMA ExpiredStays ==
    ASSUME now \in Times, now' \in Times, now' >= now, TokenTypeOK,
           NEW t \in Tokens, Issued(t), Expired(t), tokens'[t] = tokens[t]
    PROVE  Expired(t)'
<1>1. tokens[t].exp \in Nat
    BY DEF TokenTypeOK, Issued, TokenRecords
<1> QED BY <1>1, BoundsNat DEF Expired, Times

(* What a call keeps.                                                      *)
LEMMA CallsKeep ==
    ASSUME TokenTypeOK, NEW c \in Callers, tokenCalls[c] # Idle
    PROVE  /\ tokenCalls[c].op \in {"issue", "revoke"} => tokenCalls[c].token \in Tokens
           /\ tokenCalls[c].op = "revokeAll" =>
                /\ tokenCalls[c].copied \subseteq Tokens
                /\ tokenCalls[c].aims \subseteq Tokens
<1>1. tokenCalls[c] \in TokenCalls
    BY DEF TokenTypeOK
<1>2. CASE tokenCalls[c] \in [op : {"issue", "revoke"}, token : Tokens]
    BY <1>2
<1>3. CASE tokenCalls[c] \in [op : {"revokeAll"}, copied : SUBSET Tokens, aims : SUBSET Tokens]
    BY <1>3
<1> QED BY <1>1, <1>2, <1>3 DEF TokenCalls

(* Time passing keeps the invariant.                                       *)
LEMMA TickKeepsTokens ==
    ASSUME now \in Times, now' \in Times, now' >= now, TokenInv, UNCHANGED tokenVars
    PROVE  TokenInv'
<1>1. \A t \in Tokens : Issued(t) /\ Expired(t) => Expired(t)'
    BY ExpiredStays DEF tokenVars, TokenInv
<1>2. \A t \in Tokens : (Issued(t)' <=> Issued(t)) /\ (Held(t)' <=> Held(t))
    BY DEF tokenVars, Issued, Held, InCall
<1>3. TokenTypeOK'
    BY DEF tokenVars, TokenInv, TokenTypeOK
<1>4. HeldAreIndexed'
    BY <1>1, <1>2 DEF tokenVars, TokenInv, HeldAreIndexed, Held
<1>5. CallsListed'
    BY <1>1, <1>2, CallsKeep DEF tokenVars, TokenInv, CallsListed, RevokeListed,
       CopyCoversAims, InCall
<1>8. DeadAreListed'
    BY <1>1, <1>2 DEF tokenVars, TokenInv, TokenTypeOK, DeadAreListed
<1> QED BY <1>3, <1>4, <1>5, <1>8 DEF TokenInv
(* A step that leaves time, the tokens and the calls of all others alone, and *)
(* takes nothing off the list and the index, keeps what it does not touch.    *)
LEMMA OtherCallsKeep ==
    ASSUME TokenInv, now' = now, NEW c \in Callers,
           \A t \in Tokens : Issued(t) => tokens'[t] = tokens[t],
           \A d \in Callers \ {c} : tokenCalls'[d] = tokenCalls[d],
           revoked \subseteq revoked'
    PROVE  /\ \A t \in Tokens : Issued(t) => Issued(t)' /\ (Expired(t)' <=> Expired(t))
           /\ \A d \in Callers \ {c} : RevokeListed(d)' /\ CopyCoversAims(d)'
           /\ \A t \in dead : Issued(t)' /\ (t \in revoked' \/ Expired(t)')
<1>1. \A t \in Tokens : Issued(t) => Issued(t)' /\ (Expired(t)' <=> Expired(t))
    BY DEF Issued, Expired
<1>2. ASSUME NEW d \in Callers \ {c}
      PROVE  RevokeListed(d)'
    BY <1>1, CallsKeep DEF TokenInv, CallsListed, RevokeListed, InCall
<1>3. ASSUME NEW d \in Callers \ {c}
      PROVE  CopyCoversAims(d)'
    BY <1>1, CallsKeep DEF TokenInv, CallsListed, CopyCoversAims, InCall
<1>4. \A t \in dead : Issued(t)' /\ (t \in revoked' \/ Expired(t)')
    BY <1>1 DEF TokenInv, TokenTypeOK, DeadAreListed
<1> QED BY <1>1, <1>2, <1>3, <1>4

(* A new token is in nobody's hands until it is tracked, and nobody's call or *)
(* revocation is about it.                                                  *)
LEMMA EncodeKeepsTokens ==
    ASSUME now \in Times, now' = now, TokenInv,
           NEW c \in Callers, NEW t \in Tokens, NEW u \in Users, NEW kind \in Kinds,
           Encode(c, t, u, kind)
    PROVE  TokenInv'
<1> DEFINE record == tokens'[t]
<1>1. record \in TokenRecords
    <2>1. now + (IF kind = "access" THEN AccessTtl ELSE RefreshTtl) \in Nat
        BY TokenConfig, BoundsNat DEF Times
    <2> QED BY <2>1 DEF Encode, TokenInv, TokenTypeOK, TokenRecords
<1> HIDE DEF record
<1>2. /\ ~Issued(t)
      /\ tokenCalls[c] = Idle
      /\ tokens' = [tokens EXCEPT ![t] = record]
      /\ tokenCalls' = [tokenCalls EXCEPT ![c] = [op |-> "issue", token |-> t]]
      /\ UNCHANGED <<userTokens, revoked, dead>>
    BY DEF Encode, record, TokenInv, TokenTypeOK
<1>3. TokenTypeOK'
    BY <1>1, <1>2 DEF TokenInv, TokenTypeOK, TokenCalls
<1>4. \A s \in Tokens : Issued(s) => tokens'[s] = tokens[s]
    BY <1>2 DEF TokenInv, TokenTypeOK
<1>5. /\ \A d \in Callers \ {c} : tokenCalls'[d] = tokenCalls[d]
      /\ tokenCalls'[c] = [op |-> "issue", token |-> t]
    BY <1>2 DEF TokenInv, TokenTypeOK
<1>6. InCall(c, "issue")' /\ tokenCalls'[c].token = t
    BY <1>5, TokenCallMark DEF InCall, TokenCalls
<1>7. HeldAreIndexed'
    <2>1. ASSUME NEW s \in Tokens, Held(s)'
          PROVE  Held(s)
        <3>1. s # t
            BY <1>6, <2>1 DEF Held
        <3>2. Issued(s)
            BY <1>2, <2>1, <3>1 DEF Held, Issued, TokenInv, TokenTypeOK
        <3>3. \A d \in Callers : InCall(d, "issue") => d # c
            BY <1>2 DEF InCall
        <3> QED BY <1>5, <2>1, <3>2, <3>3 DEF Held, InCall
    <2>2. \A s \in Tokens : Held(s) => Issued(s) /\ (s \in userTokens \/ Expired(s))
        BY DEF TokenInv, HeldAreIndexed, Held
    <2> QED BY <1>2, <1>4, <2>1, <2>2 DEF HeldAreIndexed, Expired
<1>8. RevokeListed(c)' /\ CopyCoversAims(c)'
    BY <1>5 DEF RevokeListed, CopyCoversAims, InCall
<1>9. CallsListed' /\ DeadAreListed'
    BY <1>2, <1>4, <1>5, <1>8, OtherCallsKeep DEF CallsListed, DeadAreListed
<1> QED BY <1>3, <1>7, <1>9 DEF TokenInv
(* Tracking puts the token in the index before its user holds it.           *)
LEMMA TrackKeepsTokens ==
    ASSUME TokenInv, NEW c \in Callers, Track(c)
    PROVE  TokenInv'
<1> DEFINE t == tokenCalls[c].token
<1>1. t \in Tokens
    BY CallsKeep DEF Track, InCall, TokenInv
<1>2. /\ now' = now
      /\ userTokens' = userTokens \cup {t}
      /\ tokenCalls' = [tokenCalls EXCEPT ![c] = Idle]
      /\ UNCHANGED <<tokens, revoked, dead>>
      /\ InCall(c, "issue")
    BY DEF Track, clockVars
<1> HIDE DEF t
<1>3. TokenTypeOK'
    BY <1>1, <1>2 DEF TokenInv, TokenTypeOK
<1>4. /\ tokenCalls'[c] = Idle
      /\ \A d \in Callers \ {c} : tokenCalls'[d] = tokenCalls[d]
    BY <1>2 DEF TokenInv, TokenTypeOK
<1>5. ASSUME NEW s \in Tokens, Held(s)', s # t
      PROVE  Held(s)
    BY <1>2, <1>4, <1>5 DEF Held, InCall, Issued, t
<1>6. HeldAreIndexed'
    BY <1>2, <1>5 DEF TokenInv, HeldAreIndexed, Expired
<1>7. RevokeListed(c)' /\ CopyCoversAims(c)'
    BY <1>4 DEF RevokeListed, CopyCoversAims, InCall
<1>8. CallsListed' /\ DeadAreListed'
    BY <1>2, <1>4, <1>7, OtherCallsKeep DEF CallsListed, DeadAreListed
<1> QED BY <1>3, <1>6, <1>8 DEF TokenInv

(* A revocation lists the token before it indexes it.                       *)
LEMMA RevokeKeepsTokens ==
    ASSUME TokenInv, NEW c \in Callers, NEW t \in Tokens, Revoke(c, t)
    PROVE  TokenInv'
<1>1. /\ now' = now
      /\ tokenCalls[c] = Idle
      /\ Issued(t)
      /\ revoked' = revoked \cup {t}
      /\ tokenCalls' = [tokenCalls EXCEPT ![c] = [op |-> "revoke", token |-> t]]
      /\ UNCHANGED <<tokens, userTokens, dead>>
    BY DEF Revoke, Begin, Held
<1>2. TokenTypeOK'
    BY <1>1 DEF TokenInv, TokenTypeOK, TokenCalls
<1>3. /\ tokenCalls'[c] = [op |-> "revoke", token |-> t]
      /\ \A d \in Callers \ {c} : tokenCalls'[d] = tokenCalls[d]
    BY <1>1 DEF TokenInv, TokenTypeOK
<1>4. \A s \in Tokens : Held(s)' => Held(s)
    BY <1>1, <1>3 DEF Held, InCall, Issued
<1>5. HeldAreIndexed'
    BY <1>1, <1>4 DEF TokenInv, HeldAreIndexed, Expired
<1>6. RevokeListed(c)' /\ CopyCoversAims(c)'
    BY <1>1, <1>3 DEF RevokeListed, CopyCoversAims, InCall, Issued
<1>7. CallsListed' /\ DeadAreListed'
    BY <1>1, <1>3, <1>6, OtherCallsKeep DEF CallsListed, DeadAreListed
<1> QED BY <1>2, <1>5, <1>7 DEF TokenInv

LEMMA RevokeIndexesKeepsTokens ==
    ASSUME TokenInv, NEW c \in Callers, RevokeIndexes(c)
    PROVE  TokenInv'
<1> DEFINE t == tokenCalls[c].token
<1>1. t \in Tokens
    BY CallsKeep DEF RevokeIndexes, InCall, TokenInv
<1>2. Issued(t) /\ (t \in revoked \/ Expired(t))
    BY DEF RevokeIndexes, TokenInv, CallsListed, RevokeListed
<1>3. /\ now' = now
      /\ userTokens' = userTokens \cup {t}
      /\ dead' = dead \cup {t}
      /\ tokenCalls' = [tokenCalls EXCEPT ![c] = Idle]
      /\ UNCHANGED <<tokens, revoked>>
      /\ InCall(c, "revoke")
    BY DEF RevokeIndexes, clockVars
<1> HIDE DEF t
<1>4. TokenTypeOK'
    BY <1>1, <1>3 DEF TokenInv, TokenTypeOK
<1>5. /\ tokenCalls'[c] = Idle
      /\ \A d \in Callers \ {c} : tokenCalls'[d] = tokenCalls[d]
    BY <1>3 DEF TokenInv, TokenTypeOK
<1>6. \A s \in Tokens : Held(s)' => Held(s)
    BY <1>3, <1>5 DEF Held, InCall, Issued
<1>7. HeldAreIndexed'
    BY <1>3, <1>6 DEF TokenInv, HeldAreIndexed, Expired
<1>8. RevokeListed(c)' /\ CopyCoversAims(c)'
    BY <1>5 DEF RevokeListed, CopyCoversAims, InCall
<1>9. CallsListed'
    BY <1>3, <1>5, <1>8, OtherCallsKeep DEF CallsListed
<1>10. DeadAreListed'
    BY <1>2, <1>3 DEF TokenInv, DeadAreListed, Issued, Expired
<1> QED BY <1>4, <1>7, <1>9, <1>10 DEF TokenInv

(* What a user holds is in the index that is copied.                        *)
LEMMA CopyKeepsTokens ==
    ASSUME TokenInv, NEW c \in Callers, NEW u \in Users, RevokeAllCopies(c, u)
    PROVE  TokenInv'
<1> DEFINE call == [op |-> "revokeAll", copied |-> IndexOf(u), aims |-> HeldBy(u)]
<1>1. /\ now' = now
      /\ tokenCalls[c] = Idle
      /\ tokenCalls' = [tokenCalls EXCEPT ![c] = call]
      /\ UNCHANGED <<tokens, userTokens, revoked, dead>>
    BY DEF RevokeAllCopies, Begin
<1>2. IndexOf(u) \subseteq Tokens /\ HeldBy(u) \subseteq Tokens
    BY DEF IndexOf, HeldBy, TokenInv, TokenTypeOK
<1>3. \A t \in call.aims : Issued(t) /\ (t \in call.copied \/ Expired(t))
    BY DEF IndexOf, HeldBy, Held, TokenInv, HeldAreIndexed
<1>4. call \in TokenCalls
    BY <1>2 DEF TokenCalls
<1> HIDE DEF call
<1>5. TokenTypeOK'
    BY <1>1, <1>4 DEF TokenInv, TokenTypeOK
<1>6. /\ tokenCalls'[c] = call
      /\ \A d \in Callers \ {c} : tokenCalls'[d] = tokenCalls[d]
    BY <1>1 DEF TokenInv, TokenTypeOK
<1>7. \A s \in Tokens : Held(s)' => Held(s)
    BY <1>1, <1>6 DEF Held, InCall, Issued
<1>8. HeldAreIndexed'
    BY <1>1, <1>7 DEF TokenInv, HeldAreIndexed, Expired
<1>9. RevokeListed(c)' /\ CopyCoversAims(c)'
    BY <1>1, <1>3, <1>6 DEF RevokeListed, CopyCoversAims, InCall, Issued, Expired, call
<1>10. CallsListed' /\ DeadAreListed'
    BY <1>1, <1>6, <1>9, OtherCallsKeep DEF CallsListed, DeadAreListed
<1> QED BY <1>5, <1>8, <1>10 DEF TokenInv

LEMMA InsertKeepsTokens ==
    ASSUME TokenInv, NEW c \in Callers, RevokeAllInserts(c)
    PROVE  TokenInv'
<1> DEFINE call == tokenCalls[c]
<1>1. call.copied \subseteq Tokens /\ call.aims \subseteq Tokens
    BY CallsKeep DEF RevokeAllInserts, InCall, TokenInv
<1>2. \A t \in call.aims : Issued(t) /\ (t \in call.copied \/ Expired(t))
    BY DEF RevokeAllInserts, TokenInv, CallsListed, CopyCoversAims
<1>3. /\ now' = now
      /\ revoked' = revoked \cup call.copied
      /\ dead' = dead \cup call.aims
      /\ tokenCalls' = [tokenCalls EXCEPT ![c] = Idle]
      /\ UNCHANGED <<tokens, userTokens>>
      /\ InCall(c, "revokeAll")
    BY DEF RevokeAllInserts, clockVars
<1>4. /\ tokenCalls'[c] = Idle
      /\ \A d \in Callers \ {c} : tokenCalls'[d] = tokenCalls[d]
    BY <1>3 DEF TokenInv, TokenTypeOK
<1>5. \A s \in Tokens : Held(s)' => Held(s)
    BY <1>3, <1>4 DEF Held, InCall, Issued
<1> HIDE DEF call
<1>6. TokenTypeOK'
    BY <1>1, <1>3 DEF TokenInv, TokenTypeOK
<1>7. HeldAreIndexed'
    BY <1>3, <1>5 DEF TokenInv, HeldAreIndexed, Expired
<1>8. RevokeListed(c)' /\ CopyCoversAims(c)'
    BY <1>4 DEF RevokeListed, CopyCoversAims, InCall
<1>9. CallsListed'
    BY <1>3, <1>4, <1>8, OtherCallsKeep DEF CallsListed
<1>10. DeadAreListed'
    BY <1>2, <1>3 DEF TokenInv, DeadAreListed, Issued, Expired
<1> QED BY <1>6, <1>7, <1>9, <1>10 DEF TokenInv

(* What is pruned has expired.                                             *)
LEMMA PruneKeepsTokens ==
    ASSUME now \in Times, TokenInv, PruneExpired
    PROVE  TokenInv'
<1>1. /\ now' = now
      /\ revoked' = {t \in revoked : StillListed(t)}
      /\ userTokens' = {t \in userTokens : StillListed(t)}
      /\ UNCHANGED <<tokens, tokenCalls, dead>>
    BY DEF PruneExpired, clockVars
<1>2. \A t \in Tokens : Issued(t) => StillListed(t) \/ Expired(t)
    BY BoundsNat DEF TokenInv, TokenTypeOK, Issued, TokenRecords, StillListed, Expired, Times
<1>3. \A t \in Tokens : (Issued(t)' <=> Issued(t)) /\ (Expired(t)' <=> Expired(t))
    BY <1>1 DEF Issued, Expired
<1>4. \A t \in Tokens : Held(t)' => Held(t) /\ Issued(t)
    BY <1>1 DEF Held, Issued, InCall
<1>5. TokenTypeOK'
    BY <1>1 DEF TokenInv, TokenTypeOK
<1>6. HeldAreIndexed'
    BY <1>1, <1>2, <1>3, <1>4 DEF TokenInv, HeldAreIndexed
<1>7. CallsListed'
    <2>1. ASSUME NEW c \in Callers
          PROVE  RevokeListed(c)'
        BY <1>1, <1>2, <1>3, CallsKeep DEF TokenInv, CallsListed, RevokeListed, InCall
    <2>2. ASSUME NEW c \in Callers
          PROVE  CopyCoversAims(c)'
        BY <1>1, <1>2, <1>3, CallsKeep DEF TokenInv, CallsListed, CopyCoversAims, InCall
    <2> QED BY <2>1, <2>2 DEF CallsListed
<1>8. DeadAreListed'
    BY <1>1, <1>2, <1>3 DEF TokenInv, TokenTypeOK, DeadAreListed
<1> QED BY <1>5, <1>6, <1>7, <1>8 DEF TokenInv

LEMMA TokenInvStep ==
    ASSUME now \in Times, TokenInv, [Next]_vars
    PROVE  TokenInv'
<1>1. CASE UNCHANGED tokenVars
    BY <1>1, ClockStep, TickKeepsTokens
<1>2. CASE TokenNext
    <2>1. ASSUME NEW c \in Callers, NEW t \in Tokens, NEW u \in Users, NEW kind \in Kinds,
                 Generate(c, t, u, kind)
          PROVE  TokenInv'
        BY <2>1, EncodeKeepsTokens DEF Generate, Begin
    <2>2. ASSUME NEW c \in Callers, NEW t \in Tokens, NEW new \in Tokens,
                 RefreshAccess(c, t, new)
          PROVE  TokenInv'
        <3>1. tokens[t].user \in Users
            BY <2>2 DEF RefreshAccess, AcceptsRefresh, Held, Issued, TokenInv, TokenTypeOK,
                        TokenRecords
        <3>2. "access" \in Kinds
            BY DEF Kinds
        <3> QED BY <2>2, <3>1, <3>2, EncodeKeepsTokens DEF RefreshAccess, Begin
    <2> QED BY <1>2, <2>1, <2>2, TrackKeepsTokens, RevokeKeepsTokens,
               RevokeIndexesKeepsTokens, CopyKeepsTokens, InsertKeepsTokens,
               PruneKeepsTokens DEF TokenNext
<1> QED BY <1>1, <1>2, OneService

LEMMA TokenInvHolds == Spec => [](now \in Times /\ TokenInv)
<1>1. Init => now \in Times /\ TokenInv
    BY TokenInvInit, BoundsNat DEF Init, ClockInit, Times
<1>2. now \in Times /\ TokenInv /\ [Next]_vars => (now \in Times /\ TokenInv)'
    BY ClockStep, TokenInvStep DEF Times
<1> QED BY <1>1, <1>2, PTL DEF Spec

(* Whatever tokens are issued, revoked one by one or all of a user, refreshed *)
(* and pruned at the same time, an access token a completed revocation was     *)
(* about is rejected until it expires.                                         *)
THEOREM TokensStayRejected == Spec => []RevokedTokensAreRejected
<1>1. now \in Times /\ TokenInv => RevokedTokensAreRejected
    <2> SUFFICES ASSUME now \in Times, TokenInv, NEW t \in dead, tokens[t].exp >= now
                 PROVE  ~AcceptsAccess(t)
        BY DEF RevokedTokensAreRejected
    <2>1. t \in Tokens /\ Issued(t) /\ (t \in revoked \/ Expired(t))
        BY DEF TokenInv, TokenTypeOK, DeadAreListed
    <2>2. tokens[t].exp \in Nat
        BY <2>1 DEF TokenInv, TokenTypeOK, Issued, TokenRecords
    <2>3. ~Expired(t)
        BY <2>2, BoundsNat DEF Expired, Times
    <2> QED BY <2>1, <2>3 DEF AcceptsAccess
<1> QED BY <1>1, TokenInvHolds, PTL

(***************************************************************************)
(* Lists of timestamps                                                     *)
(***************************************************************************)

LEMMA TimesFinite == IsFiniteSet(Times)
BY BoundsNat, FS_Interval DEF Times

(* What lies in a window now lay in it before.                             *)
LEMMA LaterWindow ==
    ASSUME NEW start \in Int, NEW end \in Int, end >= start, NEW length \in Int,
           NEW t \in Int, t > end - length
    PROVE  t > start - length
OBVIOUS

(* What lies within a window.                                              *)
LEMMA WithinCounts ==
    ASSUME NEW list \in Counts(Times), NEW length, NEW at
    PROVE  /\ Within(list, length, at) \in Counts(Times)
           /\ \A t \in Times : t > at - length => Within(list, length, at)[t] = list[t]
           /\ \A t \in Times : ~(t > at - length) => Within(list, length, at)[t] = 0
BY DEF Within, Counts

(***************************************************************************)
(* Lockout: what ends a permanent lock, and why enough failures lock        *)
(***************************************************************************)

\* A call that counts a failure has read a record without a permanent lock.
LockCallInOrder(call) ==
    /\ call.at <= now
    /\ call.op = "fail" => ~IsPermanent(call.read)

LockCallsInOrder ==
    \A c \in Callers : lockCalls[c] # Idle => LockCallInOrder(lockCalls[c])

\* Within the window a record has exactly the attempts that were counted.
AttemptsKept(a) ==
    \A t \in Times : t > now - LockWindow => OrNew(records[a]).attempts[t] = failures[a][t]

LockInv ==
    /\ now \in Times
    /\ LockTypeOK
    /\ LockCallsInOrder
    /\ \A a \in Accounts \ lockRaced : AttemptsKept(a)

LEMMA NewRecordType == NewRecord \in LockRecords /\ NewRecord.attempts = NoneOf(Times)
BY NoneIsCounts, LockConfig DEF NewRecord, LockRecords, Never

LEMMA OrNewType ==
    ASSUME NEW record \in LockRecords \cup {NoRecord}
    PROVE  OrNew(record) \in LockRecords
BY NewRecordType DEF OrNew

LEMMA LockInvInit == Init => LockInv
<1>1. Init => now \in Times
    BY BoundsNat DEF Init, ClockInit, Times
<1>2. Init => LockTypeOK /\ LockCallsInOrder
    BY NoneIsCounts DEF Init, LockInit, LockTypeOK, LockCallsInOrder
<1>3. Init => \A a \in Accounts : AttemptsKept(a)
    BY NewRecordType DEF Init, LockInit, AttemptsKept, OrNew
<1> QED BY <1>1, <1>2, <1>3 DEF LockInv

(* What a failure makes of a record: the attempts of the window and one more. *)
LEMMA FailureRecord ==
    ASSUME NEW r \in LockRecords, NEW at \in Times
    PROVE  /\ WithFailure(r, at) \in LockRecords
           /\ WithFailure(r, at).attempts = Pushed(Within(r.attempts, LockWindow, at), at)
<1> DEFINE recent == Pushed(Within(r.attempts, LockWindow, at), at)
           n == NextCount(r)
<1>1. recent \in Counts(Times)
    BY WithinCounts, PushedCounts DEF LockRecords
<1>2. /\ r.count \in 0 .. Len(LockDurations)
      /\ Len(LockDurations) \in Nat \ {0}
    BY LockConfig DEF LockRecords
<1>3. n \in 1 .. Len(LockDurations) /\ n \in 0 .. Len(LockDurations)
    BY <1>2 DEF NextCount
<1>4. at + LockDuration(n) \in Int
    BY <1>3, LockConfig, BoundsNat DEF LockDuration, Times
<1> HIDE DEF recent, n
<1>5. [r EXCEPT !.attempts = recent] \in LockRecords
    BY <1>1 DEF LockRecords
<1>6. [r EXCEPT !.attempts = recent, !.count = n, !.until = at + LockDuration(n)]
          \in LockRecords
    BY <1>1, <1>3, <1>4 DEF LockRecords
<1>7. \/ WithFailure(r, at) = [r EXCEPT !.attempts = recent]
      \/ WithFailure(r, at) =
            [r EXCEPT !.attempts = recent, !.count = n, !.until = at + LockDuration(n)]
    BY DEF WithFailure, recent, n
<1>8. WithFailure(r, at).attempts = recent
    BY <1>7 DEF LockRecords
<1> QED BY <1>5, <1>6, <1>7, <1>8 DEF recent

LEMMA ClearedRecord ==
    ASSUME NEW r \in LockRecords
    PROVE  /\ Cleared(r) \in LockRecords
           /\ Cleared(r).attempts = NoneOf(Times)
           /\ Cleared(r).permanent = r.permanent
<1>1. NoneOf(Times) \in Counts(Times) /\ Never \in Int
    BY NoneIsCounts DEF Never
<1> QED BY <1>1 DEF Cleared, LockRecords

LEMMA PermanentRecord ==
    ASSUME NEW r \in LockRecords, NEW b \in BOOLEAN
    PROVE  /\ [r EXCEPT !.permanent = b] \in LockRecords
           /\ [r EXCEPT !.permanent = b].attempts = r.attempts
           /\ [r EXCEPT !.permanent = b].permanent = b
BY DEF LockRecords

(* What each operation makes of the record it has read: all but an unlock    *)
(* leave a permanent lock in it.                                            *)
LEMMA ComputedRecord ==
    ASSUME NEW call \in LockCalls
    PROVE  LET r == OrNew(call.read)
           IN  /\ Computed(call) \in LockRecords
               /\ Computed(call).attempts =
                    CASE call.op = "fail" -> Pushed(Within(r.attempts, LockWindow, call.at), call.at)
                      [] call.op = "lock" -> r.attempts
                      [] OTHER            -> NoneOf(Times)
               /\ call.op \in {"reset", "lock"} /\ r.permanent => Computed(call).permanent
<1> DEFINE r == OrNew(call.read)
<1>1. r \in LockRecords /\ call.at \in Times /\ call.op \in LockOps
    BY OrNewType DEF LockCalls
<1> HIDE DEF r
<1>2. CASE call.op = "fail"
    <2>1. Computed(call) = WithFailure(r, call.at)
        BY <1>2 DEF Computed, r
    <2> QED BY <1>1, <1>2, <2>1, FailureRecord DEF r
<1>3. CASE call.op = "reset"
    <2>1. Computed(call) = Cleared(r)
        BY <1>3 DEF Computed, r
    <2> QED BY <1>1, <1>3, <2>1, ClearedRecord DEF r
<1>4. CASE call.op = "lock"
    <2>1. Computed(call) = [r EXCEPT !.permanent = TRUE]
        BY <1>4 DEF Computed, r
    <2> QED BY <1>1, <1>4, <2>1, PermanentRecord DEF r
<1>5. CASE call.op = "unlock"
    <2>1. Computed(call) = [Cleared(r) EXCEPT !.permanent = FALSE]
        BY <1>5 DEF Computed, r
    <2>2. Cleared(r) \in LockRecords /\ Cleared(r).attempts = NoneOf(Times)
        BY <1>1, ClearedRecord
    <2>3. /\ Computed(call) \in LockRecords
          /\ Computed(call).attempts = NoneOf(Times)
        BY <2>1, <2>2, PermanentRecord
    <2> QED BY <1>5, <2>3
<1> QED BY <1>1, <1>2, <1>3, <1>4, <1>5 DEF LockOps

(* Time that passes takes attempts out of the window, and nothing else.      *)
LEMMA TickKeepsLocks ==
    ASSUME LockInv, now' \in Times, now' >= now, UNCHANGED lockVars
    PROVE  LockInv'
<1>1. LockTypeOK'
    BY DEF lockVars, LockInv, LockTypeOK
<1>2. LockCallsInOrder'
    <2> SUFFICES ASSUME NEW c \in Callers, lockCalls[c] # Idle
                 PROVE  LockCallInOrder(lockCalls[c])'
        BY DEF lockVars, LockCallsInOrder
    <2>1. lockCalls[c] \in LockCalls /\ LockCallInOrder(lockCalls[c])
        BY DEF LockInv, LockTypeOK, LockCallsInOrder
    <2>2. lockCalls[c].at \in Int /\ now \in Int /\ now' \in Int
        BY <2>1, BoundsNat DEF LockCalls, Times, LockInv
    <2> QED BY <2>1, <2>2 DEF lockVars, LockCallInOrder
<1>3. ASSUME NEW a \in Accounts \ lockRaced'
      PROVE  AttemptsKept(a)'
    <2>1. now \in Int /\ now' \in Int /\ LockWindow \in Int
        BY BoundsNat, LockConfig DEF Times, LockInv
    <2>2. ASSUME NEW t \in Times, t > now' - LockWindow
          PROVE  t > now - LockWindow
        <3>1. t \in Int
            BY BoundsNat DEF Times
        <3> QED BY <2>1, <2>2, <3>1, LaterWindow
    <2> QED BY <2>2 DEF lockVars, LockInv, AttemptsKept
<1> QED BY <1>1, <1>2, <1>3 DEF LockInv

LEMMA ReadKeepsLocks ==
    ASSUME LockInv, NEW c \in Callers, NEW op \in LockOps, NEW a \in Accounts,
           LockRead(c, op, a)
    PROVE  LockInv'
<1> DEFINE call == [op |-> op, user |-> a, at |-> now, read |-> records[a]]
<1>1. call \in LockCalls /\ LockCallInOrder(call)
    BY BoundsNat DEF LockRead, AnswersAtOnce, LockInv, LockTypeOK, LockCalls,
       LockCallInOrder, Times
<1> HIDE DEF call
<1>2. /\ lockCalls' = [lockCalls EXCEPT ![c] = call]
      /\ UNCHANGED <<now, records, failures, lockRaced>>
    BY DEF LockRead, Begin, call
<1>3. LockTypeOK'
    BY <1>1, <1>2 DEF LockInv, LockTypeOK
<1>4. LockCallsInOrder'
    BY <1>1, <1>2 DEF LockInv, LockTypeOK, LockCallsInOrder, LockCallInOrder
<1>5. \A b \in Accounts \ lockRaced' : AttemptsKept(b)'
    BY <1>2 DEF LockInv, AttemptsKept
<1> QED BY <1>2, <1>3, <1>4, <1>5 DEF LockInv

(* A save that does not race works on what is stored.                       *)
LEMMA SaveKeepsLocks ==
    ASSUME LockInv, NEW c \in Callers, LockSave(c)
    PROVE  LockInv'
<1> DEFINE call == lockCalls[c]
           a == call.user
           r == OrNew(call.read)
           new == Computed(call)
           counted == CASE call.op = "fail" -> Pushed(failures[a], call.at)
                        [] call.op = "lock" -> failures[a]
                        [] OTHER            -> NoneOf(Times)
<1>1. call \in LockCalls /\ LockCallInOrder(call)
    BY DEF LockSave, LockInv, LockTypeOK, LockCallsInOrder
<1>2. a \in Accounts /\ call.at \in Times /\ r \in LockRecords
    BY <1>1, OrNewType DEF LockCalls
<1>3. /\ new \in LockRecords
      /\ new.attempts =
            CASE call.op = "fail" -> Pushed(Within(r.attempts, LockWindow, call.at), call.at)
              [] call.op = "lock" -> r.attempts
              [] OTHER            -> NoneOf(Times)
    BY <1>1, ComputedRecord
<1>4. /\ now' = now
      /\ records' = [records EXCEPT ![a] = new]
      /\ lockCalls' = [lockCalls EXCEPT ![c] = Idle]
      /\ failures' = [failures EXCEPT ![a] = counted]
      /\ lockRaced' = IF call.read = records[a] THEN lockRaced ELSE lockRaced \cup {a}
    BY DEF LockSave, clockVars
<1>5. failures[a] \in Counts(Times)
    BY <1>2 DEF LockInv, LockTypeOK
<1>6. counted \in Counts(Times)
    BY <1>2, <1>5, PushedCounts, NoneIsCounts
<1>7. ASSUME call.read = records[a], AttemptsKept(a), NEW t \in Times, t > now - LockWindow
      PROVE  new.attempts[t] = counted[t]
    <2>1. r.attempts[t] = failures[a][t] /\ r.attempts \in Counts(Times)
        BY <1>2, <1>7 DEF AttemptsKept, LockRecords
    <2>2. t > call.at - LockWindow
        BY <1>1, <1>2, <1>7, BoundsNat, LockConfig DEF LockCallInOrder, Times, LockInv
    <2>3. CASE call.op = "fail"
        <3> DEFINE w == Within(r.attempts, LockWindow, call.at)
        <3>1. w \in Counts(Times) /\ w[t] = r.attempts[t]
            BY <2>1, <2>2, WithinCounts
        <3> HIDE DEF w
        <3>2. Pushed(w, call.at)[t] = Pushed(failures[a], call.at)[t]
            BY <1>2, <1>5, <2>1, <3>1, PushedCounts
        <3> QED BY <1>3, <2>3, <3>2 DEF w
    <2>4. CASE call.op = "lock"
        BY <1>3, <2>1, <2>4
    <2>5. CASE call.op \notin {"fail", "lock"}
        BY <1>3, <2>5
    <2> QED BY <2>3, <2>4, <2>5
<1> HIDE DEF call, r, new, counted
<1>8. /\ lockRaced' \subseteq Accounts
      /\ lockRaced \subseteq lockRaced'
    BY <1>2, <1>4 DEF LockInv, LockTypeOK
<1>9. LockTypeOK'
    BY <1>2, <1>3, <1>4, <1>6, <1>8 DEF LockInv, LockTypeOK
<1>10. LockCallsInOrder'
    BY <1>4 DEF LockInv, LockTypeOK, LockCallsInOrder, LockCallInOrder
<1>11. ASSUME NEW b \in Accounts \ lockRaced'
       PROVE  AttemptsKept(b)'
    <2>1. AttemptsKept(b)
        BY <1>8 DEF LockInv
    <2>2. CASE b # a
        BY <1>4, <2>1, <2>2 DEF LockInv, LockTypeOK, AttemptsKept
    <2>3. CASE b = a
        <3>1. call.read = records[a]
            BY <1>4, <1>11, <2>3
        <3>2. records'[a] = new /\ failures'[a] = counted
            BY <1>2, <1>4 DEF LockInv, LockTypeOK
        <3>3. OrNew(new) = new
            BY <1>3, LockMark DEF OrNew
        <3> QED BY <1>4, <1>7, <2>1, <2>3, <3>1, <3>2, <3>3 DEF AttemptsKept
    <2> QED BY <2>2, <2>3
<1> QED BY <1>4, <1>9, <1>10, <1>11 DEF LockInv

(* A record that is cleaned up holds no attempt of the window.               *)
LEMMA CleanupKeepsLocks ==
    ASSUME LockInv, LockCleanup
    PROVE  LockInv'
<1> DEFINE goes(a) == ~(records[a] # NoRecord /\ LockKept(records[a]))
<1>1. /\ now' = now
      /\ records' = [a \in Accounts |-> IF goes(a) THEN NoRecord ELSE records[a]]
      /\ UNCHANGED <<lockCalls, failures, lockRaced>>
    BY DEF LockCleanup, clockVars
<1>2. LockTypeOK'
    BY <1>1 DEF LockInv, LockTypeOK
<1>3. LockCallsInOrder'
    BY <1>1 DEF LockInv, LockCallsInOrder, LockCallInOrder
<1>4. ASSUME NEW a \in Accounts \ lockRaced'
      PROVE  AttemptsKept(a)'
    <2>1. AttemptsKept(a)
        BY <1>1 DEF LockInv
    <2>2. CASE ~goes(a)
        BY <1>1, <2>1, <2>2 DEF AttemptsKept
    <2>3. CASE goes(a) /\ records[a] = NoRecord
        BY <1>1, <2>1, <2>3 DEF AttemptsKept
    <2>4. CASE goes(a) /\ records[a] # NoRecord
        <3>1. records[a] \in LockRecords /\ ~AnyWithin(records[a].attempts, RecordAge, now)
            BY <2>4 DEF LockInv, LockTypeOK, LockKept
        <3>2. records[a].attempts \in Counts(Times) /\ OrNew(records[a]) = records[a]
            BY <2>4, <3>1 DEF LockRecords, OrNew
        <3>3. \A t \in Times : t > now - LockWindow => records[a].attempts[t] = 0
            <4> TAKE t \in Times
            <4> HAVE t > now - LockWindow
            <4>1. t > now - RecordAge
                BY LockConfig, BoundsNat DEF Times, LockInv
            <4>2. ~(records[a].attempts[t] > 0)
                BY <3>1, <4>1 DEF AnyWithin
            <4> QED BY <3>2, <4>2 DEF Counts
        <3>4. OrNew(records'[a]) = NewRecord
            BY <1>1, <2>4 DEF OrNew
        <3>5. \A t \in Times : NewRecord.attempts[t] = 0
            BY NewRecordType DEF NoneOf
        <3> QED BY <1>1, <2>1, <3>2, <3>3, <3>4, <3>5 DEF AttemptsKept
    <2> QED BY <2>2, <2>3, <2>4
<1> QED BY <1>1, <1>2, <1>3, <1>4 DEF LockInv

LEMMA LockInvHolds == Spec => []LockInv
<1>1. LockInv /\ [Next]_vars => LockInv'
    <2> SUFFICES ASSUME LockInv, [Next]_vars PROVE LockInv'
        OBVIOUS
    <2>1. CASE UNCHANGED lockVars
        BY <2>1, ClockStep, TickKeepsLocks DEF LockInv
    <2>2. CASE LockNext
        BY <2>2, SaveKeepsLocks, ReadKeepsLocks, CleanupKeepsLocks DEF LockNext
    <2> QED BY <2>1, <2>2, OneService
<1> QED BY <1>1, LockInvInit, PTL DEF Spec

(* Through cleanups, permanent locks, unlocks and progressive lockouts, an    *)
(* account with enough failures within the window may not try to log in,      *)
(* unless a save overwrote a change of the same record.                       *)
THEOREM FailuresDenyLogin == Spec => []EnoughFailuresDenyLogin
<1>1. LockInv => EnoughFailuresDenyLogin
    <2> SUFFICES ASSUME LockInv, NEW a \in Accounts \ lockRaced,
                        Total(Within(failures[a], LockWindow, now)) >= MaxAttempts
                 PROVE  ~MayAttemptLogin(a)
        BY DEF EnoughFailuresDenyLogin
    <2> DEFINE r == OrNew(records[a])
               counted == Within(failures[a], LockWindow, now)
               stored == Within(r.attempts, LockWindow, now)
    <2>1. /\ failures[a] \in Counts(Times)
          /\ records[a] \in LockRecords \cup {NoRecord}
        BY DEF LockInv, LockTypeOK
    <2>2. r.attempts \in Counts(Times)
        BY <2>1, OrNewType DEF LockRecords
    <2>3. \A t \in Times : t > now - LockWindow => r.attempts[t] = failures[a][t]
        BY DEF LockInv, AttemptsKept
    <2>4. stored = counted
        BY <2>3 DEF Within
    <2>5. CASE records[a] = NoRecord
        <3>1. \A t \in Times : r.attempts[t] = 0
            BY <2>5, NewRecordType DEF OrNew, NoneOf
        <3>2. stored \in Counts(Times) /\ \A t \in Times : stored[t] = 0
            BY <2>2, <3>1, WithinCounts
        <3>3. Total(stored) = 0
            BY <3>2, TimesFinite, TotalOfNone
        <3> QED BY <2>4, <3>3, LockConfig
    <2>6. CASE records[a] # NoRecord
        <3>1. Within(records[a].attempts, LockWindow, now) = counted
            BY <2>4, <2>6 DEF OrNew
        <3>2. Total(counted) \in Nat
            BY <2>1, WithinCounts, TimesFinite, TotalCounts
        <3> QED BY <2>6, <3>1, <3>2, LockConfig DEF MayAttemptLogin
    <2> QED BY <2>5, <2>6
<1> QED BY <1>1, LockInvHolds, PTL

(* Under every sequence and overlap of failures, resets, locks and unlocks, a  *)
(* permanent lock goes only by an unlock, a cleanup, or a call that had read    *)
(* the record before the lock.                                                *)
THEOREM PermanentLocksStay == Spec => PermanentLockIsKept
<1> DEFINE Kept ==
        \A u \in Accounts :
            IsPermanent(records[u]) /\ ~IsPermanent(records'[u]) =>
                \/ records'[u] = NoRecord
                \/ \E c \in Callers :
                    /\ lockCalls[c] /= Idle /\ lockCalls'[c] = Idle
                    /\ \/ lockCalls[c].op = "unlock"
                       \/ ~IsPermanent(lockCalls[c].read)
<1>1. ASSUME LockInv, [Next]_vars
      PROVE  [Kept]_lockVars
    <2> SUFFICES ASSUME ~UNCHANGED lockVars
                 PROVE  Kept
        OBVIOUS
    <2>1. ASSUME NEW c \in Callers, LockSave(c)
          PROVE  Kept
        <3> SUFFICES ASSUME NEW u \in Accounts, IsPermanent(records[u]),
                            ~IsPermanent(records'[u]), records'[u] # NoRecord,
                            lockCalls[c].op # "unlock", IsPermanent(lockCalls[c].read)
                     PROVE  FALSE
            BY <1>1, <2>1 DEF LockSave, LockInv, LockTypeOK
        <3> DEFINE call == lockCalls[c]
        <3>1. call \in LockCalls /\ LockCallInOrder(call)
            BY <1>1, <2>1 DEF LockSave, LockInv, LockTypeOK, LockCallsInOrder
        <3>2. records'[u] = Computed(call)
            BY <1>1, <2>1 DEF LockSave, LockInv, LockTypeOK
        <3>3. ~Computed(call).permanent
            BY <3>2 DEF IsPermanent
        <3>4. OrNew(call.read).permanent
            BY DEF IsPermanent, OrNew
        <3>5. call.op \in {"reset", "lock"}
            BY <3>1 DEF LockCallInOrder, LockCalls, LockOps
        <3> QED BY <3>1, <3>3, <3>4, <3>5, ComputedRecord
    <2>2. ASSUME NEW c \in Callers, NEW op \in LockOps, NEW u \in Accounts, LockRead(c, op, u)
          PROVE  Kept
        BY <2>2 DEF LockRead
    <2>3. CASE LockCleanup
        BY <2>3 DEF LockCleanup
    <2> QED BY <1>1, <2>1, <2>2, <2>3, OneService DEF LockNext
<1> QED BY <1>1, LockInvHolds, PTL DEF Spec, PermanentLockIsKept

(***************************************************************************)
(* Rate limit: no window holds more requests than the limit                 *)
(***************************************************************************)

Requests(record) == IF record = NoLimit THEN NoneOf(Times) ELSE record.requests

MadeBy(record, at) == \A t \in Times : Requests(record)[t] > 0 => t <= at

\* Of the window that ends at `at` the record has exactly the requests allowed.
KeptSince(k, at) ==
    \A t \in Times : t > at - LimitWindow => Requests(limits[k])[t] = granted[k][t]

\* A check has read no later request, was not blocked, and goes on over the limit
\* only to save a penalty.
CheckInOrder(call) ==
    /\ call.at <= now
    /\ MadeBy(call.read, call.at)
    /\ ~Blocked(call.read, call.at)
    /\ Full(call.read, call.at) => Penalty # Never

ChecksInOrder ==
    \A c \in Callers : limitCalls[c] # Idle => CheckInOrder(limitCalls[c])

\* What a check will save over an unchanged record is right when it was read, even
\* if the record has been changed back to the same meanwhile.
CheckReadsKept(call) ==
    call.key \notin limitRaced /\ call.read = limits[call.key] => KeptSince(call.key, call.at)

ChecksReadKept ==
    \A c \in Callers : limitCalls[c] # Idle => CheckReadsKept(limitCalls[c])

LimitInv ==
    /\ now \in Times
    /\ LimitTypeOK
    /\ \A k \in Keys : MadeBy(limits[k], now)
    /\ ChecksInOrder
    /\ \A k \in Keys \ limitRaced : KeptSince(k, now)
    /\ ChecksReadKept
    /\ NoWindowOverLimit

LEMMA RequestsType ==
    ASSUME NEW record \in LimitRecords \cup {NoLimit}
    PROVE  /\ Requests(record) \in Counts(Times)
           /\ Total(Requests(record)) <= MaxRequests
<1>1. NoneOf(Times) \in Counts(Times) /\ \A t \in Times : NoneOf(Times)[t] = 0
    BY NoneIsCounts DEF NoneOf
<1>2. Total(NoneOf(Times)) = 0
    BY <1>1, TimesFinite, TotalOfNone
<1> QED BY <1>1, <1>2, LimitConfig DEF Requests, LimitRecords

(* The record with which a check goes on.                                    *)
LEMMA CurrentType ==
    ASSUME NEW record \in LimitRecords \cup {NoLimit}, NEW at \in Times
    PROVE  /\ Current(record, at) \in LimitRecords
           /\ \A t \in Times : t > at - LimitWindow =>
                Current(record, at).requests[t] = Requests(record)[t]
           /\ \A t \in Times : Current(record, at).requests[t] <= Requests(record)[t]
<1> DEFINE kept == Within(Requests(record), LimitWindow, at)
<1>1. Requests(record) \in Counts(Times) /\ Total(Requests(record)) <= MaxRequests
    BY RequestsType
<1>2. /\ kept \in Counts(Times)
      /\ \A t \in Times : t > at - LimitWindow => kept[t] = Requests(record)[t]
      /\ \A t \in Times : ~(t > at - LimitWindow) => kept[t] = 0
    BY <1>1, WithinCounts
<1>3. \A t \in Times : kept[t] <= Requests(record)[t]
    <2> TAKE t \in Times
    <2>1. Requests(record)[t] \in Nat
        BY <1>1 DEF Counts
    <2> QED BY <1>2, <2>1
<1>4. Total(kept) <= MaxRequests
    <2>1. Total(kept) <= Total(Requests(record))
        BY <1>1, <1>2, <1>3, TimesFinite, TotalMonotone
    <2>2. Total(kept) \in Nat /\ Total(Requests(record)) \in Nat
        BY <1>1, <1>2, TimesFinite, TotalCounts
    <2> QED BY <1>1, <2>1, <2>2, LimitConfig
<1>5. Current(record, at).requests = kept
    <2>1. CASE record = NoLimit
        <3>1. \A t \in Times : NoneOf(Times)[t] = 0
            BY DEF NoneOf
        <3>2. kept = NoneOf(Times)
            BY <2>1, <3>1 DEF Within, Requests, NoneOf
        <3> QED BY <2>1, <3>2 DEF Current
    <2>2. CASE record # NoLimit
        BY <2>2 DEF Current, Requests
    <2> QED BY <2>1, <2>2
<1>6. /\ Current(record, at).blockedUntil \in Int
      /\ Current(record, at) = [requests     |-> Current(record, at).requests,
                                blockedUntil |-> Current(record, at).blockedUntil]
    BY DEF Current, LimitRecords, Never
<1> HIDE DEF kept
<1>7. Current(record, at) \in LimitRecords
    BY <1>2, <1>4, <1>5, <1>6 DEF LimitRecords
<1> QED BY <1>2, <1>3, <1>5, <1>7

LEMMA LimitInvInit == Init => LimitInv
<1> SUFFICES ASSUME Init PROVE LimitInv
    OBVIOUS
<1>1. now \in Times
    BY BoundsNat DEF Init, ClockInit, Times
<1>2. LimitTypeOK
    BY NoneIsCounts DEF Init, LimitInit, LimitTypeOK
<1>3. \A k \in Keys : limits[k] = NoLimit /\ granted[k] = NoneOf(Times)
    BY DEF Init, LimitInit
<1>4. \A t \in Times : NoneOf(Times)[t] = 0
    BY DEF NoneOf
<1>5. \A k \in Keys : MadeBy(limits[k], now) /\ KeptSince(k, now)
    BY <1>3, <1>4 DEF MadeBy, KeptSince, Requests
<1>6. ChecksInOrder /\ ChecksReadKept
    BY DEF Init, LimitInit, ChecksInOrder, ChecksReadKept
<1>7. NoWindowOverLimit
    <2> SUFFICES ASSUME NEW k \in Keys, NEW start \in Times
                 PROVE  Total(GrantedFrom(k, start)) <= MaxRequests
        BY DEF NoWindowOverLimit
    <2>1. GrantedFrom(k, start) \in Counts(Times)
          /\ \A t \in Times : GrantedFrom(k, start)[t] = 0
        BY <1>3, <1>4 DEF GrantedFrom, Counts
    <2> QED BY <2>1, TimesFinite, TotalOfNone, LimitConfig
<1> QED BY <1>1, <1>2, <1>5, <1>6, <1>7 DEF LimitInv

(* What holds of a call that is under way.                                   *)
LEMMA CheckFacts ==
    ASSUME LimitInv, NEW c \in Callers, limitCalls[c] # Idle
    PROVE  /\ limitCalls[c] \in LimitCalls
           /\ limitCalls[c].key \in Keys
           /\ limitCalls[c].at \in Times
           /\ limitCalls[c].read \in LimitRecords \cup {NoLimit}
           /\ CheckInOrder(limitCalls[c])
           /\ CheckReadsKept(limitCalls[c])
BY DEF LimitInv, LimitTypeOK, LimitCalls, ChecksInOrder, ChecksReadKept

LEMMA TickKeepsLimits ==
    ASSUME LimitInv, now' \in Times, now' >= now, UNCHANGED limitVars
    PROVE  LimitInv'
<1>1. now \in Int /\ now' \in Int /\ LimitWindow \in Int /\ \A t \in Times : t \in Int
    BY BoundsNat, LimitConfig DEF LimitInv, Times
<1>2. LimitTypeOK' /\ NoWindowOverLimit' /\ ChecksReadKept'
    BY DEF limitVars, LimitInv, LimitTypeOK, NoWindowOverLimit, GrantedFrom,
           ChecksReadKept, CheckReadsKept, KeptSince
<1>3. \A k \in Keys : MadeBy(limits'[k], now')
    <2> SUFFICES ASSUME NEW k \in Keys, NEW t \in Times, Requests(limits[k])[t] > 0
                 PROVE  t <= now'
        BY DEF limitVars, MadeBy
    <2>1. t <= now
        BY DEF LimitInv, MadeBy
    <2> QED BY <1>1, <2>1
<1>4. ChecksInOrder'
    <2> SUFFICES ASSUME NEW c \in Callers, limitCalls[c] # Idle
                 PROVE  CheckInOrder(limitCalls[c])'
        BY DEF limitVars, ChecksInOrder
    <2>1. limitCalls[c].at \in Times /\ CheckInOrder(limitCalls[c])
        BY CheckFacts
    <2>2. limitCalls[c].at \in Int /\ limitCalls[c].at <= now
        BY <1>1, <2>1 DEF CheckInOrder
    <2>3. limitCalls[c].at <= now'
        BY <1>1, <2>2
    <2> QED BY <2>1, <2>3 DEF limitVars, CheckInOrder
<1>5. ASSUME NEW k \in Keys \ limitRaced'
      PROVE  KeptSince(k, now)'
    <2> SUFFICES ASSUME NEW t \in Times, t > now' - LimitWindow
                 PROVE  Requests(limits[k])[t] = granted[k][t]
        BY DEF limitVars, KeptSince
    <2>1. t > now - LimitWindow
        BY <1>1, LaterWindow
    <2> QED BY <2>1 DEF limitVars, LimitInv, KeptSince
<1>6. \A k \in Keys : MadeBy(limits[k], now)'
    BY <1>3
<1> QED BY <1>2, <1>4, <1>5, <1>6 DEF LimitInv

LEMMA ReadKeepsLimits ==
    ASSUME LimitInv, NEW c \in Callers, NEW k \in Keys, LimitRead(c, k)
    PROVE  LimitInv'
<1>0. PICK call : call = [key |-> k, at |-> now, read |-> limits[k]]
    OBVIOUS
<1>1. /\ call \in LimitCalls
      /\ call.at = now /\ call.read = limits[k] /\ call.key = k
    BY <1>0 DEF LimitInv, LimitTypeOK, LimitCalls
<1>2. /\ limitCalls' = [limitCalls EXCEPT ![c] = call]
      /\ UNCHANGED <<now, limits, granted, limitRaced>>
      /\ ~Blocked(limits[k], now)
      /\ Full(limits[k], now) => Penalty # Never
    BY <1>0 DEF LimitRead, Begin
<1>3. LimitTypeOK'
    BY <1>1, <1>2 DEF LimitInv, LimitTypeOK
<1>4. /\ \A j \in Keys : MadeBy(limits[j], now)'
      /\ \A j \in Keys \ limitRaced' : KeptSince(j, now)'
      /\ NoWindowOverLimit'
    BY <1>2 DEF LimitInv, MadeBy, KeptSince, NoWindowOverLimit, GrantedFrom
<1>5. CheckInOrder(call)'
    <2>1. now <= now
        BY BoundsNat DEF LimitInv, Times
    <2>2. CheckInOrder(call)
        BY <1>1, <1>2, <2>1 DEF CheckInOrder, LimitInv
    <2> QED BY <1>2, <2>2 DEF CheckInOrder
<1>6. CheckReadsKept(call)'
    <2>1. k \notin limitRaced => KeptSince(k, now)
        BY DEF LimitInv
    <2> QED BY <1>1, <1>2, <2>1 DEF CheckReadsKept, KeptSince
<1>7. ASSUME NEW d \in Callers, limitCalls'[d] # Idle
      PROVE  CheckInOrder(limitCalls[d])' /\ CheckReadsKept(limitCalls[d])'
    <2>1. CASE d = c
        <3>1. limitCalls'[d] = call
            BY <1>2, <2>1 DEF LimitInv, LimitTypeOK
        <3> QED BY <1>5, <1>6, <3>1 DEF CheckInOrder, CheckReadsKept, KeptSince
    <2>2. CASE d # c
        <3>1. limitCalls'[d] = limitCalls[d]
            BY <1>2, <2>2 DEF LimitInv, LimitTypeOK
        <3>2. CheckInOrder(limitCalls[d]) /\ CheckReadsKept(limitCalls[d])
            BY <1>7, <3>1, CheckFacts
        <3> QED BY <1>2, <3>1, <3>2 DEF CheckInOrder, CheckReadsKept, KeptSince
    <2> QED BY <2>1, <2>2
<1>8. ChecksInOrder' /\ ChecksReadKept'
    BY <1>7 DEF ChecksInOrder, ChecksReadKept
<1> QED BY <1>2, <1>3, <1>4, <1>8 DEF LimitInv

(* What a check saves: a penalty, or one more request.                       *)
Saved(call) ==
    LET kept == Current(call.read, call.at)
    IN  IF Full(call.read, call.at)
        THEN [kept EXCEPT !.blockedUntil = call.at + Penalty]
        ELSE [kept EXCEPT !.requests = Pushed(@, call.at)]

LEMMA SavedType ==
    ASSUME NEW call \in LimitCalls, CheckInOrder(call)
    PROVE  /\ Saved(call) \in LimitRecords
           /\ Full(call.read, call.at) =>
                /\ Saved(call).requests = Current(call.read, call.at).requests
                /\ Saved(call).blockedUntil = call.at + Penalty
                /\ Penalty \in Nat
           /\ ~Full(call.read, call.at) =>
                Saved(call).requests = Pushed(Current(call.read, call.at).requests, call.at)
<1> DEFINE kept == Current(call.read, call.at)
<1>1. call.at \in Times /\ call.at \in Nat /\ call.read \in LimitRecords \cup {NoLimit}
    BY BoundsNat DEF LimitCalls, Times
<1>2. kept \in LimitRecords
    BY <1>1, CurrentType
<1>3. kept.requests \in Counts(Times) /\ Total(kept.requests) <= MaxRequests
    BY <1>2 DEF LimitRecords
<1>4. CASE Full(call.read, call.at)
    <2>1. Penalty \in Nat
        BY <1>4, LimitConfig DEF CheckInOrder
    <2>2. Saved(call) = [kept EXCEPT !.blockedUntil = call.at + Penalty]
        BY <1>4 DEF Saved
    <2> HIDE DEF kept
    <2>3. call.at + Penalty \in Int
        BY <1>1, <2>1
    <2>4. /\ Saved(call) \in LimitRecords
          /\ Saved(call).requests = kept.requests
          /\ Saved(call).blockedUntil = call.at + Penalty
        BY <1>2, <2>2, <2>3 DEF LimitRecords
    <2> QED BY <1>4, <2>1, <2>4 DEF kept
<1>5. CASE ~Full(call.read, call.at)
    <2> DEFINE list == Pushed(kept.requests, call.at)
    <2>1. Saved(call) = [kept EXCEPT !.requests = list]
        BY <1>5 DEF Saved
    <2>2. list \in Counts(Times)
        BY <1>1, <1>3, PushedCounts
    <2>3. Total(list) <= MaxRequests
        <3>1. Total(list) = Total(kept.requests) + 1 /\ Total(kept.requests) \in Nat
            BY <1>1, <1>3, TimesFinite, TotalPushed, TotalCounts
        <3>2. ~(Total(kept.requests) >= MaxRequests)
            BY <1>5 DEF Full
        <3> QED BY <3>1, <3>2, LimitConfig
    <2> HIDE DEF kept, list
    <2>4. Saved(call) \in LimitRecords /\ Saved(call).requests = list
        BY <1>2, <2>1, <2>2, <2>3 DEF LimitRecords
    <2> QED BY <1>5, <2>4 DEF kept, list
<1> QED BY <1>4, <1>5

(* A check that saves over what it has read adds one request to what was      *)
(* allowed within its window; a check that saves over a change is a race.      *)
LEMMA SaveFacts ==
    ASSUME LimitInv, NEW c \in Callers, LimitSave(c)
    PROVE  LET call == limitCalls[c]
               k == call.key
               full == Full(call.read, call.at)
           IN  /\ limitCalls[c] # Idle
               /\ now' = now
               /\ limits' = [limits EXCEPT ![k] = Saved(call)]
               /\ granted' = [granted EXCEPT ![k] =
                    IF full THEN @ ELSE Pushed(@, call.at)]
               /\ limitRaced' = IF call.read = limits[k] THEN limitRaced
                                                         ELSE limitRaced \cup {k}
               /\ limitCalls' = [limitCalls EXCEPT ![c] = Idle]
<1>1. limitCalls[c] # Idle
    BY DEF LimitSave
<1>2. limitCalls[c].key \in Keys
    BY <1>1, CheckFacts
<1>3. granted = [granted EXCEPT ![limitCalls[c].key] = @]
    BY <1>2 DEF LimitInv, LimitTypeOK
<1> QED BY <1>1, <1>3 DEF LimitSave, Saved, clockVars

LEMMA SaveKeepsLimits ==
    ASSUME LimitInv, NEW c \in Callers, LimitSave(c)
    PROVE  LimitInv'
<1>0. PICK call : call = limitCalls[c]
    OBVIOUS
<1> DEFINE k == call.key
           kept == Current(call.read, call.at)
           full == Full(call.read, call.at)
<1>1. /\ call \in LimitCalls /\ k \in Keys /\ call.at \in Times
      /\ call.read \in LimitRecords \cup {NoLimit}
      /\ CheckInOrder(call) /\ CheckReadsKept(call)
    BY <1>0, SaveFacts, CheckFacts
<1>2. PICK new : new = Saved(call)
    OBVIOUS
<1>3. PICK counted : counted = IF full THEN granted[k] ELSE Pushed(granted[k], call.at)
    OBVIOUS
<1>4. /\ now' = now
      /\ limits' = [limits EXCEPT ![k] = new]
      /\ granted' = [granted EXCEPT ![k] = counted]
      /\ limitRaced' = IF call.read = limits[k] THEN limitRaced ELSE limitRaced \cup {k}
      /\ limitCalls' = [limitCalls EXCEPT ![c] = Idle]
    BY <1>0, <1>2, <1>3, SaveFacts
<1>5. /\ limits \in [Keys -> LimitRecords \cup {NoLimit}]
      /\ granted \in [Keys -> Counts(Times)]
      /\ limitCalls \in [Callers -> {Idle} \cup LimitCalls]
      /\ limitRaced \subseteq Keys
      /\ now \in Times
    BY DEF LimitInv, LimitTypeOK
<1>6. /\ kept \in LimitRecords
      /\ kept.requests \in Counts(Times)
      /\ \A t \in Times : t > call.at - LimitWindow =>
            kept.requests[t] = Requests(call.read)[t]
      /\ \A t \in Times : kept.requests[t] <= Requests(call.read)[t]
    BY <1>1, CurrentType DEF LimitRecords
<1>7. /\ new \in LimitRecords /\ new # NoLimit
      /\ full => /\ new.requests = kept.requests
                 /\ new.blockedUntil = call.at + Penalty
                 /\ Penalty \in Nat
      /\ ~full => new.requests = Pushed(kept.requests, call.at)
    BY <1>1, <1>2, SavedType, LimitMarks
<1>8. Requests(new) = new.requests /\ new.requests \in Counts(Times)
      /\ Total(new.requests) <= MaxRequests
    BY <1>7 DEF Requests, LimitRecords
<1>9. counted \in Counts(Times)
    BY <1>1, <1>3, <1>5, PushedCounts
<1>10. /\ call.at \in Int /\ now \in Int /\ call.at <= now
       /\ LimitWindow \in Nat \ {0} /\ \A t \in Times : t \in Int
    BY <1>1, <1>5, BoundsNat, LimitConfig DEF CheckInOrder, Times
<1> HIDE DEF k, kept, full
\* What is saved holds no time later than the check.
<1>11. \A t \in Times : new.requests[t] > 0 => t <= call.at
    <2> SUFFICES ASSUME NEW t \in Times, new.requests[t] > 0
                 PROVE  t <= call.at
        OBVIOUS
    <2>1. CASE t = call.at
        BY <1>10, <2>1
    <2>2. CASE t # call.at
        <3>1. new.requests[t] = kept.requests[t]
            BY <1>1, <1>6, <1>7, <2>2, PushedCounts
        <3>2. Requests(call.read)[t] > 0
            <4>1. Requests(call.read)[t] \in Nat /\ kept.requests[t] \in Nat
                BY <1>1, <1>6, RequestsType DEF Counts
            <4> QED BY <1>6, <3>1, <4>1
        <3> QED BY <1>1, <3>2 DEF CheckInOrder, MadeBy
    <2> QED BY <2>1, <2>2
\* Over an unchanged record it is what was allowed.
<1>12. ASSUME k \notin limitRaced'
       PROVE  /\ k \notin limitRaced /\ call.read = limits[k]
              /\ \A t \in Times : t > call.at - LimitWindow => new.requests[t] = counted[t]
    <2>1. k \notin limitRaced /\ call.read = limits[k]
        BY <1>4, <1>12
    <2>2. KeptSince(k, call.at)
        BY <1>1, <2>1 DEF CheckReadsKept, k
    <2>3. ASSUME NEW t \in Times, t > call.at - LimitWindow
          PROVE  new.requests[t] = counted[t]
        <3>1. kept.requests[t] = granted[k][t]
            BY <1>6, <2>1, <2>2, <2>3 DEF KeptSince
        <3>2. granted[k] \in Counts(Times)
            BY <1>1, <1>5
        <3> QED BY <1>1, <1>3, <1>6, <1>7, <3>1, <3>2, PushedCounts
    <2> QED BY <2>1, <2>3
<1>13. LimitTypeOK'
    BY <1>1, <1>4, <1>5, <1>7, <1>9 DEF LimitTypeOK
<1>14. /\ limits'[k] = new /\ granted'[k] = counted
       /\ \A j \in Keys \ {k} : limits'[j] = limits[j] /\ granted'[j] = granted[j]
       /\ limitCalls'[c] = Idle
       /\ \A d \in Callers \ {c} : limitCalls'[d] = limitCalls[d]
       /\ limitRaced \subseteq limitRaced'
    BY <1>1, <1>4, <1>5 DEF k
<1>15. \A j \in Keys : MadeBy(limits[j], now)'
    <2> SUFFICES ASSUME NEW j \in Keys, NEW t \in Times, Requests(limits'[j])[t] > 0
                 PROVE  t <= now
        BY <1>4 DEF MadeBy, Requests
    <2>1. CASE j = k
        BY <1>8, <1>10, <1>11, <1>14, <2>1
    <2>2. CASE j # k
        BY <1>14, <2>2 DEF LimitInv, MadeBy
    <2> QED BY <2>1, <2>2
<1>16. ASSUME NEW j \in Keys \ limitRaced'
       PROVE  KeptSince(j, now)'
    <2> SUFFICES ASSUME NEW t \in Times, t > now - LimitWindow
                 PROVE  Requests(limits'[j])[t] = granted'[j][t]
        BY <1>4 DEF KeptSince, Requests
    <2>1. CASE j = k
        <3>1. t > call.at - LimitWindow
            BY <1>10
        <3> QED BY <1>8, <1>12, <1>14, <1>16, <2>1, <3>1
    <2>2. CASE j # k
        BY <1>14, <1>16, <2>2 DEF LimitInv, KeptSince
    <2> QED BY <2>1, <2>2
<1>17. ASSUME NEW d \in Callers, limitCalls'[d] # Idle
       PROVE  CheckInOrder(limitCalls[d])' /\ CheckReadsKept(limitCalls[d])'
    <2>1. d # c /\ limitCalls'[d] = limitCalls[d]
        BY <1>14, <1>17
    <2>2. PICK other : other = limitCalls[d]
        OBVIOUS
    <2>3. /\ CheckInOrder(other) /\ CheckReadsKept(other)
          /\ other.key \in Keys /\ other.at \in Times
        BY <1>17, <2>1, <2>2, CheckFacts
    <2>4. CheckInOrder(other)'
        BY <1>4, <2>3 DEF CheckInOrder
    <2>5. CheckReadsKept(other)'
        <3> SUFFICES ASSUME other.key \notin limitRaced', other.read = limits'[other.key],
                            NEW t \in Times, t > other.at - LimitWindow
                     PROVE  Requests(limits'[other.key])[t] = granted'[other.key][t]
            BY DEF CheckReadsKept, KeptSince, Requests
        <3>1. CASE other.key # k
            BY <1>14, <2>3, <3>1 DEF CheckReadsKept, KeptSince
        <3>2. CASE other.key = k
            <4>1. other.read = new
                BY <1>14, <3>2
            \* It read the saved record, so not before the check that saved it.
            <4>2. call.at <= other.at
                <5>1. CASE full
                    <6>1. ~(new.blockedUntil > other.at) \/ new.blockedUntil = Never
                        BY <1>7, <2>3, <4>1 DEF CheckInOrder, Blocked, Current
                    <6>2. other.at \in Int
                        BY <1>10, <2>3
                    <6>3. new.blockedUntil # Never
                        BY <1>1, <1>7, <5>1, BoundsNat DEF Never, Times
                    <6> QED BY <1>7, <1>10, <5>1, <6>1, <6>2, <6>3
                <5>2. CASE ~full
                    <6>1. new.requests[call.at] > 0
                        <7>1. kept.requests[call.at] \in Nat
                            BY <1>1, <1>6 DEF Counts
                        <7> QED BY <1>1, <1>6, <1>7, <5>2, <7>1, PushedCounts
                    <6> QED BY <1>1, <1>8, <2>3, <4>1, <6>1 DEF CheckInOrder, MadeBy
                <5> QED BY <5>1, <5>2
            <4>3. t > call.at - LimitWindow
                BY <1>10, <2>3, <4>2
            <4> QED BY <1>8, <1>12, <1>14, <3>2, <4>3
        <3> QED BY <3>1, <3>2
    <2> QED BY <2>1, <2>2, <2>4, <2>5
<1>18. ChecksInOrder' /\ ChecksReadKept'
    BY <1>17 DEF ChecksInOrder, ChecksReadKept
<1>19. NoWindowOverLimit'
    <2> SUFFICES ASSUME NEW j \in Keys \ limitRaced', NEW start \in Times
                 PROVE  Total(GrantedFrom(j, start)') <= MaxRequests
        BY DEF NoWindowOverLimit
    <2>1. Total(GrantedFrom(j, start)) <= MaxRequests
        BY <1>14 DEF LimitInv, NoWindowOverLimit
    <2> DEFINE window == [t \in Times |->
                 IF t >= start /\ t < start + LimitWindow THEN granted'[j][t] ELSE 0]
    <2>2. GrantedFrom(j, start)' = window
        BY DEF GrantedFrom
    <2>3. CASE granted'[j] = granted[j]
        BY <2>1, <2>2, <2>3 DEF GrantedFrom
    <2>4. CASE j = k /\ ~full
        <3>1. counted = Pushed(granted[k], call.at) /\ granted[k] \in Counts(Times)
            BY <1>1, <1>3, <1>5, <2>4
        <3>2. CASE call.at >= start /\ call.at < start + LimitWindow
            <4>1. window \in Counts(Times)
                BY <1>9, <1>14, <2>4 DEF Counts
            <4>2. ASSUME NEW t \in Times
                  PROVE  window[t] <= new.requests[t]
                <5>1. new.requests[t] \in Nat
                    BY <1>8 DEF Counts
                <5>2. CASE t >= start
                    <6>1. t > call.at - LimitWindow
                        BY <1>10, <3>2, <5>2
                    <6>2. new.requests[t] = granted'[j][t]
                        BY <1>12, <1>14, <2>4, <6>1
                    <6> QED BY <5>1, <6>2
                <5>3. CASE ~(t >= start)
                    BY <5>1, <5>3
                <5> QED BY <5>2, <5>3
            <4> HIDE DEF window
            <4>3. Total(window) <= Total(new.requests)
                BY <1>8, <4>1, <4>2, TimesFinite, TotalMonotone
            <4>4. Total(window) \in Nat /\ Total(new.requests) \in Nat
                BY <1>8, <4>1, TimesFinite, TotalCounts
            <4> QED BY <1>8, <2>2, <4>3, <4>4, LimitConfig
        <3>3. CASE ~(call.at >= start /\ call.at < start + LimitWindow)
            <4>1. ASSUME NEW t \in Times, t >= start /\ t < start + LimitWindow
                  PROVE  granted'[j][t] = granted[j][t]
                BY <1>1, <1>14, <2>4, <3>1, <3>3, <4>1, PushedCounts
            <4>2. window = GrantedFrom(j, start)
                BY <4>1 DEF GrantedFrom
            <4> QED BY <2>1, <2>2, <4>2
        <3> QED BY <3>2, <3>3
    <2>5. j # k \/ full => granted'[j] = granted[j]
        BY <1>3, <1>14
    <2> QED BY <2>3, <2>4, <2>5
<1> QED BY <1>4, <1>5, <1>13, <1>15, <1>16, <1>18, <1>19 DEF LimitInv

(* A reset forgets the record and what was allowed alike.                     *)
LEMMA ResetKeepsLimits ==
    ASSUME LimitInv, NEW k \in Keys, LimitReset(k)
    PROVE  LimitInv'
<1>1. /\ now' = now
      /\ limits' = [limits EXCEPT ![k] = NoLimit]
      /\ granted' = [granted EXCEPT ![k] = NoneOf(Times)]
      /\ UNCHANGED <<limitCalls, limitRaced>>
    BY DEF LimitReset, Begin
<1>2. /\ limits'[k] = NoLimit /\ granted'[k] = NoneOf(Times)
      /\ \A j \in Keys \ {k} : limits'[j] = limits[j] /\ granted'[j] = granted[j]
    BY <1>1 DEF LimitInv, LimitTypeOK
<1>3. Requests(NoLimit) = NoneOf(Times) /\ \A t \in Times : NoneOf(Times)[t] = 0
    BY DEF Requests, NoneOf
<1>4. LimitTypeOK'
    BY <1>1, NoneIsCounts DEF LimitInv, LimitTypeOK
<1>5. ASSUME NEW j \in Keys
      PROVE  MadeBy(limits[j], now)'
    <2>1. CASE j = k
        BY <1>2, <1>3, <2>1 DEF MadeBy, Requests
    <2>2. CASE j # k
        BY <1>1, <1>2, <2>2 DEF LimitInv, MadeBy, Requests
    <2> QED BY <2>1, <2>2
<1>6. ASSUME NEW j \in Keys \ limitRaced'
      PROVE  KeptSince(j, now)'
    <2>1. CASE j = k
        BY <1>2, <1>3, <2>1 DEF KeptSince, Requests
    <2>2. CASE j # k
        BY <1>1, <1>2, <1>6, <2>2 DEF LimitInv, KeptSince, Requests
    <2> QED BY <2>1, <2>2
<1>7. ASSUME NEW d \in Callers, limitCalls'[d] # Idle
      PROVE  CheckInOrder(limitCalls[d])' /\ CheckReadsKept(limitCalls[d])'
    <2>1. PICK call : call = limitCalls[d]
        OBVIOUS
    <2>2. CheckInOrder(call) /\ CheckReadsKept(call) /\ call.key \in Keys
        BY <1>1, <1>7, <2>1, CheckFacts
    <2>3. CheckInOrder(call)'
        BY <1>1, <2>2 DEF CheckInOrder
    <2>4. CheckReadsKept(call)'
        <3>1. CASE call.key = k
            BY <1>2, <1>3, <3>1 DEF CheckReadsKept, KeptSince, Requests
        <3>2. CASE call.key # k
            BY <1>1, <1>2, <2>2, <3>2 DEF CheckReadsKept, KeptSince, Requests
        <3> QED BY <3>1, <3>2
    <2> QED BY <1>1, <2>1, <2>3, <2>4
<1>8. ChecksInOrder' /\ ChecksReadKept'
    BY <1>7 DEF ChecksInOrder, ChecksReadKept
<1>9. NoWindowOverLimit'
    <2> SUFFICES ASSUME NEW j \in Keys \ limitRaced', NEW start \in Times
                 PROVE  Total(GrantedFrom(j, start)') <= MaxRequests
        BY DEF NoWindowOverLimit
    <2>1. CASE j = k
        <3> DEFINE window == [t \in Times |->
                 IF t >= start /\ t < start + LimitWindow THEN granted'[j][t] ELSE 0]
        <3>1. GrantedFrom(j, start)' = window
            BY DEF GrantedFrom
        <3>2. \A t \in Times : window[t] = 0
            BY <1>2, <1>3, <2>1
        <3>3. window \in Counts(Times)
            BY <3>2 DEF Counts
        <3> QED BY <3>1, <3>2, <3>3, TimesFinite, TotalOfNone, LimitConfig
    <2>2. CASE j # k
        BY <1>1, <1>2, <2>2 DEF LimitInv, NoWindowOverLimit, GrantedFrom
    <2> QED BY <2>1, <2>2
<1>10. \A j \in Keys \ limitRaced' : KeptSince(j, now)'
    BY <1>6
<1> QED BY <1>1, <1>4, <1>5, <1>8, <1>9, <1>10 DEF LimitInv

(* A cleanup drops what is out of the window, and makes a race of a check that *)
(* is under way.                                                             *)
LEMMA CleanupKeepsLimits ==
    ASSUME LimitInv, LimitCleanup
    PROVE  LimitInv'
<1>1. /\ now' = now
      /\ limits' = [j \in Keys |-> IF j \in Aged THEN NoLimit ELSE limits[j]]
      /\ limitRaced' = limitRaced \cup (Aged \cap UnderCheck)
      /\ UNCHANGED <<limitCalls, granted>>
    BY DEF LimitCleanup, clockVars
<1>2. Requests(NoLimit) = NoneOf(Times) /\ \A t \in Times : NoneOf(Times)[t] = 0
    BY DEF Requests, NoneOf
<1>3. LimitTypeOK'
    BY <1>1 DEF LimitInv, LimitTypeOK, Aged
<1>4. ASSUME NEW j \in Keys
      PROVE  MadeBy(limits[j], now)'
    <2>1. CASE j \in Aged
        BY <1>1, <1>2, <2>1 DEF MadeBy, Requests
    <2>2. CASE j \notin Aged
        BY <1>1, <2>2 DEF LimitInv, MadeBy, Requests
    <2> QED BY <2>1, <2>2
<1>5. ASSUME NEW j \in Aged, NEW t \in Times, t > now - LimitWindow
      PROVE  Requests(limits[j])[t] = 0
    <2>1. /\ now \in Int /\ t \in Int /\ LimitWindow \in Int /\ RequestAge \in Int
          /\ RequestAge >= LimitWindow
        BY BoundsNat, LimitConfig DEF LimitInv, Times
    <2>2. t > now - RequestAge
        BY <1>5, <2>1
    <2>3. limits[j] \in LimitRecords
        BY DEF LimitInv, LimitTypeOK, Aged
    <2>4. limits[j].requests[t] \in Nat
        BY <2>3 DEF LimitRecords, Counts
    <2>5. ~(limits[j].requests[t] > 0)
        BY <2>2 DEF Aged, LimitKept, AnyWithin
    <2>6. Requests(limits[j]) = limits[j].requests
        BY DEF Requests, Aged
    <2> QED BY <2>4, <2>5, <2>6
<1>6. ASSUME NEW j \in Keys \ limitRaced'
      PROVE  KeptSince(j, now)'
    <2>1. KeptSince(j, now)
        BY <1>1, <1>6 DEF LimitInv
    <2>2. CASE j \in Aged
        <3> SUFFICES ASSUME NEW t \in Times, t > now - LimitWindow
                     PROVE  Requests(limits'[j])[t] = granted[j][t]
            BY <1>1 DEF KeptSince, Requests
        <3>1. granted[j][t] = 0
            BY <1>5, <2>1, <2>2 DEF KeptSince
        <3> QED BY <1>1, <1>2, <2>2, <3>1
    <2>3. CASE j \notin Aged
        BY <1>1, <2>1, <2>3 DEF KeptSince, Requests
    <2> QED BY <2>2, <2>3
<1>7. ASSUME NEW d \in Callers, limitCalls'[d] # Idle
      PROVE  CheckInOrder(limitCalls[d])' /\ CheckReadsKept(limitCalls[d])'
    <2>1. PICK call : call = limitCalls[d]
        OBVIOUS
    <2>2. CheckInOrder(call) /\ CheckReadsKept(call) /\ call.key \in Keys
        BY <1>1, <1>7, <2>1, CheckFacts
    <2>3. CheckInOrder(call)'
        BY <1>1, <2>2 DEF CheckInOrder
    <2>4. CheckReadsKept(call)'
        <3>1. CASE call.key \in Aged
            <4>1. call.key \in limitRaced'
                BY <1>1, <1>7, <2>1, <2>2, <3>1 DEF UnderCheck
            <4> QED BY <4>1 DEF CheckReadsKept
        <3>2. CASE call.key \notin Aged
            BY <1>1, <2>2, <3>2 DEF CheckReadsKept, KeptSince, Requests
        <3> QED BY <3>1, <3>2
    <2> QED BY <1>1, <2>1, <2>3, <2>4
<1>8. ChecksInOrder' /\ ChecksReadKept'
    BY <1>7 DEF ChecksInOrder, ChecksReadKept
<1>9. NoWindowOverLimit'
    BY <1>1 DEF LimitInv, NoWindowOverLimit, GrantedFrom
<1>10. \A j \in Keys \ limitRaced' : KeptSince(j, now)'
    BY <1>6
<1> QED BY <1>1, <1>3, <1>4, <1>8, <1>9, <1>10 DEF LimitInv

LEMMA LimitInvHolds == Spec => []LimitInv
<1>1. LimitInv /\ [Next]_vars => LimitInv'
    <2> SUFFICES ASSUME LimitInv, [Next]_vars PROVE LimitInv'
        OBVIOUS
    <2>1. CASE UNCHANGED limitVars
        BY <2>1, ClockStep, TickKeepsLimits DEF LimitInv
    <2>2. CASE LimitNext
        BY <2>2, SaveKeepsLimits, ReadKeepsLimits, ResetKeepsLimits, CleanupKeepsLimits
        DEF LimitNext
    <2> QED BY <2>1, <2>2, OneService
<1> QED BY <1>1, LimitInvInit, PTL DEF Spec

(* Through penalties, resets and cleanups, and wherever a window begins, no    *)
(* more requests are allowed in it than the limit, unless two checks of the    *)
(* key overlapped and one saved over the other.                               *)
THEOREM RequestsStayBelowLimit == Spec => []NoWindowOverLimit
BY LimitInvHolds, PTL DEF LimitInv

(***************************************************************************)
(* Types                                                                   *)
(***************************************************************************)

LEMMA ClockTypeHolds == Spec => []ClockTypeOK
<1>1. Init => ClockTypeOK
    BY BoundsNat DEF Init, ClockInit, ClockTypeOK, Times
<1>2. ClockTypeOK /\ [Next]_vars => ClockTypeOK'
    <2> SUFFICES ASSUME ClockTypeOK, [Next]_vars PROVE ClockTypeOK'
        OBVIOUS
    <2>1. begun' = begun \/ Begin
        BY DEF Next, vars, clockVars, Tick, LockNext, LockSave, LockRead, LockCleanup,
               SessionNext, CreateSession, SessionSave, SessionRead, RevokeUserSessions,
               CleanupSessions, TokenNext, Track, RevokeIndexes, RevokeAllInserts, Revoke,
               RefreshAccess, RevokeAllCopies, Generate, PruneExpired,
               LimitNext, LimitSave, LimitRead, LimitReset, LimitCleanup
    <2>2. begun' \in 0 .. MaxCalls
        BY <2>1, BoundsNat DEF Begin, ClockTypeOK
    <2> QED BY <2>2, ClockStep DEF ClockTypeOK
<1> QED BY <1>1, <1>2, PTL DEF Spec

LEMMA ServiceHolds == Spec => [](service \in Services)
<1>1. Init => service \in Services
    BY DEF Init
<1>2. service \in Services /\ [Next]_vars => (service \in Services)'
    BY DEF Next, vars
<1> QED BY <1>1, <1>2, PTL DEF Spec

(* Every variable of every service keeps to its type, and a request record     *)
(* never holds more requests than the limit.                                  *)
THEOREM AuthTypeCorrect == Spec => []TypeOK
<1>1. SessionInv /\ TokenInv /\ LockInv /\ LimitInv => /\ LockTypeOK /\ SessionTypeOK
                                                       /\ TokenTypeOK /\ LimitTypeOK
    BY DEF SessionInv, TokenInv, LockInv, LimitInv
<1>2. Spec => [](LockTypeOK /\ SessionTypeOK /\ TokenTypeOK /\ LimitTypeOK)
    BY <1>1, SessionInvHolds, TokenInvHolds, LockInvHolds, LimitInvHolds, PTL
<1>3. service \in Services /\ ClockTypeOK
      /\ (LockTypeOK /\ SessionTypeOK /\ TokenTypeOK /\ LimitTypeOK) => TypeOK
    BY DEF TypeOK
<1> QED BY <1>2, <1>3, ClockTypeHolds, ServiceHolds, PTL
=============================================================================
