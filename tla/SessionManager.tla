--------------------------- MODULE SessionManager ----------------------------
(* SessionManager over the in-memory store (src/src/auth/session_manager.rs).  *)
(* A session keeps its user, whether it is active and when it expires; address,*)
(* agent, metadata and last_accessed are left out.                             *)
EXTENDS AuthClock

CONSTANTS
    Sessions,    \* session ids: each create_session draws a new one
    SessionTtl,
    NoSession

ASSUME SessionConfig == SessionTtl \in Nat \ {0}

VARIABLES
    sessions,      \* the store
    sessionCalls,  \* the call each caller is in
    revokedIds,    \* history: sessions a revocation has completed for
    sessionRaced   \* history: sessions saved over a change made after the read

sessionVars == <<sessions, sessionCalls, revokedIds, sessionRaced>>

SessionRecords == [user : Users, active : BOOLEAN, expires : Int]

ASSUME SessionMark == NoSession \notin SessionRecords

SessionOps == {"validate", "refresh", "revoke", "touch"}

SessionTypeOK ==
    /\ sessions \in [Sessions -> SessionRecords \cup {NoSession}]
    /\ sessionCalls \in [Callers -> {Idle} \cup
            [op : SessionOps, id : Sessions, read : SessionRecords]]
    /\ revokedIds \subseteq Sessions
    /\ sessionRaced \subseteq Sessions

SessionInit ==
    /\ sessions = [s \in Sessions |-> NoSession]
    /\ sessionCalls = [c \in Callers |-> Idle]
    /\ revokedIds = {}
    /\ sessionRaced = {}

\* The ids never drawn: nobody holds them and no call is about them.
Fresh(s) ==
    /\ sessions[s] = NoSession
    /\ s \notin revokedIds
    /\ \A c \in Callers : sessionCalls[c] /= Idle => sessionCalls[c].id /= s

CreateSession(s, u) ==
    /\ Begin
    /\ Fresh(s)
    /\ sessions' = [sessions EXCEPT ![s] =
            [user |-> u, active |-> TRUE, expires |-> now + SessionTtl]]
    /\ UNCHANGED <<sessionCalls, revokedIds, sessionRaced>>

\* What the operation demands of the session it has read; a metadata update and
\* a revocation demand nothing, and a refresh does not look at the expiry.
Accepted(op, session) ==
    /\ op \in {"validate", "refresh"} => session.active
    /\ op = "validate" => session.expires > now

\* get_session, and the checks before the next await
SessionRead(c, op, s) ==
    /\ Begin
    /\ sessionCalls[c] = Idle
    /\ sessions[s] /= NoSession
    /\ Accepted(op, sessions[s])
    /\ sessionCalls' = [sessionCalls EXCEPT ![c] =
            [op |-> op, id |-> s, read |-> sessions[s]]]
    /\ UNCHANGED <<sessions, revokedIds, sessionRaced>>

\* Mutant: a revocation makes the session expire instead of inactive.
RevokedByExpiry(call) ==
    CASE call.op = "refresh" -> [call.read EXCEPT !.expires = now + SessionTtl]
      [] call.op = "revoke"  -> [call.read EXCEPT !.expires = now]
      [] OTHER               -> call.read

SessionComputed(call) ==
    CASE call.op = "refresh" -> [call.read EXCEPT !.expires = now + SessionTtl]
      [] call.op = "revoke"  -> [call.read EXCEPT !.active = FALSE]
      [] OTHER               -> call.read

\* update_session inserts: it also brings back a session deleted meanwhile.
SessionSave(c) ==
    LET call == sessionCalls[c]
    IN  /\ call /= Idle
        /\ sessions' = [sessions EXCEPT ![call.id] = SessionComputed(call)]
        /\ sessionCalls' = [sessionCalls EXCEPT ![c] = Idle]
        /\ revokedIds' = IF call.op = "revoke" THEN revokedIds \cup {call.id} ELSE revokedIds
        /\ sessionRaced' = IF call.read = sessions[call.id]
                           THEN sessionRaced ELSE sessionRaced \cup {call.id}
        /\ UNCHANGED clockVars

SessionsOf(u) == {s \in Sessions : sessions[s] /= NoSession /\ sessions[s].user = u}

\* revoke_user_sessions removes them under one write lock.
RevokeUserSessions(u) ==
    /\ Begin
    /\ sessions' = [s \in Sessions |-> IF s \in SessionsOf(u) THEN NoSession ELSE sessions[s]]
    /\ revokedIds' = revokedIds \cup SessionsOf(u)
    /\ UNCHANGED <<sessionCalls, sessionRaced>>

Lapsed(s) == sessions[s] /= NoSession /\ sessions[s].expires <= now

CleanupSessions ==
    /\ \E s \in Sessions : Lapsed(s)
    /\ sessions' = [s \in Sessions |-> IF Lapsed(s) THEN NoSession ELSE sessions[s]]
    /\ revokedIds' = revokedIds \cup {s \in Sessions : Lapsed(s)}
    /\ UNCHANGED <<sessionCalls, sessionRaced, clockVars>>

SessionNext ==
    \/ \E s \in Sessions, u \in Users : CreateSession(s, u)
    \/ \E c \in Callers : SessionSave(c) \/
           \E op \in SessionOps, s \in Sessions : SessionRead(c, op, s)
    \/ \E u \in Users : RevokeUserSessions(u)
    \/ CleanupSessions

\* What get_active_sessions lists and validate_session lets through.
Usable(s) == sessions[s] /= NoSession /\ sessions[s].active /\ sessions[s].expires > now

-----------------------------------------------------------------------------
\* A session that was revoked, alone or with all of its user, or cleaned up, is
\* never usable again, whatever is called on it later, unless a call had read it
\* before and saved it over the revocation (validate_session, refresh_session,
\* update_session_metadata).
RevokedSessionsStayRevoked ==
    \A s \in revokedIds \ sessionRaced : ~Usable(s)
=============================================================================
