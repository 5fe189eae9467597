----------------------------- MODULE ScanAccess ------------------------------
(* ScanAccessControl (src/src/scan_access_control.rs): who may read a scan     *)
(* record.  Each call takes the lock of the map once and is one step.  No       *)
(* operation makes a scan public.  The status of a scan and its access log      *)
(* decide nothing and are left out; so are owners' and privileged roles' access,*)
(* which needs no share.                                                       *)
EXTENDS ServiceClock

CONSTANTS
    Users,
    Scans,           \* scan ids: register_scan draws a new one
    MaxRecipients,   \* max_share_recipients
    DefaultExpiry,   \* default_share_expiry_hours
    MaxExpiry,       \* max_share_expiry_hours
    NoScan

ASSUME ShareConfig ==
    /\ MaxRecipients \in Nat /\ DefaultExpiry \in Nat /\ MaxExpiry \in Nat
    /\ IsFiniteSet(Users)

VARIABLES
    scans,     \* the records
    promised   \* history: per scan and user, what the shares not revoked since promised

accessVars == <<scans, promised>>

ScanRecords == [owner : Users, sharedWith : Counts(Users), expires : Int]

ASSUME ScanMark == NoScan \notin ScanRecords

\* Of a share: when it ends, and the earliest and the latest end among it and the
\* later shares of the same scan.
Promises == [until : Int, earliest : Int, latest : Int]

Promise(time) == [until |-> time, earliest |-> time, latest |-> time]

AccessTypeOK ==
    /\ scans \in [Scans -> ScanRecords \cup {NoScan}]
    /\ \A s \in Scans : scans[s] /= NoScan =>
        /\ \A u \in Users : scans[s].sharedWith[u] <= 1
        /\ Total(scans[s].sharedWith) <= MaxRecipients
        /\ scans[s].sharedWith[scans[s].owner] = 0
    /\ promised \in [Scans -> [Users -> Promises]]

AccessInit ==
    /\ scans = [s \in Scans |-> NoScan]
    /\ promised = [s \in Scans |-> [u \in Users |-> Promise(Never)]]

Registered(s) == scans[s] /= NoScan

RegisterScan(s, owner) ==
    /\ Begin
    /\ ~Registered(s)
    /\ scans' = [scans EXCEPT ![s] =
            [owner |-> owner, sharedWith |-> NoneOf(Users), expires |-> Never]]
    /\ UNCHANGED promised

\* expires_in_hours, or the default; at most the maximum
Expiry(hours) ==
    LET asked == IF hours = Never THEN DefaultExpiry ELSE hours
    IN  now + (IF asked > MaxExpiry THEN MaxExpiry ELSE asked)

\* Mutant: a user already listed is listed again.
AppendedAgain(users, u) == Pushed(users, u)

WithRecipient(users, u) == IF users[u] > 0 THEN users ELSE Pushed(users, u)

\* What a share that ends at `time` does to the promises of its scan.
WithPromise(promises, u, time) ==
    [v \in Users |->
        IF v = u THEN Promise(time)
        ELSE IF promises[v] = Promise(Never) THEN Promise(Never)
        ELSE [promises[v] EXCEPT !.earliest = IF time < @ THEN time ELSE @,
                                 !.latest = IF time > @ THEN time ELSE @]]

\* share_scan: only the owner calls it with success.  A scan has one expiry: each
\* share sets it for every recipient.
ShareScan(s, u, hours) ==
    /\ Begin
    /\ Registered(s)
    /\ u /= scans[s].owner
    /\ Total(scans[s].sharedWith) < MaxRecipients
    /\ scans' = [scans EXCEPT ![s].sharedWith = WithRecipient(@, u),
                              ![s].expires = Expiry(hours)]
    /\ promised' = [promised EXCEPT ![s] = WithPromise(@, u, Expiry(hours))]

\* Mutant: the share is made to expire, the recipient stays listed.
ExpiredShare(record, u) == [record EXCEPT !.expires = now - 1]

\* retain: every entry of the user goes.
WithoutRecipient(record, u) == [record EXCEPT !.sharedWith[u] = 0]

\* revoke_share
RevokeShare(s, u) ==
    /\ Begin
    /\ Registered(s)
    /\ scans' = [scans EXCEPT ![s] = WithoutRecipient(@, u)]
    /\ promised' = [promised EXCEPT ![s][u] = Promise(Never)]

AccessNext ==
    \E s \in Scans, u \in Users :
        \/ RegisterScan(s, u)
        \/ RevokeShare(s, u)
        \/ \E hours \in {Never} \cup 0 .. MaxExpiry + 1 : ShareScan(s, u, hours)

\* is_scan_shared_with.  Without an expiry nothing was shared.
IsSharedWith(s, u) ==
    /\ scans[s].expires /= Never => now <= scans[s].expires
    /\ scans[s].sharedWith[u] > 0

\* verify_scan_access of a user without a privileged role
MayRead(s, u) == Registered(s) /\ (u = scans[s].owner \/ IsSharedWith(s, u))

-----------------------------------------------------------------------------
\* A user who is not the owner is let in by a share with that user that was not
\* revoked since, and by nothing else: until the earliest end promised by it and the
\* later shares of the scan for certain, and never after the latest.  A revocation
\* holds, whatever is shared later (share_scan, revoke_share, verify_scan_access).
AccessFollowsShares ==
    \A s \in Scans, u \in Users :
        Registered(s) /\ u /= scans[s].owner =>
            /\ now <= promised[s][u].earliest => MayRead(s, u)
            /\ MayRead(s, u) => now <= promised[s][u].latest

\* What scan_access_control.rs:185 and ACCESS_CONTROL_POLICIES.md:82 say: a share has
\* an expiration of its own.  A later share of the scan with somebody else moves it.
SharesEndThemselves ==
    \A s \in Scans, u \in Users :
        Registered(s) /\ u /= scans[s].owner /\ MayRead(s, u) => now <= promised[s][u].until
=============================================================================
