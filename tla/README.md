# Soroban security scanner: TLA+ specifications

This directory models the protocol-like parts of the repository in TLA+, checks
them with TLC on small instances and proves the properties that matter most with
TLAPS for every size. Three parts of the repository keep state that something
else may disturb, and they are what is modelled:

* the Soroban contract `contracts/scanner/src/lib.rs`: roles, multi-signature
  proposals, escrows, alerts and pools, called by anybody in any order,
  and nothing of what it stores is repaired by a restart;
* a run of the scanner (`src/main.rs`, `src/scanners.rs`): a scanning thread, a
  signal thread, a stop listener and watchdog monitors over a project that is
  edited meanwhile, and a manifest that decides what the next run skips;
* the services of the server: lockouts, sessions, tokens and request limits,
  whose calls overlap at their awaits, and the security monitor, scan sharing and
  the audit trail, which run whole calls but see them in any order.

## The system and its parts

| part | state | operations | what is hard |
|---|---|---|---|
| **Contract: roles and proposals** (`lib.rs:39-73, 309-481, 501-552, 651-735, 1096-1148, 1327-1460`) | `ADMIN`, role lists, proposals with approvals, a counter | `initialize`, three `propose_*`, three `approve_*`, three `execute_*` | quorum, delay and kind of a proposal are checked in different calls; `approve_*` never looks at the kind; grants change who may approve |
| **Contract: escrows** (`lib.rs:132-151, 230-292, 483-498, 812-1012, 1253-1260`) | entries, counter, pool total, payout events | `create_escrow`, `mark_escrow_conditions_met`, `release_escrow`, `refund_escrow` | order of mark, refund and release around the lock; signatures bound to one payout; an i128 pool with checked arithmetic; `initialize` forgets entries |
| **Contract: reports, reputation, alerts, pools** (`lib.rs:107-168, 555-648, 691-810, 1015-1241, 1286-1307`) | reports, `REP_*` keys, alerts, bounty and emergency pool | `report_vulnerability`, `verify_vulnerability`, `report_emergency_vulnerability`, funding, execution of decisions | one call spans proposals, alerts, escrows and reputation and is all or nothing, so that one failing link undoes the call; deciding twice |
| **Emergency stop, scan watchdog** (`src/emergency_stop.rs`) | stop flag, command channel, heartbeat, timeout and monitor flags | `trigger_stop`, the listener and signal threads, `start_monitoring`, the monitor threads, `reset` | a listener that takes one command, test-then-set on atomics, monitors of earlier scans still asleep |
| **Scan run, incremental scan** (`src/main.rs`, `src/scanners.rs`, `src/incremental_scan.rs`) | the loop over files, the manifest of hashes and imports | a full, incremental or forced run; load, plan, scan, update, save | edits and kills in the middle; files skipped, halted or failed; transitive importers |
| **Account lockout** (`src/auth/account_lockout.rs`) | a record per user | record a failure, check, reset, lock, unlock, clean up | read, await, write back whole; windows and progressive lockouts |
| **Session manager** (`src/auth/session_manager.rs`) | sessions | create, validate, refresh, revoke, revoke all, clean up | `validate_session` saves what it read before an await |
| **Tokens and their revocation** (`src/auth/jwt.rs`, `token_revocation.rs`) | revoked tokens and an index by user, each under its own lock | issue, track, validate, refresh, revoke, revoke all, prune | bulk revocation of a copy of the index |
| **Rate limit** (`src/auth/rate_limit.rs`) | request times and a block per key | check, reset, clean up | read, await, write back; window and penalty edges |
| **Security monitoring** (`src/security_monitoring/`) | baseline learner, windows of events, incidents and an index of them | ingest, tick, reset, acknowledge, resolve | calls out of time order, bounded tables, an index that must follow |
| **Scan access control** (`src/scan_access_control.rs`) | scans with owner, recipients, expiry | register, share, revoke, verify | one expiry for all shares of a scan |
| **Audit trail** (`src/audit_trail.rs`) | bounded hash chain | record, evict and rebuild, verify | the chain after its head is dropped |
| **the rest** | | | see *Not modelled* and `PROJECT.json` |

How they interact. The contract is one process: its parts call each other
inside one transaction and share the instance storage, the ledger clock and
`ADMIN`. Roles decide who may mark an escrow, and executing a decision marks a
proposal and changes an alert in the same call. As it is written the code also pays
an emergency reward through an escrow and keeps reputations, but every call that gets
there traps (finding 3). The crate never calls the contract. A run of the scanner polls the
emergency stop and the watchdog between files and between patterns, feeds the
watchdog heartbeats, and stops itself on a critical finding; the monitor triggers
the stop; the manifest carries what one run did to the next. The services share
neither state nor locks: the middleware asks lockout, token, session and limit
one after the other, and the server's handlers call monitor, access control and
audit trail separately.

What makes each part correct:

* roles and proposals: nothing is executed below its quorum or before its
  delay, decisions are final, roles come from executed grants only, what can be
  executed is in the end;
* escrows: money leaves an escrow only when it is due, on the registered
  signer's word, in exactly the amount deposited, and an escrow is never stuck;
* reports and alerts: an alert is what the executed decisions about it say, a call
  is never half done;
* scan run: the manifest says of a file only what was analysed, an incremental
  run skips a file only if nothing it imports changed, a stop takes hold within
  one file, a hanging file is noticed;
* authentication: enough failures lock, a permanent lock stays, what is revoked
  stays revoked, no window exceeds its limit, through cleanups and overlapping calls;
* server: incidents only under a learnt baseline, one open incident per subject
  and window, access as shared and no longer once revoked,
  a chain that raises no false alarm and shows a changed text.

## Modules

    ContractHost            clock, ADMIN, integer widths, Map::set
      |-- Governance          roles and proposals           GovernanceProofs
      |-- EscrowLedger        escrows, pool, signatures     EscrowProofs
      |       `-- Promise == INSTANCE EscrowPromise         PromiseProofs
      `-- ScannerContract     EXTENDS both: all the contract does   ScannerProofs
          |-- MCScannerContract     accounts are symmetric
          `-- VulnerabilityReports  the calls that always trap

    EmergencyStop           flag, channel, listener, signals
      `-- ScanWatchdog        heartbeat, monitors
    ScanManifest            manifest, plan, update
      `-- ScanRun             EXTENDS both: a run from start to report   ScanRunProofs
          MCScanRun           a project of three files

    CountedLists            lists of which only the contents count   SumProofs
      `-- ServiceClock        wall clock, calls, windows of timestamps
          |-- AuthClock           users, tasks that call
          |     |-- AccountLockout, SessionManager, TokenRevocation, RequestLimit
          |     `-- AuthServices    the four together                    AuthProofs
          |         MCAuthServices
          |-- SecurityMonitor, ScanAccess, AuditTrail
          `-- ServerServices        the three together                   ServerProofs
              MCServerServices

`ScannerProofs` EXTENDS `VulnerabilityReports`, `GovernanceProofs` and
`PromiseProofs`; the proofs about lengths of lists cite `SumProofs`.

### The contract

**One action is one successful call.** The Soroban host runs a call to its end
before the next one and discards every write of a call that returns an error or
traps, so a failing call is no step. Guards are the conjunction of the early
returns, in any order, because they read only. The interleaving is that of whole
calls by different accounts with the ledger clock moving in between.

*ContractHost.* `now` is `env.ledger().timestamp()`, `admin` the `ADMIN` key.
Overflow: `contracts/Cargo.toml` sets `overflow-checks = true`, so the plain
sums trap just as the checked ones return an error; `MaxU64` and `MaxI128` are
scaled stand-ins for the limits, small enough to be reached.

*Governance.* `roles`, `proposals`, `proposalCounter` are `ADMIN_ROLES`,
`MULTI_SIG_PROPOSALS`, `MULTI_SIG_COUNTER`. A proposal's `call` record is the
target function with its parameters, which the code stores as text and parses
again. `Approve(u, p, entry)` is the three `approve_*` calls: `entry` decides
the permission, nothing else. `grant_role` and `revoke_role` look at the addresses
and then always return `MultiSigRequired`, and so does
`verify_emergency_vulnerability`: they are no step. `ExecuteDismissal` is
`execute_emergency_verification` of a proposal that says the alert is false; of one
that confirms the alert, and of `execute_high_bounty_verification`, see
*VulnerabilityReports*.

*EscrowLedger.* `escrows`, `escrowCounter`, `escrowPool` are the `ESCROWS` map,
its counter and the pool total. `payouts` records the events
`execute_payout_placeholder` publishes, which is all the code does today in place of
a token transfer. `signed` is what release keys have signed so far;
`ReleaseMessage` is what `build_release_message` binds together. `Nonce` is
the content of the hash in `generate_nonce`.

*EscrowPromise* says the same without entries, pool or signatures: an escrow is
held, returned or paid; it is confirmed and expired for good; paying is final.
It is written down as what the code keeps, and says openly that returning is
*not* final.

*ScannerContract* adds alerts and the two pools, and composes the parts: an entry
point that touches several parts conjoins their actions. `ImplementsGovernance` and
`ImplementsEscrowLedger` check that the composition takes only steps of its parts, so
that what is proved of the parts holds in the whole.

*VulnerabilityReports* is about the calls that go through `update_reputation`:
`report_vulnerability`, `verify_vulnerability`, `execute_high_bounty_verification` and
the execution of a proposal that confirms an emergency. The key of a reputation is
`Symbol::short(&format!("REP_{:?}", researcher))`, which panics on a text of more than
nine characters or with a character outside `[a-zA-Z0-9_]`; an address is written
`Address(..)`. So the calls trap, and the host undoes all they wrote. The module
models them in full with this condition as a guard (`KeyIsShort`), over the variables
of *ScannerContract* and those for reports and reputations. `WholeSpec` is the
contract with all its calls, and `TrapsAddNothing` proves that it is *ScannerContract*
as long as the text of an address is longer than five characters. That is why reports
and reputations do not occur in *ScannerContract* and neither a high bounty nor an
emergency reward is a step of *Governance* or *EscrowLedger*. These calls
would be steps, with the code's remaining checks, were the key shorter.

Definitions whose names end in `Unchecked`, `Unfloored`, `Early` and the like sit
beside the definition they distort. No specification uses them: each is a
plausible mistake in that code, and the property listed with it in
`PROJECT.json` ("mutants") is violated once the mistake is made.

### The scan run

Here **one action is one step of one thread** between two accesses to what another
thread, or the disk, may change.

*EmergencyStop.* `isStopped` is the `AtomicBool`, `channel` whether a command
waits: the listener takes one command, sets the flag and ends, so that every
later command is lost with the receiver. Since `trigger_stop` reads the flag and
sends in two steps, the module's header argues why one action is enough.

*ScanWatchdog.* `silent` stands for "more than `timeout_seconds` since the last
heartbeat" and may become true at any moment; `monitor[m]` is how far thread `m`
has come: asleep, woken and past its test of `monitor_active`, past its load of
the heartbeat, past its store of `timed_out`. One scanner object may scan several
times, so several monitors can be alive. `reset` is one action after
`start_monitoring`, another step of the same thread.

*ScanManifest.* A file's content is a version number in place of its SHA-256.
`FilesToScan` is `compute_affected_files` (directly changed files, then breadth
first along imports that resolve), `UpdatedManifest` is `update`. An import is a
`module` or an `item` path: the code looks for a file of the whole path as it is
written, so that `use crate::a::item` resolves to none.

*ScanRun.* `phase` is where the scanning thread stands; `mode` is `full`,
`incremental`, `force` (`--force-full`) or `library` (an object that scans
directories again and again, as tests and other crates do). `StartRun`, `Load`,
`BeginScan`, `ResetWatchdog`, the loop (`NextEntry`, `Read`, `Analyse*`,
`TriggerCritical`), `EndScan`, `CollectInfo`, `SaveTruncates`, `SaveWrites` and
`Report` follow `run_security_scan`, `scan_directory`,
`scan_directory_incremental` and `scan_file` in the order of the code;
`ReadFails`, `AnalyseFails`, `WalkFails`, `LoadFails` are their error paths;
`Crash` ends the process at any step and leaves the disk. What the patterns find
depends on content and is given by `Critical`, `Unparsable`, `Ignored`. `seen`,
`excused`, `left`, `touched` and `late` are history: no guard reads them.

### The services

The authentication services are asynchronous. **One action is what a call does
between two awaits or under one lock**: `LockRead` and `LockSave` are
`get_record` and `save_record` with the computation between them, `SessionRead`
and `SessionSave`, `LimitRead` and `LimitSave` likewise; a token operation takes
the lock of one map per step. `lockCalls[c]`, `sessionCalls[c]`, `tokenCalls[c]`,
`limitCalls[c]` are what task `c` holds across its await. The lists of attempts,
requests, events and recipients are only pushed to, filtered by value, emptied and
counted in the code, so that their order shows nowhere: `CountedLists` says how
often each value stands in such a list, and `Total` is its length. A property about a
record leaves out the keys in `lockRaced`, `sessionRaced`, `limitRaced`: those for
which one call did save over what another had changed meanwhile. That can happen
in the code, and the properties say that it is the *only* way to lose a failure, a
revocation or a request; `TokenRevocation` needs no such exception.

*SecurityMonitor*, *ScanAccess* and *AuditTrail* take one lock per call, so one
action is one call. The monitor's calls carry the time their caller read, which
may be up to `MaxDelay` old when the mutex is free: events come out of order and
`unordered` remembers for which subjects. `Ticked` is `tick` with `finalize`,
`Recorded` is `record` with the eviction of any of the oldest metrics, `openOf` is
`open_by_subject`.

*ScanAccess* keeps one expiry per scan, as `sharing_expires_at` is. `promised` is
history: for each user, when the last share with that user was to end, and the earliest and
latest end among it and the later shares of the scan, with whomever.

In *AuditTrail* a hash covers a text of the content, `HashedText[content]`, and the
hash before: `compute_entry_hash` joins the fields without separators, writes an absent
field like an empty one and leaves `recorded_at` out, so that different contents can
have one text. Two hashes of a position agree exactly when the texts up to it do.
`Tamper` changes a stored content behind the trail's back; `linked` and `untouched` are history.

`AuthServices` and `ServerServices` compose the services on one clock. Services
share no state and their steps commute, so that an interleaving of two of them
shows no state of either that one alone does not; `service`, chosen in `Init`,
says which one a behaviour exercises. `Accounts` are the users whose lockouts are
followed: one in TLC, where users of one service do not meet, any set in the proofs.

### External assumptions

* `require_auth` lets a call pass exactly if the named account made it. Whether the
  host lets it be asked twice in one call, as confirming an emergency and executing a
  high bounty would, is left open: those calls trap in any case.
* `Symbol::short` panics on more than nine characters; an `Address` in its `{:?}` form
  is longer than five.
* SHA-256 is injective on what the nonce hashes. The ledger sequence it also
  hashes is abstracted into the timestamp: two escrows never share an id anyhow.
* `ed25519_verify` accepts exactly a signature of that key on that message.
* The text of stored parameters of one kind of call (number and number, number
  and boolean, address and role) never parses as that of another kind.
* Ledger time never goes back. An address is 32 bytes: there are finitely many.
* `fs::write` truncates first and then writes at once; SHA-256 is injective on file
  contents and on the joined text of an audit entry.
* Random ids (sessions, token ids, scan ids) never collide. jsonwebtoken
  verifies only tokens the service has encoded and allows a leeway after `exp`.
* The wall clock of the services does not go back.

### Abstractions

Contract. Titles, descriptions, hashes and token addresses are left out, with the checks
on their text; a report or alert id is its number. Getters change nothing and
are no actions, `can_execute_proposal` appears in `CanExecute`. The constants
`CriticalReward`, `EmergencyReward` and the floors stand for 5_000_000, 10_000_000,
2 approvals and 86400 s for a role, 3 approvals and 3600 s for an emergency, in
*VulnerabilityReports* `HighBounty`, `PointsPerReport` and `EarningsPerPoint` for
1_000_000, 10 and 1_000_000, scaled so that both sides of each comparison occur.

Scan run. `collect_file_info` reads all files in one step. Two processes on one
project, files created after they were deleted, and edits that restore an earlier
content do not occur. What a file contains beyond imports and the three contents
above is left out, and so is the text of the report.

Services. Lockouts saturate at the last multiplier, since the durations stay the
same from there. Attempts and requests are kept at least as long as their window
(`RecordAge >= LockWindow`, `RequestAge >= LimitWindow`; 24 h and 1 h in the code).
Of a session the owner, the flag and the expiry are kept, of a token its user, kind
and `exp`, of an event its subject, kind and time, of a scan owner, recipients
and expiry. Scores, severities, alerts, playbooks, SIEM forwarding, metrics, scan
status and the access log decide nothing of this and are left out.

## Runs

All runs finish by themselves. Deadlock is not checked: the contract or a service
may simply not be called any more, a project not be scanned any more, and every
bound ends the behaviours.

| run | instance | question |
|---|---|---|
| `governance` | `Governance`, 2 accounts, 2 proposals, floors of 1, fair | types; quorum and delay; roles against grants; finality; attainable grants are executed |
| `governance_bootstrap` | the same with the floors of the code, fair | are role grants executed? **No** (finding 1) |
| `escrow` | `EscrowLedger`, 2 escrows, 2 accounts, 2 keys, i128 of -3..2, fair | types, due payouts, signatures, pool, `EscrowPromise`, every unsigned escrow gets released |
| `escrow_payouts` | one key, larger amounts | is each escrow paid out once? **No** (finding 2) |
| `reports` | whole contract with the calls that update a reputation | is a report ever accepted? **No** (finding 3) |
| `scanner` | whole contract, 2 accounts, 2 proposals, 1 alert, 1 escrow, two approvals for a role, one for an alert | types; alerts follow decisions; nobody but the admin ever holds a role; marks need a manager; composition implements `Governance` and `EscrowLedger` |
| `scan_run` | `ScanRun`, 3 files, 2 versions, 1 edit, 1 run, 2 monitors, fair | types; the plan follows imports; the manifest claims only what was analysed; one file after a stop at most; a hanging file is noticed |
| `scan_stopped` | the same without edits | does the manifest record only files that were scanned? **No** (finding 4) |
| `auth` | `AuthServices`, 2 users, 2 tasks, 2 sessions, 2 tokens, 1 key | types; failures lock; permanent locks stay; revocations hold; windows keep the limit |
| `auth_refresh` | the same | does a revocation reach refresh tokens? **No** (finding 5) |
| `server` | `ServerServices`, 1 subject, 2 kinds, 3 users, 1 scan, 3 contents | types; incidents need a baseline; one open incident per window; access follows shares; the chain shows a changed text |
| `server_shares` | the same | does a share end when it says? **No** (finding 6) |

Bounds of the contract and why they suffice. `MaxTime` 1 to 3 gives instants before, at and
after each lock and delay. Two accounts are a proposer and another approver, a
depositor and a beneficiary, a manager and an outsider; no rule of the contract
compares three. Two proposals are two decisions about one alert, a grant and
a decision, or two grants to one account. Two escrows are what reuse of a
signature, of an id after `initialize`, or of an entry takes. `MaxRefunds`
bounds the one call that can be repeated for ever. `MaxU64` of 3 lets
`created_at + delay` overflow, `MaxI128` of 2 takes the pool to both limits.
Floors of 1 appear where a quorum has to be reached: with the floors of the code
none ever is (finding 1), and every property about executed decisions would hold
for lack of any. In `scanner` a grant asks for the code's two approvals, which no grant gets, and an
alert for one, so that alerts are decided. `reports` has lengths as in the code, 4 and 11
characters against 9. The proofs hold for all floors.

Bounds of the scan run. Of the three files `a` imports `b` and `b` imports `c`, a
chain long enough for a change that reaches a file only through another, and `b`
names an item of `a`, an import that closes a cycle in the text but resolves to
nothing. The second version of `b` is critical, the second of `c` does not parse,
the first of `c` is ignored. One run is enough because `Init` starts from what
earlier runs leave: no manifest, one of a full scan, one truncated by a kill; the
edit may fall before, into or after each step of the run. `library` mode scans
once per monitor, so that with two monitors a scan meets the sleeping monitor of
the scan before and a walk error meets `monitor_active` left set.
`ScanRunProofs` lifts the safety part to any number of files, edits, runs and
monitors.

Bounds of the services. Two tasks are the two calls of a race. `MaxTime` 4 and
`MaxCalls` 5 let two failures lock, the lock expire, another failure take the
longer lockout, and a cleanup come in between; in `auth` the windows, lifetimes,
leeway and penalty of 1 to 3 put instants before, at and after each edge. Users,
sessions, tokens and tasks are interchangeable there and the properties treat them
alike, so that symmetry is sound (no liveness is checked under it). In `server`
one subject with two kinds of event and `MaxMetrics` 1 forces evictions,
`MaxDelay` 1 reorders events, seven calls open an incident, resolve it and open
another; three users are an owner and two recipients, the two that one expiry
ties together; three entries fill the trail and evict from it, and two of the three
contents differ in the end of a field only, so that one can replace the other without
changing the text that is hashed.

Fairness. The contract schedules nothing, so liveness is about its users
doing their part: `WF` of the clock, of each account approving as a role
manager, of somebody executing an executable grant (`Governance`); of the
clock and of the depositor releasing without a signature (`EscrowLedger`).
`AttainableGrantsAreExecuted` says that then no other proposal, no approval
through another entry point and no failed early execution gets in the way;
`UnsignedEscrowsAreReleased` that no order of marks and refunds is a dead end.
Its exceptions are real: an `initialize` that forgets the entry, and repeated
refunds that drive the pool total so low that `checked_sub` fails.

In `ScanRun` the listener, each monitor and the clock are weakly fair: they are
threads of the operating system that are never blocked on another. The scanning
thread is not fair, for `StuckScanIsStopped` is about a scan that hangs, nor are
users, signals and kills. The services state no liveness: every call answers at
once and nothing in them waits for anything.

## Findings

1. **Role grants never complete** (`lib.rs:1353`). A grant needs two approvals,
   `initialize` makes one account SuperAdmin, nobody approves twice.
   `SECURITY_IMPROVEMENTS.md:133, 156` describes several administrators who
   use that workflow. `AdminStaysAlone` proves it for any number of accounts.
2. **Refunds repeat** (`lib.rs:959`). `refund_escrow` refuses only released
   escrows, so that an escrow is refunded again and released afterwards.
3. **Reports, verifications and confirmations always trap** (`lib.rs:785`). The key of a
   reputation is longer than `Symbol::short` takes, for every address, so that every
   call that updates a reputation panics and is undone. "Report a new vulnerability"
   (`lib.rs:554`) never stores a report, "Verify a vulnerability and award bounty"
   (`:608`) has none to verify, an approved high bounty is not executed, and a
   confirmed emergency pays no reward; only the dismissal of an alert works.
4. **A stopped scan is recorded as done** (`main.rs:833`). `run_security_scan`
   updates and saves the manifest whether or not the scan was stopped, timed out
   or failed on a file, and `update` records every file of the project, so that
   the next incremental run skips what nobody has scanned. The comment at
   `incremental_scan.rs:131` speaks of scanned files. `RecordedWasAnalysed` shows
   that this, failures, and edits during a forced run are the only gaps.
5. **Revocation misses refresh tokens** (`jwt.rs:165`). `validate_refresh_token`
   never asks the revocation list, so that a refresh token survives
   `revoke_all_user_tokens` and is exchanged for new access tokens. The comment
   at `jwt.rs:135` says the tokens are tracked so that a revocation reaches them.
6. **A share ends when the last share of its scan does** (`scan_access_control.rs:499`).
   `sharing_expires_at` is one per scan, so that sharing with somebody else lets a
   user in again whose share had ended, or ends another's share early.
   `scan_access_control.rs:185` speaks of an expiration "for the share",
   `docs/ACCESS_CONTROL_POLICIES.md:82` says "Shares have an optional expiration time".
   `AccessFollowsShares` says what does hold: a revocation holds whatever is shared later,
   and access ends between the earliest and the latest end promised.

Two more disagreements with the documents are described here and have no run:

* Roles cannot be revoked. `revoke_role` (`lib.rs:1462-1476`) returns
  `MultiSigRequired` for every caller and no proposal revokes, although
  `SECURITY_IMPROVEMENTS.md:27` lists a "Permission to grant/revoke roles" and `:42`
  "Role Management (granting/revoking roles)" among the multi-signature decisions.
  No property takes that for correct.
* The audit trail does not detect *any* modification (`audit_trail.rs:13-15`,
  `:742-744`). A change that moves text between neighbouring fields, that turns an absent
  field into an empty one or touches `recorded_at` leaves the hash as it was, and
  an eviction links whatever is stored by then, changed or not. `ChainTellsTampering` claims
  less and names both.

Smaller things the models take as they are:

* Contract. `verify_vulnerability` refuses every bounty above the limit, the call that
  executes an approved high bounty included (`lib.rs:623`): even without finding 3
  it could not be executed.
* Scan run. Files that import a deleted file are not scanned again. `entry?`
  leaves the monitor active, and the next scan of the object relies on it; no
  property fails, because that monitor still watches. A scan the watchdog ended
  may report before the listener has set the flag, and then does not say
  "partial". After the listener has ended, the failing send of
  `stop_on_critical_vulnerability` drops the results of the critical file. A kill
  inside `save` makes every incremental run fail until `--force-full`.
  `main.rs:1127` calls `update` with two arguments and is in no build.
  `is_vulnerability_context_valid` slices a string by bytes and may panic inside
  a character; `Crash` covers it. The monitor looks every five seconds, whereas
  `test_scan_watchdog_monitor_auto_stop` expects it to act within 1.5.
* Authentication. Tokens are pruned at `exp` but decode until the leeway is over,
  so `RevokedTokensAreRejected` ends at `exp`. `generate_token` puts a new random
  session id into the token that no session has, whereas the middleware looks
  sessions up by default. The middleware asks for lockouts by user id, login
  flows lock by e-mail. `cleanup_expired` drops a permanent lock without recent
  attempts, and `refresh_session` revives an expired session that has not been
  cleaned up; the properties name both.
* Server. `MaxObservations < MinObservations` is accepted and no baseline ever
  becomes active. Only a reset leaves `Degraded`. Events out of time order can
  open two incidents of a subject within the window, the exception in
  `SubjectHasOneIncident`. An eviction changes hashes that were already returned.
  A share at the limit is refused even to a user already listed, and
  only the owner may share although a comment says "owner or admin".

## Proofs

TLAPS checks the eight proof modules to the last leaf. They use only the named
assumptions on the constants, which TLC evaluates in the runs: types of the
constants, marks such as `NoRecord` that are no record, finiteness of the files of
a project and of the monitors, and what the code's configuration guarantees. They
hold for any sets of accounts, files, users, tasks, tokens, any limits and any
bounds. Every safety property that a passing run checks, and each of the three
refinements, is stated by a theorem; what is left to TLC is liveness.

Theorems of a component hold of the composition for one of two reasons.
`ScannerContract` takes only steps of its parts, which is itself proved. In
`AuthServices` and `ServerServices` the theorems are about the composition itself,
each step of which leaves the other services alone.

**GovernanceProofs.** The properties are not inductive alone. That an
executed proposal met its floor needs the floor on proposals not yet executed
(`FloorsAreAsked`); that roles come from grants needs to know that no proposal
and no role exists before `initialize` (`NothingBeforeInitialize`), because it
replaces both maps. `GovInv` adds these two to `GovernanceTypeOK`, `ExecutedWithQuorum`,
`RolesComeFromGrants` and `ApproversHoldRoles`. Each kind
of call is first reduced to facts about what it leaves alone (`GovernanceStepFacts`); each
conjunct then follows from these facts. From `GovInv`:
`QuorumBeforeExecution`, `RolesMatchGrants`, `QuorumsOfRoleHolders`
and the action property `ExecutionIsFinal`; `GovernanceTypeCorrect` needs the types
alone. `AdminStaysAlone` assumes in addition that grants ask for two approvals, as
the code does: if only the admin holds a role,
the approvals of any proposal are a subset of `{admin}`, so a set of at most one,
and no grant is executable. The missing check of the kind in `approve_*` shows
only once somebody else holds a role.

**EscrowProofs.** Every call changes at most one stored entry, and only in
the ways `EntryChange` lists: its condition flag may be set, its status moves to
refunded or released under the guards for it. New ids are above the counter.
`EscrowInv` adds to the three invariants that signatures name ids already given
out (`SignedIdsWereUsed`): without it a signature over a forgotten entry could
match the next one. It gives `PaidOnlyWhenDue`, `ReleasesCarrySignatures`, `NoSignatureIsReused`. `LedgerTypeCorrect`
needs the types alone. `PoolIsExact` proves the action property that each call moves the pool by exactly what it deposits and
pays out.

**PromiseProofs.** `LedgerKeepsPromise` is the refinement `KeepsPromise`. The mapping
(`Phases`, `EscrowTerms`, `ConfirmedIds`, `ExpiredIds`) reads an escrow's phase off
its entry and forgets pool, nonces and signatures. One lemma per kind of call says
which step of the promise it is: creating opens, marking confirms, a refund returns, a release pays, `initialize`
forgets, time expires. The type invariant is all it needs: stored ids are never above
the counter, so that a new entry is one that was absent before.

**ScannerProofs.** `ContractImplementsGovernance` and `ContractImplementsLedger` show
that a step of the whole contract is a step of each part or leaves it alone. Through
them the theorems of the parts hold here: `ContractDecides`, `ContractPays`,
`ContractKeepsPromise`, `ContractAdminStaysAlone`. The properties that relate the
parts need more:

* `ContractTypeCorrect`: the types of alerts and pools (`OwnTypeOK`) beside those of the parts.
* `ConditionsAreVouchedFor`: while nobody may manage escrows no call leaves an entry
  with its conditions met (`NobodyMarks`), and who holds a role keeps it
  (`ProposalsAndRolesGrow`).
* `AlertsFollowProposals`: `AlertInv` adds that executed decisions are about alerts
  that exist; without it an alert reported later could be born decided.
* `TrapsAddNothing` and `NothingIsEverReported`, under `KeyIsLong` ("REP_" and the text of an
  address are more than nine characters): no call that updates a reputation is a
  step, so that `WholeSpec` implements `ScannerContract` and never stores a report.
  The hypothesis is that of finding 3 and true of every address.

**SumProofs.** The library defines `SumFunction` by a fold that takes the elements in
the order `CHOOSE` gives them. `SumOnSetCounts` shows that such a sum over a finite set
is the number of its units (`Units`), which is a statement about cardinalities and
independent of the order; from it follows, for counted lists, what pushing,
filtering and comparing do to the length (`TotalPushed`, `TotalMonotone`).

**ScanRunProofs.** `RecordedWasAnalysed` speaks of the manifest on disk, but what
makes it true is spread over a run. `RunInv` adds to it and to `TypeOK`, for an
incremental run, that every file of `info` was analysed in that version, is still
open (to be scanned, at the scanning thread, or given up) or stands in the manifest
with it, and that what is read is never older than what `info` says (`PlanOK`); for
a forced run the same of the disk before it is collected and of `info` after
(`ForcedOK`); that what `SaveTruncates` is about to write is true or excused
(`SavingOK`, without which a kill between the two halves of a save would matter);
and where the thread stands in which mode (`CurrentOK`, `PhaseOK`). `LateOK` says
that the one file read after the stop lies behind the thread's last poll. Theorems:
`ScanTypes`, `ManifestTellsTheTruth`, `OneFileAfterStop`.

`PlansFollowImports` is about the search itself: the plan is the least set that covers
the changed files and every importer of a file in it, so that no cycle of imports is
scanned for its own sake. The recursive function in
`FilesToScan` is given an explicit solution, the files reached by a path of at most `n`
imports (`WithinSteps`), which satisfies its equation (`LevelUnfolds`), so that the function the
definition chooses satisfies it too (`ReachedUnfolds`). From the equation, as many
levels as there are files are enough, because a level that adds nothing is the last and
each other one adds a file (`SearchIsClosed`), and a search never leaves a closed set
that holds its start (`SearchStaysInside`); both look at the least level that would
violate the claim (`WFMin` of the library).

**AuthProofs.** Sessions: a revoked session that was not saved over is gone or
inactive (`SessionInv`), which is inductive because a call that read it active and
saves after the revocation is a race. Tokens: `TokenInv` adds that every token
a user holds is in the index or expired (`HeldAreIndexed`), that a call about to
report a revocation has its tokens listed or copied (`CallsListed`), and that
those reported are listed until they expire (`DeadAreListed`). Locks: `LockInv` says
that within the window a record has exactly the attempts that were counted
(`AttemptsKept`), whatever cleanups, locks and unlocks came between, and that a call
about to count a failure read no permanent lock; the first gives `FailuresDenyLogin`, the
second the action property `PermanentLocksStay`. Requests: `LimitInv` says the same of
the requests in the window (`KeptSince`), now and for every check under way as of
the time it began (`CheckReadsKept`), because a record may be changed and changed back
between the two halves of a check, which then saves over something
equal to what it read. That no window is above the limit follows for the windows that end
now from the record, and for earlier ones it was true before. Theorems: `SessionsStayRevoked`,
`TokensStayRejected`, `FailuresDenyLogin`, `PermanentLocksStay`, `RequestsStayBelowLimit`,
`AuthTypeCorrect`.

**ServerProofs.** `ChainInv`: every entry is linked to the one before it by the hash of
the content it was last linked with, and as long as nothing was touched that is its
content; two hashes agree only if the texts do (`HashCoversText`). `BaselineInv`: a metric has no more
samples than events were observed, learning began when the learner says, and an
active baseline has run its whole period with enough of them. `IncidentInv`: two
unresolved incidents of a subject are apart (`Apart`), and those the index does
not name are too old for any event still to come in order (`OthersAreOld`).
`AccessInv`: exactly the listed recipients of a scan are promised something, and the
one expiry of the scan lies within what each of them was promised (`PromisesListed`).
`MemoryInv`: the learner tracks no more metrics than it may, so a
metric that takes the place of another never raises their number. Theorems:
`ChainShowsTampering`, `OneIncidentPerWindow`, `IncidentsFollowBaseline`,
`SharesDecideAccess`, `ServerTypeCorrect`.

Only model-checked: liveness, that is `AttainableGrantsAreExecuted`,
`UnsignedEscrowsAreReleased` and `StuckScanIsStopped`, because TLAPS reasons neither
about fairness nor about `ENABLED` here. The six properties the findings refute are no
theorems; `AdminStaysAlone` proves the first finding and `NothingIsEverReported` the
third for any number of accounts.

## Plan

1. *Done:* the contract: `ContractHost`, `Governance`, `EscrowLedger`,
   `EscrowPromise`, `ScannerContract`, `VulnerabilityReports`.
2. *Done:* the scan run: `EmergencyStop`, `ScanWatchdog`, `ScanManifest`, `ScanRun`.
3. *Done:* the services: `AccountLockout`, `SessionManager`, `TokenRevocation`,
   `RequestLimit`; `SecurityMonitor`, `ScanAccess`, `AuditTrail`.
4. *Done:* proofs of all safety properties and of the three refinements.
   Left: the safety half of `StuckScanIsStopped`, which monitor watches when.
5. Candidates for further modules, each a small state machine: the offline queue
   of `public/offline-sync.js` (scans stay in the queue after they were posted and
   are posted again at each synchronisation; a scan queued meanwhile waits for
   the next one); the retry loop of `src/notification-service/`; `retry_with`,
   replica routing and alert hysteresis of `src/db_pool/`; quarantine and progress
   of `src/upload_sanitization/`; the second hash chain in `src/event_logging.rs`.

## Not modelled

Most of the repository has no state a model could follow, which is why the lines
the definitions stand for are a small share of it (about one in twenty):

* The analysers, detectors, fuzzing inputs, severity scoring, protocol analysis
  and report writers are pure functions of source text with nothing to interleave;
  a model of them would repeat their patterns.
* Cryptography, password hashing, OAuth exchanges and header text are computations
  inside libraries; configuration, command line parsing, gas tables and API
  version negotiation are tables.
* The modules behind the `broken-modules` feature do not compile (`src/lib.rs`
  says so), and several source directories, the transaction engine among them,
  are declared by no crate: no build contains them, so that there is no behaviour
  to be faithful to.
* Front end, component library, migrations, scripts and deployment files are
  outside the program's logic. The offline queue of the front end and the
  notification service are programs of their own and named in the plan.
* Of modelled components: the Redis and SQL stores (behind features), the
  middleware's request path, which asks the services and combines their answers,
  scan status and access log, and the reporting side of security monitoring.

`PROJECT.json` lists each component with its reason, and under "hazards" what
each property is for.
