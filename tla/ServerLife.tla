----------------------------- MODULE ServerLife -----------------------------
(***************************************************************************)
(* The KeyPage API as a process that starts, is killed and starts again on *)
(* one data directory while time passes: the start-up of main.ts           *)
(* (data-dir.ts, db/migrations.ts, db/housekeeping.ts,                     *)
(* auth/setup-token.ts), and what the running server decides by the clock: *)
(* the setup token, and the timeouts of sessions when the idle timeout can *)
(* be changed (auth/sessions.ts, settings.ts, routes/settings.ts).         *)
(*                                                                         *)
(* VaultStore has the transactions and lets a session expire at any time;  *)
(* here there is a clock, no vault contents and no wrong password.  A file *)
(* is written in two steps, for fs.writeFile truncates before it writes    *)
(* and a kill can fall between the two; a SQLite transaction is one, and a *)
(* killed process loses none that was committed.                           *)
(***************************************************************************)
EXTENDS Naturals, SequencesExt

CONSTANTS
  Migrations,   \* how many migrations there are
  Timeouts,     \* the idle timeouts one can choose
  Default,      \* DEFAULT_SESSION_IDLE_MINUTES
  Absolute,     \* the lifetime of a session
  TouchEvery,   \* TOUCH_THROTTLE_MS
  Retention,    \* REVOKED_SESSION_RETENTION_MS
  TokenTtl,     \* the lifetime of a setup token
  MaxSessions,  \* bound on the sessions created
  MaxTime,      \* bound on the clock
  MaxCrashes,   \* bound on kills and shutdowns
  MaxFaults,    \* bound on failing writes to the data directory
  Unset         \* the environment variable is not set

ASSUME TimesAssumption ==
  /\ Default \in Timeouts /\ Timeouts \subseteq Nat /\ Unset \notin Timeouts
  /\ TokenTtl \in Nat \ {0}
  /\ {Migrations, Absolute, TouchEvery, Retention} \subseteq Nat
ASSUME BoundsAssumption ==
  {MaxSessions, MaxTime, MaxCrashes, MaxFaults} \subseteq Nat

Session == 1..MaxSessions
Time == 0..MaxTime

VARIABLES
  now,         \* Date.now()
  instance,    \* instance.json: "none", "torn" (truncated) or "whole"
  tokenFile,   \* setup-token: none, torn, or whole with a token and an mtime
  database,    \* user_version, how often each migration ran, the vault_auth row
  sessions,    \* sessions: the row of each, or that it is not there
  setting,     \* app_settings session_idle_minutes; no row reads as Default
  phase,       \* how far the process has come; "down" when there is none
  pinned,      \* KEYPAGE_SESSION_IDLE_MINUTES of this process
  gate,        \* the SetupGate: its token (0 for null) and expiry
  claiming,    \* a POST /setup awaits the removal of the token file
  passed,      \* requests past requireSession whose handler has yet to run
  minted,      \* when each token was written to the file, in order
  refused,     \* the sessions that were ever refused to a request
  spent        \* kills and faults used up

files == <<instance, tokenFile>>
tables == <<database, sessions, setting>>
process == <<phase, pinned, gate, claiming, passed>>
vars == <<now, files, tables, process, minted, refused, spent>>

Phases == {"down", "instance", "creating", "database", "housekeeping", "gate",
           "minting", "stat", "reminting", "listening"}
NoRow == [status |-> "none", seen |-> 0, until |-> 0]
NoFile == [state |-> "none", token |-> 0, at |-> 0]
Torn == [state |-> "torn", token |-> 0, at |-> 0]
NoGate == [token |-> 0, expires |-> 0]

Init ==
  /\ now = 0 /\ instance = "none" /\ tokenFile = NoFile
  /\ database = [version |-> 0, ran |-> [i \in 1..Migrations |-> 0], vault |-> FALSE]
  /\ sessions = [s \in Session |-> NoRow]
  /\ setting = Default
  /\ phase = "down" /\ pinned = Unset /\ gate = NoGate
  /\ claiming = FALSE /\ passed = {}
  /\ minted = <<>> /\ refused = {}
  /\ spent = [crashes |-> 0, faults |-> 0]

-----------------------------------------------------------------------------
(* Start-up.                                                               *)

Go(p) == phase' = p /\ UNCHANGED <<pinned, gate, claiming, passed>>

(* What a process knows is gone with it.                                   *)
Dies ==
  /\ phase' = "down" /\ gate' = NoGate /\ claiming' = FALSE /\ passed' = {}
  /\ UNCHANGED pinned

(* Docker starts the container again (restart: unless-stopped), with the   *)
(* environment as it is by then.                                           *)
Launch ==
  /\ phase = "down"
  /\ phase' = "instance"
  /\ pinned' \in Timeouts \cup {Unset}
  /\ UNCHANGED <<now, files, tables, gate, claiming, passed, minted, refused, spent>>

(* readOrCreateInstance reads the record; a torn one is not JSON, and the  *)
(* start ends with exit code 1.                                            *)
ReadInstance ==
  /\ phase = "instance" /\ instance # "none"
  /\ IF instance = "whole" THEN Go("database") ELSE Dies
  /\ UNCHANGED <<now, files, tables, minted, refused, spent>>

CreateInstance ==
  /\ phase = "instance" /\ instance = "none"
  /\ instance' = "torn"
  /\ Go("creating")
  /\ UNCHANGED <<now, tokenFile, tables, minted, refused, spent>>

InstanceCreated ==
  /\ phase = "creating"
  /\ instance' = "whole"
  /\ Go("database")
  /\ UNCHANGED <<now, tokenFile, tables, minted, refused, spent>>

(* Fault: the last migration is not the last.                              *)
MigrateOneMore ==
  /\ phase = "database" /\ database.version <= Migrations
  /\ LET v == database.version + 1
     IN database' = [database EXCEPT !.version = v, !.ran[v] = @ + 1]
  /\ UNCHANGED <<now, files, sessions, setting, process, minted, refused, spent>>

(* One transaction per migration, which moves user_version with it.        *)
Migrate ==
  /\ phase = "database" /\ database.version < Migrations
  /\ LET v == database.version + 1
     IN database' = [database EXCEPT !.version = v, !.ran[v] = @ + 1]
  /\ UNCHANGED <<now, files, sessions, setting, process, minted, refused, spent>>

Migrated ==
  /\ phase = "database" /\ database.version = Migrations
  /\ Go("housekeeping")
  /\ UNCHANGED <<now, files, tables, minted, refused, spent>>

(* runHousekeeping drops what is past its lifetime or revoked for long.    *)
Housekeep ==
  /\ phase = "housekeeping"
  /\ sessions' = [s \in Session |->
       IF \/ sessions[s].status \in {"open", "revoked"} /\ sessions[s].until < now
          \/ sessions[s].status = "revoked" /\ sessions[s].seen + Retention < now
       THEN [NoRow EXCEPT !.status = "deleted"] ELSE sessions[s]]
  /\ Go("gate")
  /\ UNCHANGED <<now, files, database, setting, minted, refused, spent>>

(* Fault: each start counts the lifetime of the token anew.                *)
GateExpiryAnew(written) == now + TokenTtl

GateExpiry(written) == written + TokenTtl

LiveGate(token) == [token |-> token, expires |-> GateExpiry(tokenFile.at)]

(* openSetupGate of a vault that was claimed: the file of a claim that was *)
(* killed before it removed it goes now.                                   *)
OpenClaimed ==
  /\ phase = "gate" /\ database.vault
  /\ tokenFile' = NoFile
  /\ Go("listening")
  /\ UNCHANGED <<now, instance, tables, minted, refused, spent>>

(* loadOrMintToken takes the token of an earlier start.                    *)
LoadToken ==
  /\ phase = "gate" /\ ~database.vault
  /\ tokenFile.state = "whole"
  /\ phase' = "stat" /\ gate' = [NoGate EXCEPT !.token = tokenFile.token]
  /\ UNCHANGED <<now, files, tables, pinned, claiming, passed, minted, refused, spent>>

Truncate(next) == tokenFile' = Torn /\ Go(next)

(* Fault: only a missing token file is replaced.                           *)
MintIfMissing ==
  /\ phase = "gate" /\ ~database.vault /\ tokenFile.state = "none"
  /\ Truncate("minting")
  /\ UNCHANGED <<now, instance, tables, minted, refused, spent>>

(* No file, or one whose content does not match SETUP_TOKEN_PATTERN.       *)
MintToken ==
  /\ phase = "gate" /\ ~database.vault /\ tokenFile.state # "whole"
  /\ Truncate("minting")
  /\ UNCHANGED <<now, instance, tables, minted, refused, spent>>

WriteToken ==
  /\ tokenFile' = [state |-> "whole", token |-> Len(minted) + 1, at |-> now]
  /\ minted' = Append(minted, now)

Minted ==
  /\ phase = "minting"
  /\ WriteToken
  /\ phase' = "stat" /\ gate' = [NoGate EXCEPT !.token = Len(minted) + 1]
  /\ UNCHANGED <<now, instance, tables, pinned, claiming, passed, refused, spent>>

(* The file is as old as its mtime: a token past its lifetime is replaced  *)
(* once, one within it is served.                                          *)
StatToken ==
  /\ phase = "stat"
  /\ IF now >= tokenFile.at + TokenTtl
     THEN Truncate("reminting")
     ELSE /\ phase' = "listening" /\ gate' = LiveGate(gate.token)
          /\ UNCHANGED <<tokenFile, pinned, claiming, passed>>
  /\ UNCHANGED <<now, instance, tables, minted, refused, spent>>

(* Fault: the token that was read first stays the one of the gate.         *)
RemintedForFile ==
  /\ phase = "reminting"
  /\ WriteToken
  /\ phase' = "listening"
  /\ gate' = [token |-> gate.token, expires |-> GateExpiry(now)]
  /\ UNCHANGED <<now, instance, tables, pinned, claiming, passed, refused, spent>>

Reminted ==
  /\ phase = "reminting"
  /\ WriteToken
  /\ phase' = "listening"
  /\ gate' = [token |-> Len(minted) + 1, expires |-> GateExpiry(now)]
  /\ UNCHANGED <<now, instance, tables, pinned, claiming, passed, refused, spent>>

(* A write or a removal in the data directory is refused: exit code 1.     *)
StartFails ==
  /\ phase \in {"gate", "minting", "reminting"}
  /\ spent.faults < MaxFaults
  /\ spent' = [spent EXCEPT !.faults = @ + 1]
  /\ Dies
  /\ UNCHANGED <<now, files, tables, minted, refused>>

(* A kill, or SIGTERM: nothing is written on the way down.                 *)
Crash ==
  /\ phase # "down" /\ spent.crashes < MaxCrashes
  /\ spent' = [spent EXCEPT !.crashes = @ + 1]
  /\ Dies
  /\ UNCHANGED <<now, files, tables, minted, refused>>

-----------------------------------------------------------------------------
(* Sessions.                                                               *)

(* describeIdleTimeout: the environment, else the setting.                 *)
IdleTimeout ==
  IF pinned # Unset THEN pinned ELSE setting

ResolvesUnder(s, timeout) ==
  /\ sessions[s].status = "open"
  /\ sessions[s].until > now
  /\ now <= sessions[s].seen + timeout

Resolves(s) == ResolvesUnder(s, IdleTimeout)

RevokeSession(table, s) ==
  IF table[s].status = "open"
  THEN [table EXCEPT ![s].status = "revoked", ![s].seen = now] ELSE table

(* Fault: a session that idled too long is turned away and kept.           *)
RefuseOnly(s) ==
  IF sessions[s].until > now THEN sessions ELSE RevokeSession(sessions, s)

(* resolveSession revokes what it turns away.  The seen of a revoked row   *)
(* is its revoked_at.                                                      *)
Refuse(s) == RevokeSession(sessions, s)

CreateSession(table) ==
  \E s \in Session :
    /\ table[s] = NoRow /\ \A r \in 1..(s - 1) : table[r] # NoRow
    /\ sessions' = [table EXCEPT ![s] =
         [status |-> "open", seen |-> now, until |-> now + Absolute]]

Known(s) == sessions[s] # NoRow

(* requireSession turns a request away.                                    *)
Unauthenticated(s) ==
  /\ phase = "listening" /\ Known(s) /\ ~Resolves(s)
  /\ sessions' = Refuse(s)
  /\ refused' = refused \cup {s}
  /\ UNCHANGED <<now, files, database, setting, process, minted, spent>>

(* requireSession lets one pass: POST /session/touch or PATCH /settings,   *)
(* whose handler is a later step.  The settings do not look at the session *)
(* again.                                                                  *)
Authenticated(s, route) ==
  /\ phase = "listening" /\ Known(s) /\ Resolves(s) /\ passed = {}
  /\ passed' = {[route |-> route, session |-> IF route = "touch" THEN s ELSE 0]}
  /\ UNCHANGED <<now, files, tables, phase, pinned, gate, claiming, minted, refused, spent>>

TouchSession(s) ==
  IF sessions[s].status = "open" /\ now - sessions[s].seen >= TouchEvery
  THEN [sessions EXCEPT ![s].seen = now] ELSE sessions

Touch ==
  \E r \in passed :
    /\ r.route = "touch"
    /\ sessions' = TouchSession(r.session)
    /\ passed' = passed \ {r}
    /\ UNCHANGED <<now, files, database, setting, phase, pinned, gate,
                   claiming, minted, refused, spent>>

(* A value other than the options, or any while the environment has one,   *)
(* is refused.                                                             *)
PatchSettings(minutes) ==
  \E r \in passed :
    /\ r.route = "settings"
    /\ setting' = IF pinned = Unset THEN minutes ELSE setting
    /\ passed' = passed \ {r}
    /\ UNCHANGED <<now, files, database, sessions, phase, pinned, gate,
                   claiming, minted, refused, spent>>

(* POST /lock revokes the session, or what resolveSession turns away.      *)
Lock(s) ==
  /\ phase = "listening" /\ Known(s)
  /\ sessions' = RevokeSession(sessions, s)
  /\ refused' = IF Resolves(s) THEN refused ELSE refused \cup {s}
  /\ UNCHANGED <<now, files, database, setting, process, minted, spent>>

(* POST /login with the cookie of session s, or with none.                 *)
Login(s) ==
  /\ phase = "listening"
  /\ database.vault
  /\ s \in Session => Known(s)
  /\ CreateSession(IF s \in Session THEN RevokeSession(sessions, s) ELSE sessions)
  /\ refused' = IF s \in Session /\ ~Resolves(s) THEN refused \cup {s} ELSE refused
  /\ UNCHANGED <<now, files, database, setting, process, minted, spent>>

-----------------------------------------------------------------------------
(* POST /setup.                                                            *)

Verify(token) == token # 0 /\ token = gate.token /\ now < gate.expires

(* The vault is committed and the token of the gate cleared in one go; the *)
(* removal of the file is awaited.                                         *)
Claim(token) ==
  /\ phase = "listening" /\ ~database.vault
  /\ Verify(token)
  /\ database' = [database EXCEPT !.vault = TRUE]
  /\ gate' = [gate EXCEPT !.token = 0]
  /\ claiming' = TRUE
  /\ UNCHANGED <<now, files, sessions, setting, phase, pinned, passed,
                 minted, refused, spent>>

Claimed ==
  /\ claiming
  /\ tokenFile' = NoFile
  /\ CreateSession(sessions)
  /\ claiming' = FALSE
  /\ UNCHANGED <<now, instance, database, setting, phase, pinned, gate,
                 passed, minted, refused, spent>>

(* The file cannot be removed: an error, and no session.                   *)
ClaimFails ==
  /\ claiming /\ spent.faults < MaxFaults
  /\ spent' = [spent EXCEPT !.faults = @ + 1]
  /\ claiming' = FALSE
  /\ UNCHANGED <<now, files, tables, phase, pinned, gate, passed, minted, refused>>

Tick ==
  /\ now < MaxTime
  /\ now' = now + 1
  /\ UNCHANGED <<files, tables, process, minted, refused, spent>>

-----------------------------------------------------------------------------
Boot ==
  \/ Launch \/ ReadInstance \/ CreateInstance \/ InstanceCreated
  \/ Migrate \/ Migrated \/ Housekeep
  \/ OpenClaimed \/ LoadToken \/ MintToken \/ Minted \/ StatToken \/ Reminted

Requests ==
  \/ \E s \in Session :
       \/ Unauthenticated(s) \/ Lock(s)
       \/ \E route \in {"touch", "settings"} : Authenticated(s, route)
  \/ Touch
  \/ \E minutes \in Timeouts : PatchSettings(minutes)
  \/ \E s \in Session \cup {0} : Login(s)
  \/ \E token \in DOMAIN minted : Claim(token)
  \/ Claimed

Next == Boot \/ Requests \/ StartFails \/ ClaimFails \/ Crash \/ Tick

(* The container is started again as long as it exits, and a start goes on *)
(* by itself.                                                              *)
Spec == Init /\ [][Next]_vars /\ WF_vars(Boot)

-----------------------------------------------------------------------------
(* Every variable keeps its type: what the start-up and the requests write *)
(* is what the next start reads.                                           *)
TypeOK ==
  /\ now \in Time
  /\ instance \in {"none", "torn", "whole"}
  /\ tokenFile \in [state: {"none", "torn", "whole"}, token: Nat, at: Time]
  /\ database \in [version: 0..Migrations, ran: [1..Migrations -> Nat], vault: BOOLEAN]
  /\ sessions \in [Session -> [status: {"none", "open", "revoked", "deleted"},
                               seen: Nat, until: Nat]]
  /\ setting \in Timeouts /\ pinned \in Timeouts \cup {Unset}
  /\ phase \in Phases /\ claiming \in BOOLEAN
  /\ gate \in [token: Nat, expires: Nat]
  /\ passed \subseteq [session: Session \cup {0}, route: {"touch", "settings"}]
  /\ minted \in Seq(Time) /\ refused \subseteq Session
  /\ spent \in [crashes: 0..MaxCrashes, faults: 0..MaxFaults]

(* A session that was refused once is never let in again: not when the     *)
(* timeout is raised afterwards, by a setting or by another environment,   *)
(* and not after a touch that had passed before (resolveSession).          *)
RefusedForGood ==
  \A s \in refused, timeout \in Timeouts : ~ResolvesUnder(s, timeout)

(* The vault is claimed with a token that was written to the file less     *)
(* than its lifetime ago, however often the server was started since.      *)
ClaimedInTime ==
  [][database'.vault # database.vault => now < minted[gate.token] + TokenTtl]_vars

(* A server that listens is ready: every migration ran exactly once, the   *)
(* token of an unclaimed vault is the one in the file, for as long as that *)
(* is young, and a claimed vault has no token, whatever start was killed.  *)
ListeningMeansReady ==
  phase = "listening" =>
    /\ \A i \in 1..Migrations : database.ran[i] = 1
    /\ database.vault => gate.token = 0
    /\ ~database.vault =>
         tokenFile = [state |-> "whole", token |-> gate.token, at |-> gate.expires - TokenTtl]

(* Killed or failing at any step, the server comes back to listening by    *)
(* itself, unless the kill tore the first instance.json.                   *)
ServerReturns == []<>(phase = "listening" \/ instance = "torn")
=============================================================================
