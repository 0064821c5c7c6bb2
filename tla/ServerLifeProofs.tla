-------------------------- MODULE ServerLifeProofs --------------------------
(***************************************************************************)
(* Theorems about ServerLife, for any number of migrations, sessions,      *)
(* kills and failing writes, any timeouts and any length of time: a        *)
(* refused session is refused for good, a listening server is ready, and   *)
(* the setup token is good for its lifetime and no longer.                 *)
(***************************************************************************)
EXTENDS ServerLife, TLAPS

Row == [status: {"none", "open", "revoked", "deleted"}, seen: Nat, until: Nat]

(* Rows that were never written are alike.                                 *)
Rows(table) ==
  /\ table \in [Session -> Row]
  /\ \A s \in Session : table[s].status = "none" => table[s] = NoRow

(* None of the sessions S is open, or can be created again.                *)
Gone(table, S) == \A s \in S : table[s].status \in {"revoked", "deleted"}

SessionInv == Rows(sessions) /\ refused \subseteq Session /\ Gone(sessions, refused)

Late == {"housekeeping", "gate", "minting", "stat", "reminting", "listening"}
Early == {"down", "instance", "creating", "database", "housekeeping", "gate"}

MigrationsInv ==
  /\ \A i \in 1..Migrations :
       database.ran[i] = IF i <= database.version THEN 1 ELSE 0
  /\ phase \in Late => database.version = Migrations

(* What the file says of its token is what the history says.               *)
FileInv ==
  tokenFile.state = "whole" =>
    tokenFile.token \in DOMAIN minted /\ minted[tokenFile.token] = tokenFile.at

(* The gate has no token before a start came to it, has the one of the     *)
(* file from then on, and loses it to the claim.                           *)
GateInv ==
  /\ phase \in Early => gate = NoGate
  /\ phase \in {"minting", "stat", "reminting"} => ~database.vault
  /\ phase = "stat" => tokenFile.state = "whole" /\ gate.token = tokenFile.token
  /\ phase = "listening" /\ database.vault => gate.token = 0
  /\ phase = "listening" /\ ~database.vault =>
       tokenFile = [state |-> "whole", token |-> gate.token,
                    at |-> gate.expires - TokenTtl]
  /\ claiming => phase = "listening" /\ database.vault

ServerInv == TypeOK /\ SessionInv /\ MigrationsInv /\ FileInv /\ GateInv

-----------------------------------------------------------------------------
(* Sessions                                                                *)

LEMMA RevokeKeeps ==
  ASSUME NEW table, Rows(table), NEW s \in Session, now \in Nat
  PROVE  /\ Rows(RevokeSession(table, s))
         /\ \A S : Gone(table, S) /\ S \subseteq Session
              => Gone(RevokeSession(table, s), S)
         /\ RevokeSession(table, s)[s].status # "open"
         /\ table[s] # NoRow =>
              RevokeSession(table, s)[s].status \in {"revoked", "deleted"}
  <1> DEFINE new == RevokeSession(table, s)
  <1>1. CASE table[s].status = "open"
    <2>1. new = [table EXCEPT ![s].status = "revoked", ![s].seen = now]
      BY <1>1 DEF RevokeSession
    <2> DEFINE row == [table[s] EXCEPT !.status = "revoked", !.seen = now]
    <2>2. row \in Row /\ row.status = "revoked"
      BY DEF Rows, Row
    <2>4. new = [table EXCEPT ![s] = row]
      BY <2>1
    <2>5. new \in [Session -> Row] /\ new[s] = row
      BY <2>2, <2>4 DEF Rows
    <2>3. \A r \in Session : r # s => new[r] = table[r]
      BY <2>1 DEF Rows
    <2> QED
      BY <2>2, <2>3, <2>5 DEF Rows, Gone
  <1>2. CASE table[s].status # "open"
    BY <1>2 DEF RevokeSession, Rows, Row, Gone
  <1> QED
    BY <1>1, <1>2

LEMMA CreateKeeps ==
  ASSUME NEW table, Rows(table), CreateSession(table), now \in Nat
  PROVE  /\ Rows(sessions')
         /\ \A S : Gone(table, S) /\ S \subseteq Session => Gone(sessions', S)
  <1>1. PICK s \in Session :
          /\ table[s] = NoRow
          /\ sessions' = [table EXCEPT ![s] =
               [status |-> "open", seen |-> now, until |-> now + Absolute]]
    BY DEF CreateSession
  <1>2. now + Absolute \in Nat
    BY TimesAssumption
  <1>3. /\ sessions' \in [Session -> Row]
        /\ sessions'[s].status = "open"
        /\ \A r \in Session : r # s => sessions'[r] = table[r]
    BY <1>1, <1>2 DEF Rows, Row
  <1>4. table[s].status = "none"
    BY <1>1 DEF NoRow
  <1> QED
    BY <1>3, <1>4 DEF Rows, Gone

LEMMA SessionStep ==
  ASSUME TypeOK, SessionInv, [Next]_vars
  PROVE  SessionInv'
  <1>1. now \in Nat
    BY BoundsAssumption DEF TypeOK, Time
  <1>2. CASE UNCHANGED <<sessions, refused>>
    BY <1>2 DEF SessionInv, Rows, Gone
  <1>3. CASE Housekeep
    <2>1. \A s \in Session :
            \/ sessions'[s] = sessions[s]
            \/ /\ sessions'[s] = [NoRow EXCEPT !.status = "deleted"]
      BY <1>3 DEF Housekeep
    <2>2. [NoRow EXCEPT !.status = "deleted"] \in Row
          /\ [NoRow EXCEPT !.status = "deleted"].status = "deleted"
      BY DEF NoRow, Row
    <2>3. refused' = refused
      BY <1>3 DEF Housekeep
    <2>4. sessions' \in [Session -> Row]
      BY <1>3, <2>1, <2>2 DEF Housekeep, SessionInv, Rows
    <2> QED
      BY <2>1, <2>2, <2>3, <2>4 DEF SessionInv, Rows, Gone
  <1>4. ASSUME NEW s \in Session, Unauthenticated(s)
        PROVE  SessionInv'
    BY <1>1, <1>4, RevokeKeeps
    DEF Unauthenticated, Refuse, Known, SessionInv, Gone
  <1>5. ASSUME NEW s \in Session, Lock(s)
        PROVE  SessionInv'
    BY <1>1, <1>5, RevokeKeeps DEF Lock, Known, SessionInv, Gone
  <1>6. CASE Touch
    <2>1. PICK r \in passed : r.route = "touch" /\ sessions' = TouchSession(r.session)
      BY <1>6 DEF Touch
    <2>2. refused' = refused
      BY <1>6 DEF Touch
    <2>3. CASE sessions' = sessions
      BY <2>2, <2>3 DEF SessionInv, Rows, Gone
    <2>4. CASE sessions' = [sessions EXCEPT ![r.session].seen = now]
      <3>1. sessions' \in [Session -> Row]
        BY <1>1, <2>4 DEF SessionInv, Rows, Row
      <3>2. \A s \in Session : sessions'[s].status = sessions[s].status
        BY <2>4 DEF SessionInv, Rows, Row
      <3>3. CASE r.session \in Session /\ sessions[r.session].status = "open"
        <4>1. \A s \in Session : s # r.session => sessions'[s] = sessions[s]
          BY <2>4 DEF SessionInv, Rows
        <4> QED
          BY <2>2, <3>1, <3>2, <3>3, <4>1 DEF SessionInv, Rows, Gone
      <3>4. CASE r.session \notin Session
        BY <2>2, <2>3, <2>4, <3>4 DEF SessionInv, Rows
      <3>5. CASE r.session \in Session /\ sessions[r.session].status # "open"
        BY <2>1, <2>3, <3>5 DEF TouchSession
      <3> QED
        BY <3>3, <3>4, <3>5
    <2> QED
      BY <2>1, <2>3, <2>4 DEF TouchSession
  <1>7. ASSUME NEW s \in Session \cup {0}, Login(s)
        PROVE  SessionInv'
    <2>1. CASE s \in Session
      <3> DEFINE table == RevokeSession(sessions, s)
      <3>1. CreateSession(table) /\ Known(s)
            /\ (refused' = refused \/ refused' = refused \cup {s})
        BY <1>7, <2>1 DEF Login
      <3>2. Rows(table) /\ Gone(table, refused \cup {s})
        BY <1>1, <2>1, <3>1, RevokeKeeps DEF Known, SessionInv, Gone
      <3>3. Rows(sessions') /\ Gone(sessions', refused \cup {s})
        BY <1>1, <2>1, <3>1, <3>2, CreateKeeps DEF SessionInv
      <3> QED
        BY <2>1, <3>1, <3>3 DEF SessionInv, Gone
    <2>2. CASE s \notin Session
      BY <1>1, <1>7, <2>2, CreateKeeps DEF Login, SessionInv
    <2> QED
      BY <2>1, <2>2
  <1>8. CASE Claimed
    BY <1>1, <1>8, CreateKeeps DEF Claimed, SessionInv
  <1>9. CASE \/ UNCHANGED vars
             \/ Launch \/ ReadInstance \/ CreateInstance \/ InstanceCreated
             \/ Migrate \/ Migrated
             \/ OpenClaimed \/ LoadToken \/ MintToken \/ Minted \/ StatToken
             \/ Reminted \/ StartFails \/ ClaimFails \/ Crash \/ Tick
    BY <1>2, <1>9
    DEF vars, tables, Launch, ReadInstance, CreateInstance, InstanceCreated,
        Migrate, Migrated, OpenClaimed, LoadToken, MintToken, Minted,
        StatToken, Reminted, StartFails, ClaimFails, Crash, Tick
  <1>10. ASSUME NEW s \in Session, NEW route, Authenticated(s, route)
         PROVE  SessionInv'
    BY <1>2, <1>10 DEF Authenticated, tables
  <1>11. ASSUME NEW minutes, PatchSettings(minutes)
         PROVE  SessionInv'
    BY <1>2, <1>11 DEF PatchSettings
  <1>12. ASSUME NEW token, Claim(token)
         PROVE  SessionInv'
    BY <1>2, <1>12 DEF Claim
  <1> QED
    BY <1>3, <1>4, <1>5, <1>6, <1>7, <1>8, <1>9, <1>10, <1>11, <1>12
    DEF Next, Boot, Requests

-----------------------------------------------------------------------------
(* Types                                                                   *)

File == [state: {"none", "torn", "whole"}, token: Nat, at: Time]
Db == [version: 0..Migrations, ran: [1..Migrations -> Nat], vault: BOOLEAN]
Gate == [token: Nat, expires: Nat]
Spent == [crashes: 0..MaxCrashes, faults: 0..MaxFaults]

LEMMA TypeInit == Init => TypeOK
  <1> SUFFICES ASSUME Init PROVE TypeOK
    OBVIOUS
  <1>1. 0 \in Time /\ 0 \in 0..Migrations /\ 0 \in 0..MaxCrashes
        /\ 0 \in 0..MaxFaults
    BY TimesAssumption, BoundsAssumption DEF Time
  <1>2. minted = <<>> /\ minted \in Seq(Time)
    BY DEF Init
  <1> QED
    BY <1>1, <1>2, TimesAssumption
    DEF Init, TypeOK, NoFile, NoRow, NoGate, Phases

(* The next version, and the count of its migration.                       *)
LEMMA NextVersion ==
  ASSUME NEW n \in 0..Migrations, n < Migrations
  PROVE  n + 1 \in 1..Migrations /\ n + 1 \in 0..Migrations
  BY TimesAssumption

LEMMA OneMore ==
  ASSUME NEW S, NEW f \in [S -> Nat], NEW v \in S
  PROVE  [f EXCEPT ![v] = @ + 1] \in [S -> Nat]
  <1>1. f[v] + 1 \in Nat
    OBVIOUS
  <1> QED
    BY <1>1

(* The parts of TypeOK, each by the steps that disturb it.                 *)
LEMMA TypeStep ==
  ASSUME TypeOK, SessionInv', [Next]_vars
  PROVE  TypeOK'
  <1> USE TimesAssumption, BoundsAssumption
  <1>1. now \in Time /\ now \in Nat
    BY DEF TypeOK, Time
  <1>2. /\ sessions' \in [Session -> [status: {"none", "open", "revoked", "deleted"},
                                     seen: Nat, until: Nat]]
        /\ refused' \subseteq Session
    BY DEF SessionInv, Rows, Row
  <1>3. Len(minted) + 1 \in Nat /\ Append(minted, now) \in Seq(Time)
    BY <1>1 DEF TypeOK
  <1>4. CASE UNCHANGED vars
    BY <1>4 DEF vars, files, tables, process, TypeOK
  <1>18. /\ spent \in Spent
         /\ spent.crashes < MaxCrashes => [spent EXCEPT !.crashes = @ + 1] \in Spent
         /\ spent.faults < MaxFaults => [spent EXCEPT !.faults = @ + 1] \in Spent
    <2>1. spent \in Spent
      BY DEF Spent, TypeOK
    <2>2. ASSUME spent.crashes < MaxCrashes
          PROVE  [spent EXCEPT !.crashes = @ + 1] \in Spent
      BY <2>1, <2>2 DEF Spent
    <2>3. ASSUME spent.faults < MaxFaults
          PROVE  [spent EXCEPT !.faults = @ + 1] \in Spent
      BY <2>1, <2>3 DEF Spent
    <2> QED
      BY <2>1, <2>2, <2>3
  <1>19. /\ database \in Db /\ gate \in Gate /\ tokenFile \in File
         /\ NoFile \in File /\ Torn \in File /\ NoGate \in Gate
    BY DEF Db, Gate, File, NoFile, Torn, NoGate, Time, TypeOK
  <1>20. gate \in Gate
    BY DEF Gate, TypeOK
  <1>5. CASE Housekeep \/ \E s \in Session : Unauthenticated(s) \/ Lock(s)
    BY <1>2, <1>5
    DEF Unauthenticated, Lock, Housekeep, Go, files, process, TypeOK, Phases
  <1>6. CASE Launch \/ ReadInstance \/ CreateInstance \/ InstanceCreated
             \/ Migrated \/ Crash \/ StartFails
    <2>1. gate' \in Gate
      <3>1. gate' = gate \/ gate' = NoGate
        BY <1>6
        DEF Launch, ReadInstance, CreateInstance, InstanceCreated, Migrated,
            Crash, StartFails, Dies, Go
      <3> QED
        BY <1>19, <1>20, <3>1
    <2>2. spent' \in Spent
      <3>1. CASE Crash
        BY <1>18, <3>1 DEF Crash
      <3>2. CASE StartFails
        BY <1>18, <3>2 DEF StartFails
      <3> QED
        BY <1>6, <1>18, <3>1, <3>2
        DEF Launch, ReadInstance, CreateInstance, InstanceCreated, Migrated
    <2>3. phase' \in Phases /\ instance' \in {"none", "torn", "whole"}
      <3>1. instance \in {"none", "torn", "whole"}
        BY DEF TypeOK
      <3> QED
        BY <1>6, <3>1
        DEF Launch, ReadInstance, CreateInstance, InstanceCreated, Migrated,
            Crash, StartFails, Dies, Go, Phases, files
    <2> QED
      BY <1>2, <1>6, <2>1, <2>2, <2>3
      DEF Launch, ReadInstance, CreateInstance, InstanceCreated, Migrated,
          Crash, StartFails, Dies, Go, Gate, Spent, files, tables, TypeOK
  <1>7. CASE Migrate
    <2>1. database' \in Db
      <3> DEFINE v == database.version + 1
      <3>6. database.version \in 0..Migrations /\ database.version < Migrations
        <4>1. database.version \in 0..Migrations
          BY <1>19 DEF Db
        <4> QED
          BY <1>7, <4>1 DEF Migrate
      <3>1. v \in 1..Migrations /\ v \in 0..Migrations
        BY <3>6, NextVersion
      <3>2. database' = [database EXCEPT !.version = v, !.ran[v] = @ + 1]
        BY <1>7 DEF Migrate
      <3>3. [database.ran EXCEPT ![v] = @ + 1] \in [1..Migrations -> Nat]
        <4>1. database.ran \in [1..Migrations -> Nat]
          BY <1>19 DEF Db
        <4> HIDE DEF v
        <4> QED
          BY <3>1, <4>1, OneMore
      <3>4. database' = [version |-> v, ran |-> [database.ran EXCEPT ![v] = @ + 1],
                         vault |-> database.vault]
        BY <1>19, <3>2 DEF Db
      <3> QED
        BY <1>19, <3>1, <3>3, <3>4 DEF Db
    <2> QED
      BY <1>2, <1>7, <2>1 DEF Migrate, files, process, Db, TypeOK
  <1>8. CASE OpenClaimed \/ LoadToken \/ MintToken \/ StatToken
    <2>1. tokenFile' \in File
      BY <1>8, <1>19
      DEF OpenClaimed, LoadToken, MintToken, StatToken, Truncate, files
    <2>2. gate' \in Gate
      <3>1. CASE LoadToken
        <4>1. gate' = [NoGate EXCEPT !.token = tokenFile.token]
          BY <3>1 DEF LoadToken
        <4> QED
          BY <1>19, <4>1 DEF Gate, File, NoGate
      <3>2. LiveGate(gate.token) \in Gate
        BY <1>19 DEF LiveGate, GateExpiry, Gate, File, Time
      <3> QED
        BY <1>8, <1>19, <3>1, <3>2
        DEF OpenClaimed, MintToken, StatToken, Truncate, Go
    <2>3. phase' \in Phases /\ UNCHANGED <<pinned, claiming, passed>>
      BY <1>8
      DEF OpenClaimed, LoadToken, MintToken, StatToken, Truncate, Go, Phases
    <2> QED
      BY <1>2, <1>8, <2>1, <2>2, <2>3
      DEF OpenClaimed, LoadToken, MintToken, StatToken, files, tables, Gate,
          File, TypeOK
  <1>9. CASE Minted \/ Reminted
    <2>1. tokenFile' \in File /\ minted' \in Seq(Time)
      <3>1. WriteToken
        BY <1>9 DEF Minted, Reminted
      <3>2. tokenFile' = [state |-> "whole", token |-> Len(minted) + 1, at |-> now]
        BY <3>1 DEF WriteToken
      <3>3. minted' = Append(minted, now)
        BY <3>1 DEF WriteToken
      <3> QED
        BY <1>1, <1>3, <3>2, <3>3 DEF File
    <2>2. gate' \in Gate
      <3>1. CASE Minted
        <4>1. gate' = [NoGate EXCEPT !.token = Len(minted) + 1]
          BY <3>1 DEF Minted
        <4> QED
          BY <1>3, <4>1 DEF Gate, NoGate
      <3>2. CASE Reminted
        BY <1>1, <1>3, <3>2 DEF Reminted, GateExpiry, Gate
      <3> QED
        BY <1>9, <3>1, <3>2
    <2>3. phase' \in Phases /\ UNCHANGED <<pinned, claiming, passed>>
      BY <1>9 DEF Minted, Reminted, Phases
    <2> QED
      BY <1>2, <1>9, <2>1, <2>2, <2>3
      DEF Minted, Reminted, tables, Gate, File, TypeOK
  <1>10. ASSUME NEW s \in Session, NEW route \in {"touch", "settings"},
                Authenticated(s, route)
         PROVE  TypeOK'
    <2> DEFINE request == [route |-> route, session |-> IF route = "touch" THEN s ELSE 0]
    <2>1. request \in [session: Session \cup {0}, route: {"touch", "settings"}]
      OBVIOUS
    <2>2. passed' = {request}
      BY <1>10 DEF Authenticated
    <2>3. passed' \subseteq [session: Session \cup {0}, route: {"touch", "settings"}]
      BY <2>1, <2>2
    <2>4. UNCHANGED <<now, files, tables, phase, pinned, gate, claiming, minted,
                      refused, spent>>
      BY <1>10 DEF Authenticated
    <2> QED
      BY <1>2, <2>3, <2>4 DEF files, tables, TypeOK
  <1>11. CASE Touch
    <2>1. /\ passed' \subseteq passed
          /\ UNCHANGED <<now, files, database, setting, phase, pinned, gate, claiming,
                        minted, refused, spent>>
      BY <1>11 DEF Touch
    <2> QED
      BY <1>2, <2>1 DEF files, TypeOK
  <1>12. ASSUME NEW minutes \in Timeouts, PatchSettings(minutes)
         PROVE  TypeOK'
    <2>1. /\ passed' \subseteq passed /\ setting' \in {setting, minutes}
          /\ UNCHANGED <<now, files, database, phase, pinned, gate, claiming,
                        minted, refused, spent>>
      BY <1>12 DEF PatchSettings
    <2> QED
      BY <1>2, <2>1 DEF files, TypeOK
  <1>13. ASSUME NEW s \in Session \cup {0}, Login(s)
         PROVE  TypeOK'
    BY <1>2, <1>13 DEF Login, files, process, TypeOK
  <1>14. ASSUME NEW token, Claim(token)
         PROVE  TypeOK'
    <2>1. /\ database' = [database EXCEPT !.vault = TRUE]
          /\ gate' = [gate EXCEPT !.token = 0]
      BY <1>14 DEF Claim
    <2>2. database' \in Db /\ gate' \in Gate
      BY <1>19, <2>1 DEF Db, Gate
    <2> QED
      BY <1>2, <1>14, <2>2 DEF Claim, Db, Gate, files, TypeOK
  <1>15. CASE Claimed
    <2>1. tokenFile' \in File
      BY <1>15 DEF Claimed, NoFile, File, Time
    <2> QED
      BY <1>2, <1>15, <2>1 DEF Claimed, File, TypeOK
  <1>16. CASE ClaimFails
    <2>1. spent' \in Spent
      BY <1>16, <1>18 DEF ClaimFails
    <2> QED
      BY <1>2, <1>16, <2>1 DEF ClaimFails, Spent, files, tables, TypeOK
  <1>17. CASE Tick
    <2>1. now' \in Time
      BY <1>1, <1>17 DEF Tick, Time
    <2> QED
      BY <1>2, <1>17, <2>1 DEF Tick, files, tables, process, TypeOK
  <1> QED
    BY <1>4, <1>5, <1>6, <1>7, <1>8, <1>9, <1>10, <1>11, <1>12, <1>13, <1>14,
       <1>15, <1>16, <1>17 DEF Next, Boot, Requests

-----------------------------------------------------------------------------
(* Migrations, the token file and the gate                                 *)

LEMMA MigrationsStep ==
  ASSUME TypeOK, MigrationsInv, [Next]_vars
  PROVE  MigrationsInv'
  <1> USE TimesAssumption
  <1>1. CASE Migrate
    <2> DEFINE v == database.version + 1
    <2>1. v \in 1..Migrations /\ database.version \in Nat
      <3>1. database.version \in 0..Migrations
        BY DEF TypeOK
      <3>2. database.version < Migrations
        BY <1>1 DEF Migrate
      <3>3. database.version \in Nat
        BY <3>1
      <3> QED
        BY <3>1, <3>2, <3>3, NextVersion
    <2>2. database' = [database EXCEPT !.version = v, !.ran[v] = @ + 1]
      BY <1>1 DEF Migrate
    <2>3. /\ database'.version = v
          /\ database'.ran = [database.ran EXCEPT ![v] = @ + 1]
      BY <2>2 DEF TypeOK
    <2>4. \A i \in 1..Migrations :
            database'.ran[i] = IF i = v THEN database.ran[v] + 1 ELSE database.ran[i]
      BY <2>1, <2>3 DEF TypeOK
    <2>5. \A i \in 1..Migrations : database'.ran[i] = IF i <= v THEN 1 ELSE 0
      BY <2>1, <2>4 DEF MigrationsInv
    <2>6. phase' = "database"
      BY <1>1 DEF Migrate, process
    <2> QED
      BY <2>3, <2>5, <2>6 DEF MigrationsInv, Late
  <1>2. CASE UNCHANGED database /\ (phase' \in Late => phase \in Late)
    BY <1>2 DEF MigrationsInv
  <1>3. CASE Migrated
    BY <1>3 DEF Migrated, Go, tables, MigrationsInv, Late
  <1>4. CASE \/ UNCHANGED vars \/ Launch \/ ReadInstance \/ CreateInstance
             \/ InstanceCreated \/ Housekeep \/ OpenClaimed \/ LoadToken
             \/ MintToken \/ Minted \/ StatToken \/ Reminted \/ StartFails
             \/ ClaimFails \/ Crash \/ Tick \/ Touch \/ Claimed
    BY <1>2, <1>4
    DEF vars, tables, process, Launch, ReadInstance, CreateInstance,
        InstanceCreated, Housekeep, OpenClaimed, LoadToken, MintToken, Minted,
        StatToken, Reminted, StartFails, ClaimFails, Crash, Tick, Touch,
        Claimed, Truncate, Go, Dies, Late
  <1>5. ASSUME NEW s, NEW x,
               \/ Unauthenticated(s) \/ Lock(s) \/ Authenticated(s, x)
               \/ PatchSettings(x) \/ Login(s)
        PROVE  MigrationsInv'
    BY <1>2, <1>5
    DEF Unauthenticated, Lock, Authenticated, PatchSettings, Login, tables,
        process
  <1>6. ASSUME NEW token, Claim(token)
        PROVE  MigrationsInv'
    <2>1. database' = [database EXCEPT !.vault = TRUE] /\ phase' = phase
      BY <1>6 DEF Claim
    <2>2. database'.version = database.version /\ database'.ran = database.ran
      BY <2>1 DEF TypeOK
    <2> QED
      BY <2>1, <2>2 DEF MigrationsInv
  <1> QED
    BY <1>1, <1>3, <1>4, <1>5, <1>6 DEF Next, Boot, Requests

LEMMA FileStep ==
  ASSUME TypeOK, FileInv, [Next]_vars
  PROVE  FileInv'
  <1>1. CASE UNCHANGED <<tokenFile, minted>>
    BY <1>1 DEF FileInv
  <1>2. CASE tokenFile' \in {NoFile, Torn}
    BY <1>2 DEF FileInv, NoFile, Torn
  <1>3. CASE Minted \/ Reminted
    <2>1. /\ tokenFile' = [state |-> "whole", token |-> Len(minted) + 1, at |-> now]
          /\ minted' = Append(minted, now)
      BY <1>3 DEF Minted, Reminted, WriteToken
    <2>2. minted \in Seq(Time) /\ now \in Time
      BY DEF TypeOK
    <2>3. /\ Len(minted) + 1 \in DOMAIN minted'
          /\ minted'[Len(minted) + 1] = now
      BY <2>1, <2>2
    <2> QED
      BY <2>1, <2>3 DEF FileInv
  <1>4. CASE OpenClaimed \/ MintToken \/ StatToken \/ Claimed
    BY <1>1, <1>2, <1>4
    DEF OpenClaimed, MintToken, StatToken, Truncate, Claimed
  <1>5. CASE \/ UNCHANGED vars \/ Launch \/ ReadInstance \/ CreateInstance
             \/ InstanceCreated \/ Migrate \/ Migrated \/ Housekeep
             \/ LoadToken \/ StartFails \/ ClaimFails \/ Crash \/ Tick \/ Touch
    BY <1>1, <1>5
    DEF vars, files, Launch, ReadInstance, CreateInstance, InstanceCreated,
        Migrate, Migrated, Housekeep, LoadToken, StartFails, ClaimFails,
        Crash, Tick, Touch
  <1>6. ASSUME NEW s, NEW x,
               \/ Unauthenticated(s) \/ Lock(s) \/ Authenticated(s, x)
               \/ PatchSettings(x) \/ Login(s) \/ Claim(x)
        PROVE  FileInv'
    BY <1>1, <1>6
    DEF Unauthenticated, Lock, Authenticated, PatchSettings, Login, Claim, files
  <1> QED
    BY <1>3, <1>4, <1>5, <1>6 DEF Next, Boot, Requests

LEMMA GateStep ==
  ASSUME TypeOK, GateInv, [Next]_vars
  PROVE  GateInv'
  <1> USE TimesAssumption
  <1>1. CASE UNCHANGED <<tokenFile, database, phase, gate, claiming>>
    BY <1>1 DEF GateInv
  <1>2. CASE Dies
    BY <1>2 DEF Dies, GateInv, Early
  <1>3. CASE Crash \/ StartFails
    BY <1>2, <1>3 DEF Crash, StartFails
  <1>4. CASE Launch \/ ReadInstance \/ CreateInstance \/ InstanceCreated
             \/ Migrated \/ Housekeep
    BY <1>2, <1>4
    DEF Launch, ReadInstance, CreateInstance, InstanceCreated, Migrated,
        Housekeep, Go, GateInv, Early, tables, files
  <1>5. CASE Migrate
    <2>1. phase = "database" /\ UNCHANGED <<phase, gate, claiming>>
      BY <1>5 DEF Migrate, process
    <2> QED
      BY <2>1 DEF GateInv, Early
  <1>6. CASE OpenClaimed
    BY <1>6 DEF OpenClaimed, Go, GateInv, Early, NoGate, tables
  <1>7. CASE LoadToken
    <2>1. /\ phase' = "stat" /\ gate' = [NoGate EXCEPT !.token = tokenFile.token]
          /\ tokenFile.state = "whole" /\ ~database.vault
          /\ phase = "gate" /\ UNCHANGED <<tokenFile, database, claiming>>
      BY <1>7 DEF LoadToken, files, tables
    <2>2. gate'.token = tokenFile.token
      BY <2>1 DEF NoGate
    <2> QED
      BY <2>1, <2>2 DEF GateInv, Early
  <1>8. CASE MintToken
    BY <1>8 DEF MintToken, Truncate, Go, GateInv, Early, tables
  <1>9. CASE Minted
    <2>1. /\ phase = "minting" /\ phase' = "stat"
          /\ tokenFile' = [state |-> "whole", token |-> Len(minted) + 1, at |-> now]
          /\ gate' = [NoGate EXCEPT !.token = Len(minted) + 1]
          /\ UNCHANGED <<database, claiming>>
      BY <1>9 DEF Minted, WriteToken, tables
    <2>2. gate'.token = tokenFile'.token /\ tokenFile'.state = "whole"
      BY <2>1 DEF NoGate
    <2> QED
      BY <2>1, <2>2 DEF GateInv, Early
  <1>10. CASE StatToken
    <2>1. phase = "stat" /\ UNCHANGED database
      BY <1>10 DEF StatToken, tables
    <2>2. CASE now >= tokenFile.at + TokenTtl
      BY <1>10, <2>1, <2>2 DEF StatToken, Truncate, Go, GateInv, Early
    <2>3. CASE ~(now >= tokenFile.at + TokenTtl)
      <3>1. /\ phase' = "listening" /\ UNCHANGED <<tokenFile, claiming>>
            /\ gate' = [token |-> gate.token, expires |-> tokenFile.at + TokenTtl]
        BY <1>10, <2>3 DEF StatToken, LiveGate, GateExpiry
      <3>2. /\ gate'.token = tokenFile.token
            /\ gate'.expires - TokenTtl = tokenFile.at
        BY <2>1, <3>1 DEF GateInv, TypeOK, Time
      <3>3. tokenFile = [state |-> "whole", token |-> tokenFile.token,
                         at |-> tokenFile.at]
        BY <2>1 DEF GateInv, TypeOK
      <3> QED
        BY <2>1, <3>1, <3>2, <3>3 DEF GateInv, Early
    <2> QED
      BY <2>2, <2>3
  <1>11. CASE Reminted
    <2>1. /\ phase = "reminting" /\ phase' = "listening"
          /\ tokenFile' = [state |-> "whole", token |-> Len(minted) + 1, at |-> now]
          /\ gate' = [token |-> Len(minted) + 1, expires |-> now + TokenTtl]
          /\ UNCHANGED <<database, claiming>>
      BY <1>11 DEF Reminted, WriteToken, GateExpiry, tables
    <2>2. gate'.token = Len(minted) + 1 /\ gate'.expires - TokenTtl = now
      BY <2>1 DEF TypeOK, Time
    <2> QED
      BY <2>1, <2>2 DEF GateInv, Early
  <1>12. ASSUME NEW token, Claim(token)
         PROVE  GateInv'
    <2>1. /\ phase = "listening" /\ phase' = phase
          /\ database' = [database EXCEPT !.vault = TRUE]
          /\ gate' = [gate EXCEPT !.token = 0]
      BY <1>12 DEF Claim
    <2>2. database'.vault /\ gate'.token = 0
      BY <2>1 DEF TypeOK
    <2> QED
      BY <2>1, <2>2 DEF GateInv, Early
  <1>13. CASE Claimed
    BY <1>13 DEF Claimed, GateInv, Early
  <1>14. CASE ClaimFails
    BY <1>14 DEF ClaimFails, files, tables, GateInv
  <1>15. CASE UNCHANGED vars \/ Tick \/ Touch
    BY <1>1, <1>15 DEF vars, files, tables, process, Tick, Touch
  <1>16. ASSUME NEW s, NEW x,
                \/ Unauthenticated(s) \/ Lock(s) \/ Authenticated(s, x)
                \/ PatchSettings(x) \/ Login(s)
         PROVE  GateInv'
    BY <1>1, <1>16
    DEF Unauthenticated, Lock, Authenticated, PatchSettings, Login, files,
        tables, process
  <1> QED
    BY <1>3, <1>4, <1>5, <1>6, <1>7, <1>8, <1>9, <1>10, <1>11, <1>12, <1>13,
       <1>14, <1>15, <1>16 DEF Next, Boot, Requests

-----------------------------------------------------------------------------
(* Theorems                                                                *)

LEMMA InvInit == Init => ServerInv
  <1> SUFFICES ASSUME Init PROVE ServerInv
    OBVIOUS
  <1> USE TimesAssumption
  <1>1. TypeOK
    BY TypeInit
  <1>2. SessionInv
    BY DEF Init, SessionInv, Rows, Row, Gone, NoRow
  <1>3. MigrationsInv
    BY DEF Init, MigrationsInv, Late
  <1>4. FileInv /\ GateInv
    BY DEF Init, FileInv, GateInv, NoFile, Early
  <1> QED
    BY <1>1, <1>2, <1>3, <1>4 DEF ServerInv

(* The inductive invariant.                                                *)
THEOREM ServerInvariance == Spec => []ServerInv
  <1>1. ServerInv /\ [Next]_vars => ServerInv'
    BY SessionStep, TypeStep, MigrationsStep, FileStep, GateStep DEF ServerInv
  <1> QED
    BY <1>1, InvInit, PTL DEF Spec

(* What a start or a request writes is what the next start reads.          *)
THEOREM ServerTypesKept == Spec => []TypeOK
  <1>1. ServerInv => TypeOK
    BY DEF ServerInv
  <1> QED
    BY <1>1, ServerInvariance, PTL

(* No later timeout, touch or restart lets a session in again that was     *)
(* turned away once (resolveSession revokes it).                           *)
THEOREM RefusalIsFinal == Spec => []RefusedForGood
  <1>1. ServerInv => RefusedForGood
    BY DEF ServerInv, SessionInv, Gone, RefusedForGood, ResolvesUnder
  <1> QED
    BY <1>1, ServerInvariance, PTL

(* A server that listens has run every migration once, has the token that  *)
(* is in the file while the vault is unclaimed, and none afterwards.       *)
THEOREM ListeningIsReady == Spec => []ListeningMeansReady
  <1>1. ServerInv => ListeningMeansReady
    BY TimesAssumption
    DEF ServerInv, MigrationsInv, GateInv, Late, ListeningMeansReady
  <1> QED
    BY <1>1, ServerInvariance, PTL

(* The vault is claimed within the lifetime of the token that was written  *)
(* to the file, whatever was restarted in between.                         *)
THEOREM ClaimsAreInTime == Spec => ClaimedInTime
  <1>1. ASSUME ServerInv, Next, database'.vault # database.vault
        PROVE  now < minted[gate.token] + TokenTtl
    <2>1. ASSUME NEW token, Claim(token)
          PROVE  now < minted[gate.token] + TokenTtl
      <3>1. phase = "listening" /\ ~database.vault /\ now < gate.expires
        BY <2>1 DEF Claim, Verify
      <3>2. tokenFile.state = "whole" /\ tokenFile.token = gate.token
            /\ tokenFile.at = gate.expires - TokenTtl
        BY <1>1, <3>1 DEF ServerInv, GateInv
      <3>3. minted[gate.token] = gate.expires - TokenTtl
        BY <1>1, <3>2 DEF ServerInv, FileInv
      <3>4. now \in Nat /\ gate.expires \in Nat /\ TokenTtl \in Nat
        BY <1>1, TimesAssumption DEF ServerInv, TypeOK, Time
      <3> QED
        BY <3>1, <3>3, <3>4
    <2>2. ASSUME ~\E token \in DOMAIN minted : Claim(token)
          PROVE  database'.vault = database.vault
      <3>1. CASE Migrate
        BY <1>1, <3>1 DEF Migrate, ServerInv, TypeOK
      <3>2. CASE \/ Launch \/ ReadInstance \/ CreateInstance
                 \/ InstanceCreated \/ Migrated \/ Housekeep \/ OpenClaimed
                 \/ LoadToken \/ MintToken \/ Minted \/ StatToken \/ Reminted
                 \/ StartFails \/ ClaimFails \/ Crash \/ Tick \/ Touch \/ Claimed
        BY <3>2
        DEF tables, Launch, ReadInstance, CreateInstance, InstanceCreated,
            Migrated, Housekeep, OpenClaimed, LoadToken, MintToken, Minted,
            StatToken, Reminted, StartFails, ClaimFails, Crash, Tick, Touch,
            Claimed
      <3>3. ASSUME NEW s, NEW x,
                   \/ Unauthenticated(s) \/ Lock(s) \/ Authenticated(s, x)
                   \/ PatchSettings(x) \/ Login(s)
            PROVE  database'.vault = database.vault
        BY <3>3
        DEF Unauthenticated, Lock, Authenticated, PatchSettings, Login, tables
      <3> QED
        BY <1>1, <2>2, <3>1, <3>2, <3>3 DEF Next, Boot, Requests
    <2> QED
      BY <1>1, <2>1, <2>2
  <1>2. ServerInv /\ [Next]_vars
          => [database'.vault # database.vault
                => now < minted[gate.token] + TokenTtl]_vars
    BY <1>1
  <1> QED
    BY <1>2, ServerInvariance, PTL DEF Spec, ClaimedInTime
=============================================================================
