---------------------------- MODULE KeyPageProofs ----------------------------
(***************************************************************************)
(* Theorems about VaultStore and KeyPage for every set of tabs, browsers,  *)
(* entries, codes, sessions and tickets, and every bound: first of the     *)
(* database with any client, then of the tabs and the database together.   *)
(* The latter assume that nobody logs in while POST /setup still waits for *)
(* its token file to be removed: what happens otherwise is the subject of  *)
(* a run of its own.                                                       *)
(***************************************************************************)
EXTENDS KeyPage, TLAPS

-----------------------------------------------------------------------------
(* What the fragments of the transactions do.                              *)

(* After revokeAllSessions no session is active.                           *)
LEMMA RevokeAllLemma ==
  ASSUME StoreTypeOK
  PROVE  /\ RevokeAllSessions \in [Session -> SessionStatus]
         /\ \A s \in Session : RevokeAllSessions[s] \notin {"live", "stale"}
         /\ \A s \in Session : SessionActive(s) => RevokeAllSessions[s] = "revoked"
  BY DEF StoreTypeOK, RevokeAllSessions, SessionActive, SessionStatus

(* Revoking one session activates none.                                    *)
LEMMA RevokeOneLemma ==
  ASSUME StoreTypeOK, NEW old
  PROVE  /\ RevokeSession(old) \in [Session -> SessionStatus]
         /\ \A s \in Session :
              RevokeSession(old)[s] \in {"live", "stale"} => SessionActive(s)
  BY DEF StoreTypeOK, RevokeSession, SessionActive, SessionStatus

(* After a replacement of the codes no ticket is open.                     *)
LEMMA CloseTicketsLemma ==
  ASSUME StoreTypeOK
  PROVE  /\ CloseTickets \in [Ticket -> [status: TicketStatus, code: Code]]
         /\ \A t \in Ticket : CloseTickets[t].status # "open"
  BY DEF StoreTypeOK, CloseTickets, TicketStatus

(* A rotation stamps every entry it keeps with the new version.            *)
LEMMA ReplaceCiphersLemma ==
  ASSUME StoreTypeOK, NEW v \in Version,
         NEW submitted \in [Entry -> Reencrypted \cup {Null}],
         EntriesMatchVault(submitted)
  PROVE  /\ ReplaceKeyEntryCiphers(submitted, v) \in [Entry -> Cipher \cup {Null}]
         /\ \A e \in Entry :
              ReplaceKeyEntryCiphers(submitted, v)[e] # Null
                => ReplaceKeyEntryCiphers(submitted, v)[e].version = v
  <1> SUFFICES ASSUME NEW e \in Entry
               PROVE  /\ ReplaceKeyEntryCiphers(submitted, v)[e]
                           \in Cipher \cup {Null}
                      /\ ReplaceKeyEntryCiphers(submitted, v)[e] # Null
                           => ReplaceKeyEntryCiphers(submitted, v)[e].version = v
    BY DEF ReplaceKeyEntryCiphers
  <1>1. CASE submitted[e] = Null
    <2>1. entries[e] = Null
      BY <1>1 DEF EntriesMatchVault
    <2> QED
      BY <1>1, <2>1 DEF ReplaceKeyEntryCiphers
  <1>2. CASE submitted[e] # Null
    <2>1. submitted[e] \in Reencrypted
      BY <1>2
    <2>2. ReplaceKeyEntryCiphers(submitted, v)[e]
            = [key |-> submitted[e].key, version |-> v,
               iv |-> submitted[e].iv, value |-> submitted[e].value]
      BY <1>2 DEF ReplaceKeyEntryCiphers
    <2> QED
      BY <2>1, <2>2 DEF Reencrypted, Cipher
  <1> QED
    BY <1>1, <1>2

-----------------------------------------------------------------------------
(* The inductive invariant.                                                *)

(* Before the transaction of POST /setup there is no recovery code to      *)
(* claim with and no version to have stamped.                              *)
SetupPhases ==
  setup = "open" => vault.version = 0 /\ OpenTickets = {}

StoreInv ==
  /\ StoreTypeOK
  /\ StampsCurrent
  /\ OpenTicketFreezesSessions
  /\ TicketsBackedByCodes
  /\ SetupPhases

LEMMA InitLemma == StoreInit => StoreInv
  BY DEF StoreInit, StoreInv, StoreTypeOK, StampsCurrent, SetupPhases,
         OpenTicketFreezesSessions, TicketsBackedByCodes, OpenTickets,
         SessionActive, SessionStatus, TicketStatus

(* The part of StoreInv about sessions and tickets, after a step that      *)
(* leaves no ticket open or no session active.                             *)
LEMMA NoOpenTicket ==
  ASSUME \A t \in Ticket : tickets'[t].status # "open"
  PROVE  /\ OpenTickets' = {}
         /\ OpenTicketFreezesSessions'
         /\ TicketsBackedByCodes'
  BY DEF OpenTickets, OpenTicketFreezesSessions, TicketsBackedByCodes

LEMMA RotateLemma ==
  ASSUME StoreInv, NEW k \in Key, NEW s \in Session,
         NEW submitted \in [Entry -> Reencrypted \cup {Null}],
         Initialized, RotateVaultMaterial(k, submitted, s)
  PROVE  StoreInv'
  <1> USE BoundsAssumption
  <1>1. StoreTypeOK
    BY DEF StoreInv
  <1>2. vault.version + 1 \in Version
    BY <1>1 DEF RotateVaultMaterial, StoreTypeOK, Version
  <1>3. \A t \in Ticket : tickets'[t].status # "open"
    BY <1>1, CloseTicketsLemma DEF RotateVaultMaterial
  <1>4. StoreTypeOK'
    <2>1. vault' \in [key: Nat, version: Nat]
      BY <1>2 DEF RotateVaultMaterial, Key, Version
    <2>2. entries' \in [Entry -> Cipher \cup {Null}]
      BY <1>1, <1>2, ReplaceCiphersLemma DEF RotateVaultMaterial
    <2>3. codes' \in [Code -> [key: Nat, version: Nat, used: BOOLEAN]]
      BY <1>2 DEF RotateVaultMaterial, ReplaceRecoveryCodes, Key, Version
    <2>4. tickets' \in [Ticket -> [status: TicketStatus, code: Code]]
      BY <1>1, CloseTicketsLemma DEF RotateVaultMaterial
    <2>5. sessions' \in [Session -> SessionStatus]
      BY <1>1, RevokeAllLemma DEF RotateVaultMaterial, CreateSession, SessionStatus
    <2> QED
      BY <1>1, <2>1, <2>2, <2>3, <2>4, <2>5 DEF RotateVaultMaterial, StoreTypeOK
  <1>5. StampsCurrent'
    <2>1. \A e \in Entry : entries'[e] # Null
                             => entries'[e].version = vault.version + 1
      BY <1>1, <1>2, ReplaceCiphersLemma DEF RotateVaultMaterial
    <2> QED
      BY <2>1 DEF RotateVaultMaterial, StampsCurrent, ReplaceRecoveryCodes
  <1>6. SetupPhases'
    <2>1. setup # "open"
      BY DEF Initialized, StoreInv, SetupPhases
    <2> QED
      BY <1>3, NoOpenTicket, <2>1 DEF RotateVaultMaterial, SetupPhases
  <1> QED
    BY <1>3, <1>4, <1>5, <1>6, NoOpenTicket DEF StoreInv

(* A claim closes every session before its ticket can freeze them, and its *)
(* code was unused, so no other open ticket has it.                        *)
LEMMA ClaimLemma ==
  ASSUME StoreInv, NEW c \in Code, NEW t \in Ticket, ClaimRecoveryCode(c, t)
  PROVE  StoreInv'
  <1>1. StoreTypeOK
    BY DEF StoreInv
  <1>2. StoreTypeOK'
    <2>1. sessions' \in [Session -> SessionStatus]
      BY <1>1, RevokeAllLemma DEF ClaimRecoveryCode
    <2>2. tickets' \in [Ticket -> [status: TicketStatus, code: Code]]
      BY <1>1 DEF StoreTypeOK, ClaimRecoveryCode, TicketStatus
    <2>3. codes' \in [Code -> [key: Nat, version: Nat, used: BOOLEAN]]
      BY <1>1 DEF StoreTypeOK, ClaimRecoveryCode
    <2> QED
      BY <1>1, <2>1, <2>2, <2>3 DEF StoreTypeOK, ClaimRecoveryCode
  <1>3. StampsCurrent'
    BY <1>1 DEF ClaimRecoveryCode, StoreInv, StampsCurrent, StoreTypeOK
  <1>4. OpenTicketFreezesSessions'
    BY <1>1, RevokeAllLemma
    DEF ClaimRecoveryCode, OpenTicketFreezesSessions, SessionActive
  <1>5. TicketsBackedByCodes'
    <2>1. \A u \in OpenTickets' : u # t => u \in OpenTickets
                                           /\ tickets'[u] = tickets[u]
      BY <1>1 DEF ClaimRecoveryCode, OpenTickets, StoreTypeOK
    <2>2. tickets'[t] = [status |-> "open", code |-> c] /\ codes'[c].used
      BY <1>1 DEF ClaimRecoveryCode, StoreTypeOK
    <2>3. \A d \in Code : codes[d].used => codes'[d].used
      BY <1>1 DEF ClaimRecoveryCode, StoreTypeOK
    <2>4. \A u \in OpenTickets : tickets[u].code \in Code /\ tickets[u].code # c
      BY <1>1 DEF ClaimRecoveryCode, StoreInv, TicketsBackedByCodes, OpenTickets,
                  StoreTypeOK
    <2>5. ASSUME NEW u \in OpenTickets'
          PROVE  codes'[tickets'[u].code].used
      <3>1. CASE u = t
        BY <2>2, <3>1
      <3>2. CASE u # t
        BY <2>1, <2>3, <2>4, <3>2 DEF StoreInv, TicketsBackedByCodes
      <3> QED
        BY <3>1, <3>2
    <2>6. ASSUME NEW u \in OpenTickets', NEW w \in OpenTickets',
                 tickets'[u].code = tickets'[w].code
          PROVE  u = w
      <3>1. CASE u = t \/ w = t
        BY <2>1, <2>2, <2>4, <2>6, <3>1
      <3>2. CASE u # t /\ w # t
        BY <2>1, <2>6, <3>2 DEF StoreInv, TicketsBackedByCodes
      <3> QED
        BY <3>1, <3>2
    <2> QED
      BY <2>5, <2>6 DEF TicketsBackedByCodes
  <1>6. SetupPhases'
    BY DEF ClaimRecoveryCode, Initialized, StoreInv, SetupPhases
  <1> QED
    BY <1>2, <1>3, <1>4, <1>5, <1>6 DEF StoreInv

(* Steps that only close sessions and tickets disturb nothing.             *)
LEMMA CloseLemma ==
  ASSUME StoreInv,
         UNCHANGED <<vault, setup, late, entries, codes>>,
         tickets' \in [Ticket -> [status: TicketStatus, code: Code]],
         sessions' \in [Session -> SessionStatus],
         \A t \in Ticket : tickets'[t].status = "open" => tickets'[t] = tickets[t],
         \A s \in Session : sessions'[s] \in {"live", "stale"} => SessionActive(s)
  PROVE  StoreInv'
  <1>1. StoreTypeOK' /\ StampsCurrent'
    BY DEF StoreInv, StoreTypeOK, StampsCurrent
  <1>2. OpenTickets' \subseteq OpenTickets
    BY DEF OpenTickets
  <1>3. OpenTicketFreezesSessions'
    BY <1>2 DEF StoreInv, OpenTicketFreezesSessions, SessionActive
  <1>4. TicketsBackedByCodes'
    BY <1>2 DEF StoreInv, TicketsBackedByCodes, OpenTickets
  <1>5. SetupPhases'
    BY <1>2 DEF StoreInv, SetupPhases
  <1> QED
    BY <1>1, <1>3, <1>4, <1>5 DEF StoreInv

(* Steps that change entries only: the new ciphers carry the current stamp.*)
LEMMA WriteLemma ==
  ASSUME StoreInv,
         UNCHANGED <<vault, setup, late, codes, tickets, sessions>>,
         entries' \in [Entry -> Cipher \cup {Null}],
         \A e \in Entry : \/ entries'[e] \in {Null, entries[e]}
                          \/ entries'[e].version = vault.version
  PROVE  StoreInv'
  <1>1. StoreTypeOK' /\ StampsCurrent'
    BY DEF StoreInv, StoreTypeOK, StampsCurrent
  <1>2. OpenTickets' = OpenTickets
    BY DEF OpenTickets
  <1>3. OpenTicketFreezesSessions' /\ TicketsBackedByCodes' /\ SetupPhases'
    BY <1>2 DEF StoreInv, OpenTicketFreezesSessions, TicketsBackedByCodes,
                SetupPhases, SessionActive
  <1> QED
    BY <1>1, <1>3 DEF StoreInv

-----------------------------------------------------------------------------
(* One lemma per group of routes.                                          *)

LEMMA SetupLemma ==
  ASSUME StoreInv,
         \/ \E k \in Key : InitializeVault(k)
         \/ \E s \in Session : FinishSetup(s)
         \/ FailSetup
  PROVE  StoreInv'
  <1> USE BoundsAssumption
  <1>1. CASE \E k \in Key : InitializeVault(k)
    <2> PICK k \in Key : InitializeVault(k)
      BY <1>1
    <2>1. StoreTypeOK'
      BY DEF StoreInv, StoreTypeOK, InitializeVault, ReplaceRecoveryCodes, Key
    <2>2. StampsCurrent'
      <3>1. \A e \in Entry : entries[e] = Null
        <4> SUFFICES ASSUME NEW e \in Entry, entries[e] # Null
                     PROVE  FALSE
          OBVIOUS
        <4>1. entries[e] \in Cipher /\ entries[e].version = 0
          BY DEF StoreInv, StoreTypeOK, StampsCurrent, SetupPhases, InitializeVault
        <4> QED
          BY <4>1 DEF Cipher, Version
      <3> QED
        BY <3>1 DEF InitializeVault, StampsCurrent, ReplaceRecoveryCodes
    <2>3. OpenTickets' = {}
      BY DEF InitializeVault, StoreInv, SetupPhases, OpenTickets
    <2> QED
      BY <2>1, <2>2, <2>3 DEF InitializeVault, StoreInv, SetupPhases,
                              OpenTicketFreezesSessions, TicketsBackedByCodes
  <1>2. CASE \E s \in Session : FinishSetup(s)
    <2> PICK s \in Session : FinishSetup(s)
      BY <1>2
    <2>1. UNCHANGED <<vault, entries, codes, tickets>> /\ OpenTickets' = OpenTickets
      BY DEF FinishSetup, OpenTickets
    <2>2. StoreTypeOK' /\ StampsCurrent'
      BY DEF FinishSetup, StoreInv, StoreTypeOK, StampsCurrent, CreateSession,
             SessionStatus
    <2>3. OpenTicketFreezesSessions'
      <3> SUFFICES ASSUME OpenTickets # {}, NEW u \in Session, SessionActive(u)'
                   PROVE  u \in late'
        BY <2>1 DEF OpenTicketFreezesSessions
      <3>1. late' = late \cup {s}
        BY DEF FinishSetup
      <3>2. CASE u = s
        BY <3>1, <3>2
      <3>3. CASE u # s
        <4>1. SessionActive(u)
          BY <3>3 DEF FinishSetup, CreateSession, SessionActive, StoreInv,
                      StoreTypeOK
        <4> QED
          BY <3>1, <4>1 DEF StoreInv, OpenTicketFreezesSessions
      <3> QED
        BY <3>2, <3>3
    <2>4. TicketsBackedByCodes' /\ SetupPhases'
      BY <2>1 DEF FinishSetup, StoreInv, TicketsBackedByCodes, SetupPhases
    <2> QED
      BY <2>2, <2>3, <2>4 DEF StoreInv
  <1>3. CASE FailSetup
    BY <1>3 DEF FailSetup, StoreInv, StoreTypeOK, StampsCurrent, SetupPhases,
                OpenTicketFreezesSessions, TicketsBackedByCodes, OpenTickets,
                SessionActive
  <1> QED
    BY <1>1, <1>2, <1>3

LEMMA LoginLemma ==
  ASSUME StoreInv, NEW k \in Key, NEW old, NEW s \in Session, Login(k, old, s)
  PROVE  StoreInv'
  <1>1. StoreTypeOK
    BY DEF StoreInv
  <1>2. \A t \in Ticket : tickets'[t].status # "open"
    BY <1>1, CloseTicketsLemma DEF Login
  <1>3. StoreTypeOK'
    BY <1>1, CloseTicketsLemma, RevokeOneLemma
    DEF Login, StoreTypeOK, CreateSession, SessionStatus
  <1>4. StampsCurrent'
    BY DEF Login, StoreInv, StampsCurrent
  <1>5. SetupPhases'
    BY <1>2, NoOpenTicket DEF Login, StoreInv, SetupPhases
  <1> QED
    BY <1>2, <1>3, <1>4, <1>5, NoOpenTicket DEF StoreInv

(* Locking, sweeping and cancelling, and the clock.                        *)
LEMMA ClosingLemma ==
  ASSUME StoreInv,
         \/ \E s \in Session : Lock(s) \/ SweepStaleSession(s)
         \/ \E t \in Ticket : CancelRecoveryTicket(t)
         \/ Clock
  PROVE  StoreInv'
  <1>1. StoreTypeOK
    BY DEF StoreInv
  <1>2. CASE \E s \in Session : \/ Lock(s) \/ SweepStaleSession(s)
                               \/ SessionTimesOut(s)
    <2> PICK s \in Session : Lock(s) \/ SweepStaleSession(s) \/ SessionTimesOut(s)
      BY <1>2
    <2>1. sessions' \in [Session -> SessionStatus]
      BY <1>1, RevokeOneLemma
      DEF Lock, SweepStaleSession, SessionTimesOut, StoreTypeOK, SessionStatus
    <2>2. \A u \in Session : sessions'[u] \in {"live", "stale"} => SessionActive(u)
      BY <1>1, RevokeOneLemma
      DEF Lock, SweepStaleSession, SessionTimesOut, StoreTypeOK, SessionActive
    <2>3. UNCHANGED <<vault, setup, late, entries, codes, tickets>>
      BY DEF Lock, SweepStaleSession, SessionTimesOut
    <2> QED
      BY <1>1, <2>1, <2>2, <2>3, CloseLemma DEF StoreTypeOK
  <1>3. CASE \E t \in Ticket : CancelRecoveryTicket(t) \/ TicketExpires(t)
    <2> PICK t \in Ticket : CancelRecoveryTicket(t) \/ TicketExpires(t)
      BY <1>3
    <2>1. /\ UNCHANGED <<vault, setup, late, entries, codes, sessions>>
          /\ tickets' = [tickets EXCEPT ![t].status = "dead"]
      BY DEF CancelRecoveryTicket, TicketExpires
    <2>2. /\ tickets' \in [Ticket -> [status: TicketStatus, code: Code]]
          /\ \A u \in Ticket : tickets'[u].status = "open"
                              => tickets'[u] = tickets[u]
      BY <1>1, <2>1 DEF StoreTypeOK, TicketStatus
    <2>3. \A u \in Session : sessions'[u] \in {"live", "stale"} => SessionActive(u)
      BY <2>1 DEF SessionActive
    <2> QED
      BY <1>1, <2>1, <2>2, <2>3, CloseLemma DEF StoreTypeOK
  <1> QED
    BY <1>2, <1>3 DEF Clock

LEMMA KeyWritesLemma ==
  ASSUME StoreInv, KeyWrites
  PROVE  StoreInv'
  <1>1. StoreTypeOK
    BY DEF StoreInv
  <1> PICK s \in Session, p \in Key :
        \/ \E k \in Key, v \in Version : RegenerateRecoveryCodes(s, p, k, v)
        \/ \E e \in Entry, cipher \in Cipher : CreateKeyEntry(s, p, e, cipher)
        \/ \E batch \in [Entry -> Cipher \cup {Null}] :
             ImportKeyEntries(s, p, batch)
        \/ \E e \in Entry, v \in Version, cipher \in Cipher :
             UpdateKeyEntry(s, p, e, v, cipher)
        \/ \E e \in Entry, v \in Version : DeleteKeyEntry(s, p, e, v)
    BY DEF KeyWrites
  <1>2. CASE \E k \in Key, v \in Version : RegenerateRecoveryCodes(s, p, k, v)
    <2> PICK k \in Key, v \in Version : RegenerateRecoveryCodes(s, p, k, v)
      BY <1>2
    <2>1. \A t \in Ticket : tickets'[t].status # "open"
      BY <1>1, CloseTicketsLemma DEF RegenerateRecoveryCodes
    <2>2. StoreTypeOK'
      BY <1>1, CloseTicketsLemma
      DEF RegenerateRecoveryCodes, StoreTypeOK, ReplaceRecoveryCodes, Key
    <2>3. StampsCurrent' /\ SetupPhases'
      BY <2>1, NoOpenTicket
      DEF RegenerateRecoveryCodes, StoreInv, StampsCurrent, SetupPhases,
          ReplaceRecoveryCodes
    <2> QED
      BY <2>1, <2>2, <2>3, NoOpenTicket DEF StoreInv
  <1>3. CASE \E e \in Entry, cipher \in Cipher :
               \/ CreateKeyEntry(s, p, e, cipher)
               \/ \E v \in Version : UpdateKeyEntry(s, p, e, v, cipher)
    <2> PICK e \in Entry, cipher \in Cipher :
          \/ CreateKeyEntry(s, p, e, cipher)
          \/ \E v \in Version : UpdateKeyEntry(s, p, e, v, cipher)
      BY <1>3
    <2>1. /\ UNCHANGED <<vault, setup, late, codes, tickets, sessions>>
          /\ cipher.version = vault.version
          /\ entries' = [entries EXCEPT ![e] = cipher]
      BY DEF CreateKeyEntry, UpdateKeyEntry
    <2> QED
      BY <1>1, <2>1, WriteLemma DEF StoreTypeOK
  <1>4. CASE \E batch \in [Entry -> Cipher \cup {Null}] :
               ImportKeyEntries(s, p, batch)
    <2> PICK batch \in [Entry -> Cipher \cup {Null}] :
          ImportKeyEntries(s, p, batch)
      BY <1>4
    <2>1. entries' \in [Entry -> Cipher \cup {Null}]
      BY <1>1 DEF ImportKeyEntries, StoreTypeOK
    <2>2. \A e \in Entry : \/ entries'[e] \in {Null, entries[e]}
                           \/ entries'[e].version = vault.version
      BY <1>1 DEF ImportKeyEntries, StoreTypeOK
    <2>3. UNCHANGED <<vault, setup, late, codes, tickets, sessions>>
      BY DEF ImportKeyEntries
    <2> QED
      BY <2>1, <2>2, <2>3, WriteLemma
  <1>5. CASE \E e \in Entry, v \in Version : DeleteKeyEntry(s, p, e, v)
    <2> PICK e \in Entry, v \in Version : DeleteKeyEntry(s, p, e, v)
      BY <1>5
    <2>1. /\ UNCHANGED <<vault, setup, late, codes, tickets, sessions>>
          /\ entries' = [entries EXCEPT ![e] = Null]
      BY DEF DeleteKeyEntry
    <2> QED
      BY <1>1, <2>1, WriteLemma DEF StoreTypeOK
  <1> QED
    BY <1>2, <1>3, <1>4, <1>5

-----------------------------------------------------------------------------
(* The theorems.                                                           *)

LEMMA StepLemma == StoreInv /\ [StoreNext]_storeVars => StoreInv'
  <1> SUFFICES ASSUME StoreInv, [StoreNext]_storeVars
               PROVE  StoreInv'
    OBVIOUS
  <1>1. CASE VaultRoutes
    <2>1. CASE \/ \E k \in Key : InitializeVault(k)
               \/ \E s \in Session : FinishSetup(s)
               \/ FailSetup
      BY <2>1, SetupLemma
    <2>2. CASE \E k \in Key, old \in Session \cup {Null}, s \in Session :
                 Login(k, old, s)
      BY <2>2, LoginLemma
    <2>3. CASE \E c \in Code, t \in Ticket : ClaimRecoveryCode(c, t)
      BY <2>3, ClaimLemma
    <2>4. CASE \/ \E s \in Session : Lock(s) \/ SweepStaleSession(s)
               \/ \E t \in Ticket : CancelRecoveryTicket(t)
      BY <2>4, ClosingLemma
    <2> QED
      BY <1>1, <2>1, <2>2, <2>3, <2>4 DEF VaultRoutes
  <1>2. CASE Rotations
    BY <1>2, RotateLemma
    DEF Rotations, ChangeMasterPassword, ResetVaultFromRecovery, ProofHolds
  <1>3. CASE KeyWrites
    BY <1>3, KeyWritesLemma
  <1>4. CASE Clock
    BY <1>4, ClosingLemma
  <1>5. CASE UNCHANGED storeVars
    BY <1>5 DEF StoreInv, StoreTypeOK, StampsCurrent, SetupPhases, storeVars,
                OpenTicketFreezesSessions, TicketsBackedByCodes, OpenTickets,
                SessionActive
  <1> QED
    BY <1>1, <1>2, <1>3, <1>4, <1>5 DEF StoreNext

(* The strengthened invariant holds whatever clients send.                 *)
THEOREM Invariance == StoreSpec => []StoreInv
  BY InitLemma, StepLemma, PTL DEF StoreSpec

(* Every row keeps its type.                                               *)
THEOREM TypeCorrect == StoreSpec => []StoreTypeOK
  <1>1. StoreInv => StoreTypeOK
    BY DEF StoreInv
  <1> QED
    BY <1>1, Invariance, PTL

(* Every ciphertext and every recovery envelope carries the vault's        *)
(* current key version: no race of a write with a rotation leaves an       *)
(* outdated one behind.                                                    *)
THEOREM StampsStayCurrent == StoreSpec => []StampsCurrent
  <1>1. StoreInv => StampsCurrent
    BY DEF StoreInv
  <1> QED
    BY <1>1, Invariance, PTL

(* While a recovery ticket is open the only session that can pass          *)
(* isSessionActive is one that POST /setup made beside an open ticket.     *)
THEOREM OpenTicketsFreeze == StoreSpec => []OpenTicketFreezesSessions
  <1>1. StoreInv => OpenTicketFreezesSessions
    BY DEF StoreInv
  <1> QED
    BY <1>1, Invariance, PTL

(* Every open ticket was paid for with a used code of its own.             *)
THEOREM TicketsArePaidFor == StoreSpec => []TicketsBackedByCodes
  <1>1. StoreInv => TicketsBackedByCodes
    BY DEF StoreInv
  <1> QED
    BY <1>1, Invariance, PTL

(* No step changes a ciphertext and leaves open a ticket that was open.    *)
THEOREM SnapshotStaysFrozen == StoreSpec => SnapshotFrozen
  <1>1. StoreInv /\ [StoreNext]_storeVars
          => [\A t \in OpenTickets :
                tickets'[t].status = "open" => entries' = entries]_storeVars
    <2> SUFFICES ASSUME StoreInv, StoreNext, NEW t \in OpenTickets,
                        tickets'[t].status = "open"
                 PROVE  entries' = entries
      OBVIOUS
    <2>1. CASE VaultRoutes \/ Clock
      BY <2>1 DEF VaultRoutes, Clock, InitializeVault, FinishSetup, FailSetup,
                  Login, Lock, SweepStaleSession, ClaimRecoveryCode,
                  CancelRecoveryTicket, SessionTimesOut, TicketExpires
    <2>2. CASE Rotations
      <3>1. tickets' = CloseTickets
        BY <2>2 DEF Rotations, ChangeMasterPassword, ResetVaultFromRecovery,
                    RotateVaultMaterial
      <3> QED
        BY <3>1, CloseTicketsLemma DEF StoreInv, OpenTickets
    <2>3. CASE KeyWrites
      BY <2>3 DEF KeyWrites, RegenerateRecoveryCodes, CreateKeyEntry,
                  ImportKeyEntries, UpdateKeyEntry, DeleteKeyEntry,
                  MutationsAllowed
    <2> QED
      BY <2>1, <2>2, <2>3 DEF StoreNext
  <1> QED
    BY <1>1, Invariance, PTL DEF StoreSpec, SnapshotFrozen

(* A rotation revokes every session that was active before it.             *)
THEOREM RotationsEvict == StoreSpec => RotationEvictsSessions
  <1>1. StoreInv /\ [StoreNext]_storeVars
          => [vault.version \notin {0, vault'.version}
                => \A s \in Session :
                     SessionActive(s) => sessions'[s] = "revoked"]_storeVars
    <2> SUFFICES ASSUME StoreInv, StoreNext,
                        vault.version \notin {0, vault'.version},
                        NEW u \in Session, SessionActive(u)
                 PROVE  sessions'[u] = "revoked"
      OBVIOUS
    <2>1. StoreTypeOK
      BY DEF StoreInv
    <2>2. CASE Rotations
      <3> PICK k \in Key, s \in Session,
               submitted \in [Entry -> Reencrypted \cup {Null}] :
            RotateVaultMaterial(k, submitted, s)
        BY <2>2 DEF Rotations, ChangeMasterPassword, ResetVaultFromRecovery
      <3>1. u # s
        BY DEF RotateVaultMaterial, SessionActive
      <3> QED
        BY <2>1, <3>1, RevokeAllLemma DEF RotateVaultMaterial, CreateSession
    <2>3. CASE VaultRoutes
      <3>1. vault' # vault
        OBVIOUS
      <3>2. \E k \in Key : InitializeVault(k)
        BY <2>3, <3>1
        DEF VaultRoutes, FinishSetup, FailSetup, Login, Lock, SweepStaleSession,
            ClaimRecoveryCode, CancelRecoveryTicket
      <3>3. vault.version = 0
        BY <3>2 DEF InitializeVault, StoreInv, SetupPhases
      <3> QED
        BY <3>3
    <2>4. CASE KeyWrites \/ Clock
      BY <2>4 DEF KeyWrites, Clock, RegenerateRecoveryCodes, CreateKeyEntry,
                  ImportKeyEntries, UpdateKeyEntry, DeleteKeyEntry,
                  SessionTimesOut, TicketExpires
    <2> QED
      BY <2>2, <2>3, <2>4 DEF StoreNext
  <1> QED
    BY <1>1, Invariance, PTL DEF StoreSpec, RotationEvictsSessions

-----------------------------------------------------------------------------
(* The tabs and the database                                               *)

Inv == KeyInv /\ StoreInv

-----------------------------------------------------------------------------
(* What every step of the database leaves true.                            *)

(* Versions only grow, a ticket id is never given out twice, and as long   *)
(* as a ticket stays open neither the vault nor an entry changes.          *)
LEMMA ProgressLemma ==
  ASSUME StoreInv, [StoreNext]_storeVars
  PROVE  /\ vault.version <= vault'.version
         /\ setup = "done" => setup' = "done"
         /\ \A t \in Ticket : tickets[t].status # "none"
                                => tickets'[t].status # "none"
         /\ \A t \in Ticket :
              tickets[t].status # "none" /\ tickets'[t].status = "open"
                => /\ tickets[t].status = "open"
                   /\ entries' = entries /\ vault' = vault
  <1>1. StoreTypeOK
    BY DEF StoreInv
  <1>2. CASE VaultRoutes
    <2>1. CASE \E k \in Key : InitializeVault(k)
      <3>1. vault.version = 0 /\ vault'.version = 1 /\ setup = "open"
        BY <2>1 DEF InitializeVault, StoreInv, SetupPhases
      <3>2. tickets' = tickets /\ \A t \in Ticket : tickets[t].status # "open"
        BY <2>1, <3>1 DEF InitializeVault, StoreInv, SetupPhases, OpenTickets
      <3> QED
        BY <3>1, <3>2
    <2>2. CASE \/ \E s \in Session : FinishSetup(s) \/ Lock(s) \/ SweepStaleSession(s)
               \/ FailSetup
      <3>1. UNCHANGED <<vault, entries, tickets>> /\ (setup = "done" => setup' = "done")
        BY <2>2 DEF FinishSetup, FailSetup, Lock, SweepStaleSession
      <3>2. vault.version <= vault'.version
        BY <1>1, <3>1 DEF StoreTypeOK
      <3> QED
        BY <3>1, <3>2
    <2>3. CASE \E k \in Key, old \in Session \cup {Null}, s \in Session :
                 Login(k, old, s)
      BY <1>1, <2>3 DEF Login, CloseTickets, StoreTypeOK
    <2>4. CASE \/ \E c \in Code, t \in Ticket : ClaimRecoveryCode(c, t)
               \/ \E t \in Ticket : CancelRecoveryTicket(t)
      <3>1. UNCHANGED <<vault, setup, late, entries>>
        BY <2>4 DEF ClaimRecoveryCode, CancelRecoveryTicket
      <3>4. ASSUME NEW s \in Ticket, NEW row,
                   tickets' = [tickets EXCEPT ![s] = row],
                   tickets[s].status = "none" \/ row.status = "dead"
            PROVE  \A t \in Ticket :
                     /\ tickets[t].status # "none" => tickets'[t].status # "none"
                     /\ tickets[t].status # "none" /\ tickets'[t].status = "open"
                          => tickets[t].status = "open"
        BY <1>1, <3>4 DEF StoreTypeOK
      <3>5. ASSUME NEW c \in Code, NEW s \in Ticket, ClaimRecoveryCode(c, s)
            PROVE  \A t \in Ticket :
                     /\ tickets[t].status # "none" => tickets'[t].status # "none"
                     /\ tickets[t].status # "none" /\ tickets'[t].status = "open"
                          => tickets[t].status = "open"
        BY <3>4, <3>5 DEF ClaimRecoveryCode
      <3>6. ASSUME NEW s \in Ticket, CancelRecoveryTicket(s)
            PROVE  \A t \in Ticket :
                     /\ tickets[t].status # "none" => tickets'[t].status # "none"
                     /\ tickets[t].status # "none" /\ tickets'[t].status = "open"
                          => tickets[t].status = "open"
        <4>1. [tickets[s] EXCEPT !.status = "dead"].status = "dead"
          BY <1>1 DEF StoreTypeOK
        <4>2. tickets' = [tickets EXCEPT ![s] = [tickets[s] EXCEPT !.status = "dead"]]
          BY <3>6 DEF CancelRecoveryTicket
        <4> QED
          BY <3>4, <4>1, <4>2
      <3>2. \A t \in Ticket :
              /\ tickets[t].status # "none" => tickets'[t].status # "none"
              /\ tickets[t].status # "none" /\ tickets'[t].status = "open"
                   => tickets[t].status = "open"
        BY <2>4, <3>5, <3>6
      <3>3. vault.version <= vault'.version
        BY <1>1, <3>1 DEF StoreTypeOK
      <3> QED
        BY <3>1, <3>2, <3>3
    <2> QED
      BY <1>2, <2>1, <2>2, <2>3, <2>4 DEF VaultRoutes
  <1>3. CASE Rotations
    BY <1>1, <1>3 DEF Rotations, ChangeMasterPassword, ResetVaultFromRecovery,
                      RotateVaultMaterial, CloseTickets, StoreTypeOK
  <1>4. CASE KeyWrites
    <2>1. vault' = vault /\ setup' = setup
      BY <1>4 DEF KeyWrites, RegenerateRecoveryCodes, CreateKeyEntry,
                  ImportKeyEntries, UpdateKeyEntry, DeleteKeyEntry
    <2>2. \/ tickets' = CloseTickets
          \/ tickets' = tickets /\ OpenTickets = {}
      BY <1>4 DEF KeyWrites, RegenerateRecoveryCodes, CreateKeyEntry,
                  ImportKeyEntries, UpdateKeyEntry, DeleteKeyEntry,
                  MutationsAllowed
    <2>3. \A t \in Ticket : tickets'[t].status # "open"
      <3>1. CASE tickets' = CloseTickets
        BY <1>1, <3>1 DEF CloseTickets, StoreTypeOK
      <3>2. CASE tickets' = tickets /\ OpenTickets = {}
        BY <3>2 DEF OpenTickets
      <3> QED
        BY <2>2, <3>1, <3>2
    <2>4. vault.version \in Nat
      BY <1>1 DEF StoreTypeOK
    <2>5. vault.version <= vault'.version
      BY <2>1, <2>4
    <2>6. setup = "done" => setup' = "done"
      BY <2>1
    <2>7. \A t \in Ticket : tickets[t].status # "none"
                              => tickets'[t].status # "none"
      BY <1>1, <2>2 DEF CloseTickets, StoreTypeOK
    <2> QED
      BY <2>3, <2>5, <2>6, <2>7
  <1>5. CASE Clock
    <2>1. UNCHANGED <<vault, setup, late, entries>>
      BY <1>5 DEF Clock, SessionTimesOut, TicketExpires
    <2>2. \A t \in Ticket :
            /\ tickets[t].status # "none" => tickets'[t].status # "none"
            /\ tickets[t].status # "none" /\ tickets'[t].status = "open"
                 => tickets[t].status = "open"
      BY <1>1, <1>5 DEF Clock, SessionTimesOut, TicketExpires, StoreTypeOK,
                        TicketStatus
    <2>3. vault.version <= vault'.version
      BY <1>1, <2>1 DEF StoreTypeOK
    <2> QED
      BY <2>1, <2>2, <2>3
  <1>6. CASE UNCHANGED storeVars
    BY <1>1, <1>6 DEF storeVars, StoreTypeOK
  <1> QED
    BY <1>2, <1>3, <1>4, <1>5, <1>6 DEF StoreNext

(* So what a claim or a pinned key says stays true.                        *)
LEMMA ClaimKept ==
  ASSUME StoreInv, [StoreNext]_storeVars,
         NEW k, NEW t, NEW snap, ClaimOK(k, t, snap)
  PROVE  ClaimOK(k, t, snap)'
  BY ProgressLemma DEF ClaimOK

LEMMA PinKept ==
  ASSUME StoreInv, [StoreNext]_storeVars, NEW x, Pinned(x)
  PROVE  Pinned(x)'
  <1>1. vault.version \in Nat /\ vault'.version \in Nat
    BY StepLemma DEF StoreInv, StoreTypeOK
  <1> QED
    BY <1>1, ProgressLemma DEF Pinned

LEMMA CallKept ==
  ASSUME StoreInv, [StoreNext]_storeVars, NEW c, CallOK(c)
  PROVE  CallOK(c)'
  BY ClaimKept, PinKept DEF CallOK

-----------------------------------------------------------------------------
(* Every step is a step of the database, or none of its business.          *)

(* What a rotation submits is well formed.                                 *)
LEMMA ReencryptLemma ==
  ASSUME Inv, NEW snap \in Snapshot, IvsLeft(snap), vault.version < MaxVersion
  PROVE  /\ Reencrypt(snap) \in [Entry -> Reencrypted \cup {Null}]
         /\ FreshKey \in Key
         /\ DrawFor(snap) \in [Entry -> Nat]
  <1>1. vault.key = vault.version /\ vault.version \in Nat
    BY DEF Inv, KeyInv, VaultOK, StoreInv, StoreTypeOK
  <1>2. FreshKey \in Key
    BY <1>1, BoundsAssumption DEF FreshKey, Key
  <1>3. ASSUME NEW e \in Entry
        PROVE  /\ Reencrypt(snap)[e] \in Reencrypted \cup {Null}
               /\ DrawFor(snap)[e] \in Nat
    <2>1. drawn[e] \in Nat /\ NextIv(e) \in Nat \ {0}
      BY DEF Inv, KeyInv, TypeOK, NextIv
    <2>2. CASE snap[e] = Null
      BY <2>1, <2>2 DEF Reencrypt, DrawFor
    <2>3. CASE snap[e] # Null
      <3>1. snap[e] \in Cipher
        BY <2>3 DEF Snapshot
      <3>2. NextIv(e) \in Iv
        BY <2>1, <2>3, BoundsAssumption DEF IvsLeft, Iv
      <3>3. Reencrypt(snap)[e] = [baseIv |-> snap[e].iv, key |-> FreshKey,
                                  iv |-> NextIv(e), value |-> snap[e].value]
        BY <2>3 DEF Reencrypt
      <3> QED
        BY <1>2, <2>1, <2>3, <3>1, <3>2, <3>3 DEF Cipher, Reencrypted, DrawFor
    <2> QED
      BY <2>2, <2>3
  <1>4. /\ Reencrypt(snap) = [e \in Entry |-> Reencrypt(snap)[e]]
        /\ DrawFor(snap) = [e \in Entry |-> DrawFor(snap)[e]]
    BY DEF Reencrypt, DrawFor
  <1> QED
    BY <1>2, <1>3, <1>4

(* A proof that verifies was made with a key in range.                     *)
LEMMA ProofKeyLemma ==
  ASSUME Inv, NEW k, ProofHolds(k)
  PROVE  k \in Key
  BY BoundsAssumption
  DEF Inv, KeyInv, VaultOK, StoreInv, StoreTypeOK, ProofHolds, Initialized, Key

LEMMA PinnedRange ==
  ASSUME Inv, NEW x, Pinned(x)
  PROVE  x.key \in Key /\ x.version \in Version
  BY BoundsAssumption
  DEF Inv, KeyInv, VaultOK, StoreInv, StoreTypeOK, Pinned, Key, Version

LEMMA CipherLemma ==
  ASSUME Inv, NEW c \in calls, c.kind \in {"create", "update"}, NextIv(c.entry) <= MaxIv
  PROVE  CipherOf(c) \in Cipher /\ c.entry \in Entry
  <1>1. c.entry \in Entry /\ c.value \in Value /\ Pinned(c)
    BY DEF Inv, KeyInv, CallOK, Writes
  <1>2. c.key \in Key /\ c.version \in Version
    BY <1>1, PinnedRange
  <1>3. NextIv(c.entry) \in Iv
    BY <1>1, BoundsAssumption DEF Inv, KeyInv, TypeOK, NextIv, Iv
  <1> QED
    BY <1>1, <1>2, <1>3 DEF CipherOf, Cipher

LEMMA HandleSteps ==
  ASSUME Inv, NEW c \in calls,
         \/ HandleReset(c) \/ HandleChange(c) \/ HandleRegenerate(c)
         \/ HandleWrite(c)
  PROVE  [StoreNext]_storeVars
  <1>1. c \in Call /\ CallOK(c)
    BY DEF Inv, KeyInv, TypeOK
  <1>2. c.snap \in Snapshot
    BY <1>1 DEF Call
  <1>3. CASE HandleReset(c)
    <2>1. CASE \E s \in Session :
                 /\ IvsLeft(c.snap)
                 /\ ResetVaultFromRecovery(c.ticket, c.proof, FreshKey,
                                           Reencrypt(c.snap), s)
      <3> PICK s \in Session :
                 /\ IvsLeft(c.snap)
                 /\ ResetVaultFromRecovery(c.ticket, c.proof, FreshKey,
                                           Reencrypt(c.snap), s)
        BY <2>1
      <3>1. c.proof \in Key
        BY ProofKeyLemma DEF ResetVaultFromRecovery
      <3>2. c.ticket \in Ticket
        BY <1>1, <1>3 DEF HandleReset, CallOK, ClaimOK
      <3>3. vault.version < MaxVersion
        BY DEF ResetVaultFromRecovery, RotateVaultMaterial
      <3> QED
        BY <1>2, <3>1, <3>2, <3>3, ReencryptLemma DEF StoreNext, Rotations
    <2>2. CASE UNCHANGED storeVars
      BY <2>2
    <2> QED
      BY <1>3, <2>1, <2>2 DEF HandleReset, RefuseCall
  <1>4. CASE HandleChange(c)
    <2>1. CASE \E s \in Session :
                 /\ IvsLeft(c.snap)
                 /\ ChangeMasterPassword(c.proof, FreshKey, Reencrypt(c.snap), s)
      <3> PICK s \in Session :
                 /\ IvsLeft(c.snap)
                 /\ ChangeMasterPassword(c.proof, FreshKey, Reencrypt(c.snap), s)
        BY <2>1
      <3>1. c.proof \in Key
        BY ProofKeyLemma DEF ChangeMasterPassword
      <3>2. vault.version < MaxVersion
        BY DEF ChangeMasterPassword, RotateVaultMaterial
      <3> QED
        BY <1>2, <3>1, <3>2, ReencryptLemma DEF StoreNext, Rotations
    <2>2. CASE UNCHANGED storeVars
      BY <2>2
    <2> QED
      BY <1>4, <2>1, <2>2 DEF HandleChange, RefuseCall
  <1>5. CASE HandleRegenerate(c)
    <2>1. CASE RegenerateRecoveryCodes(c.session, c.proof, c.key, c.version)
      <3>1. c.proof \in Key
        BY <2>1, ProofKeyLemma DEF RegenerateRecoveryCodes
      <3>2. c.session \in Session /\ Pinned(c)
        BY <1>1, <1>5 DEF HandleRegenerate, CallOK
      <3>3. c.key \in Key /\ c.version \in Version
        BY <3>2, PinnedRange
      <3> QED
        BY <2>1, <3>1, <3>2, <3>3 DEF StoreNext, KeyWrites
    <2>2. CASE UNCHANGED storeVars
      BY <2>2
    <2> QED
      BY <1>5, <2>1, <2>2 DEF HandleRegenerate, RefuseCall
  <1>6. CASE HandleWrite(c)
    <2>1. c.session \in Session /\ c.kind \in Writes /\ c.entry \in Entry
          /\ c.version \in Version
      BY <1>1, <1>6, PinnedRange DEF HandleWrite, CallOK, Writes
    <2>2. CASE /\ \/ CreateKeyEntry(c.session, c.proof, c.entry, CipherOf(c))
                  \/ UpdateKeyEntry(c.session, c.proof, c.entry, c.version,
                                    CipherOf(c))
               /\ c.kind \in {"create", "update"}
               /\ NextIv(c.entry) <= MaxIv
      <3>1. c.proof \in Key
        BY <2>2, ProofKeyLemma DEF CreateKeyEntry, UpdateKeyEntry
      <3> QED
        BY <2>1, <2>2, <3>1, CipherLemma DEF StoreNext, KeyWrites
    <2>3. CASE DeleteKeyEntry(c.session, c.proof, c.entry, c.version)
      <3>1. c.proof \in Key
        BY <2>3, ProofKeyLemma DEF DeleteKeyEntry
      <3> QED
        BY <2>1, <2>3, <3>1 DEF StoreNext, KeyWrites
    <2> QED
      BY <1>6, <2>2, <2>3 DEF HandleWrite
  <1> QED
    BY <1>3, <1>4, <1>5, <1>6

LEMMA AnswerSteps ==
  ASSUME Inv, NEW c \in calls,
         \/ TurnAway(c) \/ HandleSetup(c) \/ ResumeSetup(c) \/ HandleLogin(c)
         \/ HandleLock(c) \/ HandleClaim(c)
  PROVE  [StoreNext]_storeVars
  <1>1. c \in Call /\ CallOK(c)
    BY DEF Inv, KeyInv, TypeOK
  <1>2. c.session \in Session \cup {Null}
    BY <1>1 DEF Call
  <1>3. CASE TurnAway(c)
    BY <1>3 DEF TurnAway, SweepStaleSession, StoreNext, VaultRoutes
  <1>4. CASE HandleSetup(c)
    <2>1. CASE InitializeVault(FreshKey)
      <3>1. FreshKey \in Key
        BY <2>1, BoundsAssumption
        DEF InitializeVault, Inv, KeyInv, VaultOK, StoreInv, SetupPhases,
            FreshKey, Key
      <3> QED
        BY <2>1, <3>1 DEF StoreNext, VaultRoutes
    <2> QED
      BY <1>4, <2>1 DEF HandleSetup
  <1>5. CASE ResumeSetup(c)
    BY <1>5 DEF ResumeSetup, StoreNext, VaultRoutes
  <1>6. CASE HandleLogin(c)
    <2>1. CASE \E s \in Session : Login(c.proof, c.session, s)
      <3>1. c.proof \in Key
        BY <2>1, ProofKeyLemma DEF Login
      <3> QED
        BY <1>2, <2>1, <3>1 DEF StoreNext, VaultRoutes
    <2> QED
      BY <1>6, <2>1 DEF HandleLogin
  <1>7. CASE HandleLock(c)
    BY <1>7 DEF HandleLock, Lock, SessionActive, StoreNext, VaultRoutes
  <1>8. CASE HandleClaim(c)
    <2>1. c.code \in Code
      BY <1>1, <1>8 DEF HandleClaim, CallOK
    <2> QED
      BY <1>8, <2>1 DEF HandleClaim, StoreNext, VaultRoutes
  <1> QED
    BY <1>3, <1>4, <1>5, <1>6, <1>7, <1>8

LEMMA TabSteps ==
  ASSUME Inv, NEW t \in Tab, TabStep(t)
  PROVE  [StoreNext]_storeVars
  <1>1. CASE CancelRecovery(t)
    <2>1. held[t].ticket \in Ticket
      BY <1>1 DEF CancelRecovery, Inv, KeyInv, HeldOK, ClaimOK
    <2> QED
      BY <1>1, <2>1 DEF CancelRecovery, StoreNext, VaultRoutes
  <1>2. CASE ~CancelRecovery(t)
    BY <1>2 DEF TabStep, StartSetup, StartUnlock, StartChange, StartRegenerate,
                StartReset, StartPoll, StartWrite, StartClaim, UserLocks,
                ReceiveLockBroadcast, Reload
  <1> QED
    BY <1>1, <1>2

LEMMA StoreStepLemma == Inv /\ [Next]_vars => [StoreNext]_storeVars
  <1> SUFFICES ASSUME Inv, [Next]_vars
               PROVE  [StoreNext]_storeVars
    OBVIOUS
  <1>1. ASSUME NEW c \in calls, CallStep(c) \/ ServerStep(c) \/ AnswerStep(c)
        PROVE  [StoreNext]_storeVars
    <2>1. CASE \/ HandleReset(c) \/ HandleChange(c) \/ HandleRegenerate(c)
               \/ HandleWrite(c)
      BY <2>1, HandleSteps
    <2>2. CASE \/ TurnAway(c) \/ HandleSetup(c) \/ ResumeSetup(c)
               \/ HandleLogin(c) \/ HandleLock(c) \/ HandleClaim(c)
      BY <2>2, AnswerSteps
    <2>3. CASE \/ CallStep(c) \/ AnswerStep(c)
               \/ Authorize(c) \/ AnswerPoll(c) \/ RefuseWrite(c)
      BY <2>3 DEF CallStep, ListForChange, SendCall, LoseCall, AnswerStep,
                  InstallKey, FinishReset, HoldClaim, FinishCall, LockLocal,
                  ApplyUnauthorized, FinishLock, Authorize, AnswerPoll,
                  RefuseWrite
    <2> QED
      BY <1>1, <2>1, <2>2, <2>3 DEF ServerStep
  <1>2. CASE \E t \in Tab : TabStep(t)
    BY <1>2, TabSteps
  <1>3. CASE Clock /\ UNCHANGED clientVars
    BY <1>3 DEF StoreNext
  <1>4. CASE UNCHANGED vars
    BY <1>4 DEF vars
  <1> QED
    BY <1>1, <1>2, <1>3, <1>4 DEF Next

-----------------------------------------------------------------------------
(* KeyInv is preserved: what a step has to show of the client's state.     *)

TabKey == [key: Nat, version: Nat]

(* A key that changes is cleared, or comes pinned to its version.          *)
KeysStep ==
  /\ keys' \in [Tab -> TabKey]
  /\ \A t \in Tab, k \in TabKey :
       k = keys'[t] => k = keys[t] \/ k = NoKey \/ Pinned(k)'

HeldStep ==
  /\ held' \in [Tab -> HeldClaim \cup {Null}]
  /\ \A t \in Tab, h \in HeldClaim :
       h = held'[t] => h = held[t] \/ ClaimOK(h.key, h.ticket, h.snap)'

CallsStep == \A d \in calls' : d \in calls \/ (d \in Call /\ CallOK(d)')

RestStep ==
  /\ jar' \in [Browser -> Session \cup {Null}]
  /\ notified' \subseteq Tab
  /\ drawn' \in [Entry -> Nat]

LEMMA Assemble ==
  ASSUME Inv, [Next]_vars, VaultOK', SetupOK',
         KeysStep, HeldStep, CallsStep, RestStep
  PROVE  Inv'
  <1>1. [StoreNext]_storeVars
    BY StoreStepLemma
  <1>2. StoreInv /\ StoreInv'
    BY <1>1, StepLemma DEF Inv
  <1>3. calls' \subseteq Call /\ \A c \in calls' : CallOK(c)'
    BY <1>1, <1>2, CallKept DEF CallsStep, Inv, KeyInv, TypeOK
  <1>4. KeysOK'
    <2> SUFFICES ASSUME NEW t \in Tab
                 PROVE  keys'[t] = NoKey \/ Pinned(keys[t])'
      BY DEF KeysOK
    <2>1. PICK k \in TabKey : k = keys'[t]
      BY DEF KeysStep
    <2>2. CASE k = keys[t] /\ k # NoKey
      <3>1. Pinned(k)
        BY <2>2 DEF Inv, KeyInv, KeysOK
      <3>2. Pinned(k)'
        BY <1>1, <1>2, <3>1, PinKept
      <3> QED
        BY <2>1, <3>2 DEF Pinned
    <2>3. CASE Pinned(k)'
      BY <2>1, <2>3 DEF Pinned
    <2> QED
      BY <2>1, <2>2, <2>3 DEF KeysStep
  <1>5. HeldOK'
    <2> SUFFICES ASSUME NEW t \in Tab, held'[t] # Null
                 PROVE  ClaimOK(held[t].key, held[t].ticket, held[t].snap)'
      BY DEF HeldOK
    <2>1. PICK h \in HeldClaim : h = held'[t]
      BY DEF HeldStep
    <2>2. ClaimOK(h.key, h.ticket, h.snap)'
      <3>1. CASE h = held[t]
        <4>1. ClaimOK(h.key, h.ticket, h.snap)
          BY <2>1, <3>1 DEF Inv, KeyInv, HeldOK
        <4> QED
          BY <1>1, <1>2, <4>1, ClaimKept
      <3> QED
        BY <2>1, <3>1 DEF HeldStep
    <2> QED
      BY <2>1, <2>2 DEF ClaimOK
  <1>6. TypeOK'
    BY <1>2, <1>3 DEF StoreInv, TypeOK, KeysStep, HeldStep, RestStep, TabKey
  <1> QED
    BY <1>2, <1>3, <1>4, <1>5, <1>6 DEF Inv, KeyInv

(* Calls that are taken out, or told that they are superseded, stay in     *)
(* order.                                                                  *)
LEMMA SupersedeLemma ==
  ASSUME Inv, [StoreNext]_storeVars, NEW t,
         NEW set, \A c \in set : c \in calls \/ (c \in Call /\ CallOK(c)')
  PROVE  \A d \in Supersede(t, set) : d \in Call /\ CallOK(d)'
  <1> SUFFICES ASSUME NEW c \in set
               PROVE  /\ c \in Call /\ CallOK(c)'
                      /\ [c EXCEPT !.current = FALSE] \in Call
                      /\ CallOK([c EXCEPT !.current = FALSE])'
    BY DEF Supersede
  <1>1. c \in Call /\ CallOK(c)'
    BY CallKept DEF Inv, KeyInv, TypeOK
  <1>2. [c EXCEPT !.current = FALSE] \in Call
    BY <1>1 DEF Call
  <1>3. CallOK([c EXCEPT !.current = FALSE])'
    BY <1>1 DEF Call, CallOK, Pinned, ClaimOK
  <1> QED
    BY <1>1, <1>2, <1>3

(* Once POST /setup is over it stays over.                                 *)
LEMMA SetupKept ==
  ASSUME Inv, [StoreNext]_storeVars, setup = "done"
  PROVE  SetupOK'
  BY ProgressLemma DEF Inv, SetupOK

LEMMA NewCallLemma ==
  ASSUME NEW t \in Tab, NEW kind \in Kinds, NEW phase \in Phases
  PROVE  NewCall(t, kind, phase) \in Call
  BY DEF NewCall, Call, NoSnapshot, Snapshot

-----------------------------------------------------------------------------
(* ... and that each action shows it.                                      *)

Good == VaultOK' /\ SetupOK' /\ KeysStep /\ HeldStep /\ CallsStep /\ RestStep

(* State that does not change stays in order.                              *)
LEMMA SameLemma ==
  ASSUME Inv
  PROVE  /\ keys' = keys => KeysStep
         /\ held' = held => HeldStep
         /\ calls' \subseteq calls => CallsStep
         /\ UNCHANGED <<jar, notified, drawn>> => RestStep
         /\ UNCHANGED <<vault, entries, codes>> => VaultOK'
  <1>1. keys' = keys => KeysStep
    BY DEF Inv, KeyInv, TypeOK, KeysStep, TabKey
  <1>2. held' = held => HeldStep
    BY DEF Inv, KeyInv, TypeOK, HeldStep
  <1>3. calls' \subseteq calls => CallsStep
    BY DEF CallsStep
  <1>4. UNCHANGED <<jar, notified, drawn>> => RestStep
    BY DEF Inv, KeyInv, TypeOK, RestStep
  <1>5. UNCHANGED <<vault, entries, codes>> => VaultOK'
    BY DEF Inv, KeyInv, VaultOK
  <1> QED
    BY <1>1, <1>2, <1>3, <1>4, <1>5

(* Nothing but a setup happens before POST /setup is over.                 *)
LEMMA DoneLemma ==
  ASSUME Inv
  PROVE  /\ \A c \in calls :
              c.kind # "setup" \/ c.phase = "answered" => setup = "done"
         /\ \A t \in Tab : HasKey(t) \/ held[t] # Null => setup = "done"
  BY DEF Inv, KeyInv, SetupOK, HasKey, NoKey

(* A step that only adds a call, once setup is over.                       *)
LEMMA StartLemma ==
  ASSUME Inv, setup = "done", UNCHANGED <<storeVars, keys, jar, notified, drawn>>,
         HeldStep, CallsStep
  PROVE  Good
  <1>1. SetupOK'
    BY SetupKept DEF storeVars
  <1> QED
    BY <1>1, SameLemma DEF Good, storeVars

(* A step that clears the key of a tab, once setup is over.                *)
LEMMA ClearLemma ==
  ASSUME Inv, NEW t \in Tab, UNCHANGED <<storeVars, drawn>>, setup = "done",
         keys' = [keys EXCEPT ![t] = NoKey], held' = [held EXCEPT ![t] = Null],
         notified' \subseteq Tab, jar' \in [Browser -> Session \cup {Null}],
         CallsStep
  PROVE  Good
  <1>1. SetupOK'
    BY SetupKept DEF storeVars
  <1>2. KeysStep
    BY DEF KeysStep, Inv, KeyInv, TypeOK, TabKey, NoKey
  <1>3. HeldStep
    <2>1. held' \in [Tab -> HeldClaim \cup {Null}]
      BY DEF Inv, KeyInv, TypeOK
    <2>2. ASSUME NEW u \in Tab, NEW h \in HeldClaim, h = held'[u]
          PROVE  h = held[u]
      BY <2>2, HeldAssumption DEF Inv, KeyInv, TypeOK
    <2> QED
      BY <2>1, <2>2 DEF HeldStep
  <1>4. RestStep
    BY DEF RestStep, Inv, KeyInv, TypeOK
  <1> QED
    BY <1>1, <1>2, <1>3, <1>4, SameLemma DEF Good, storeVars

(* The tabs start operations.                                              *)
LEMMA StartSetupLemma ==
  ASSUME Inv, NEW t \in Tab, StartSetup(t)
  PROVE  Good
  <1> DEFINE d == NewCall(t, "setup", "sent")
  <1>1. d \in Call
    BY NewCallLemma DEF Kinds, Phases
  <1>2. d.kind = "setup" /\ d.phase = "sent"
    BY DEF NewCall
  <1>3. CallOK(d)'
    BY <1>2 DEF CallOK, Writes, Installs
  <1>4. CallsStep
    BY <1>1, <1>3 DEF CallsStep, StartSetup
  <1>5. SetupOK'
    BY <1>2 DEF Inv, KeyInv, SetupOK, StartSetup, storeVars
  <1> QED
    BY <1>4, <1>5, SameLemma DEF Good, StartSetup, storeVars

LEMMA StartWriteLemma ==
  ASSUME Inv, NEW t \in Tab, NEW kind \in Writes, NEW e \in Entry,
         NEW v \in Value, StartWrite(t, kind, e, v)
  PROVE  Good
  <1> PICK d : d = [NewCall(t, kind, "local") EXCEPT
                     !.key = keys[t].key, !.version = keys[t].version,
                     !.entry = e,
                     !.value = IF kind = "delete" THEN Null ELSE v]
    OBVIOUS
  <1>1. keys[t] \in TabKey /\ Pinned(keys[t]) /\ setup = "done"
    BY DoneLemma DEF Inv, KeyInv, TypeOK, KeysOK, StartWrite, HasKey, NoKey,
                     TabKey
  <1>2. /\ d.kind = kind /\ d.phase = "local" /\ d.entry = e
        /\ kind # "delete" => d.value = v
        /\ d.key = keys[t].key /\ d.version = keys[t].version
    BY DEF NewCall
  <1>3. d \in Call
    BY <1>1 DEF NewCall, Call, TabKey, NoSnapshot, Snapshot, Kinds, Phases
  <1>4. CallOK(d)'
    BY <1>1, <1>2 DEF CallOK, Pinned, Writes, Installs, StartWrite, storeVars
  <1>5. CallsStep
    BY <1>3, <1>4 DEF CallsStep, StartWrite
  <1> QED
    BY <1>1, <1>5, StartLemma, SameLemma DEF StartWrite

(* A key that is derived afresh is the one of the last status.             *)
LEMMA StartDerivingLemma ==
  ASSUME Inv, ~UnlockDuringSetup, NEW t \in Tab,
         StartUnlock(t) \/ StartChange(t) \/ StartRegenerate(t) \/ StartPoll(t)
  PROVE  Good
  <1>1. setup = "done" /\ vault.key \in Nat /\ vault.version \in Nat
    BY DoneLemma DEF StartUnlock, StartChange, StartRegenerate, StartPoll,
                     Inv, StoreInv, StoreTypeOK
  <1>2. UNCHANGED <<storeVars, keys, jar, held, notified, drawn>>
    BY DEF StartUnlock, StartChange, StartRegenerate, StartPoll
  <1>3. CASE StartUnlock(t) \/ StartChange(t)
    <2> PICK kind \in {"unlock", "change"} :
             calls' = calls \cup {[NewCall(t, kind, "local") EXCEPT
                                     !.key = vault.key]}
      BY <1>3 DEF StartUnlock, StartChange
    <2> PICK d : d = [NewCall(t, kind, "local") EXCEPT !.key = vault.key]
      OBVIOUS
    <2>1. d.kind = kind /\ d.phase = "local"
      BY DEF NewCall
    <2>2. d \in Call
      BY <1>1 DEF NewCall, Call, NoSnapshot, Snapshot, Kinds, Phases
    <2>3. CallOK(d)'
      BY <2>1 DEF CallOK, Writes, Installs
    <2> QED
      BY <1>1, <1>2, <2>2, <2>3, StartLemma, SameLemma DEF CallsStep
  <1>4. CASE StartRegenerate(t)
    <2> PICK d : d = [NewCall(t, "regen", "local") EXCEPT
                       !.key = vault.key, !.version = vault.version]
      OBVIOUS
    <2>1. /\ d.kind = "regen" /\ d.phase = "local"
          /\ d.key = vault.key /\ d.version = vault.version
      BY DEF NewCall
    <2>2. d \in Call
      BY <1>1 DEF NewCall, Call, NoSnapshot, Snapshot, Kinds, Phases
    <2>3. Pinned(keys[t])
      BY <1>4 DEF StartRegenerate, HasKey, NoKey, Inv, KeyInv, KeysOK
    <2>4. Pinned(d)
      BY <1>1, <2>1, <2>3 DEF Pinned, Inv, KeyInv, VaultOK
    <2>5. CallOK(d)'
      BY <1>2, <2>1, <2>4 DEF CallOK, Pinned, Writes, Installs, storeVars
    <2> QED
      BY <1>1, <1>2, <1>4, <2>2, <2>5, StartLemma, SameLemma
      DEF CallsStep, StartRegenerate
  <1>5. CASE StartPoll(t)
    <2> PICK d : d = [NewCall(t, "poll", "sent") EXCEPT !.session = Cookie(t)]
      OBVIOUS
    <2>1. d.kind = "poll" /\ d.phase = "sent"
      BY DEF NewCall
    <2>2. Cookie(t) \in Session \cup {Null}
      BY BrowserAssumption DEF Cookie, Inv, KeyInv, TypeOK
    <2>3. d \in Call
      BY <2>2 DEF NewCall, Call, NoSnapshot, Snapshot, Kinds, Phases
    <2>4. CallOK(d)'
      BY <2>1 DEF CallOK, Writes, Installs
    <2> QED
      BY <1>1, <1>2, <1>5, <2>3, <2>4, StartLemma, SameLemma
      DEF CallsStep, StartPoll
  <1> QED
    BY <1>3, <1>4, <1>5

LEMMA StartClaimLemma ==
  ASSUME Inv, ~UnlockDuringSetup, NEW t \in Tab, NEW r \in Code,
         StartClaim(t, r)
  PROVE  Good
  <1> PICK d : d = [NewCall(t, "claim", "sent") EXCEPT !.code = r]
    OBVIOUS
  <1>1. d.kind = "claim" /\ d.phase = "sent" /\ d.code = r
    BY DEF NewCall
  <1>2. d \in Call
    BY DEF NewCall, Call, NoSnapshot, Snapshot, Kinds, Phases
  <1>3. CallOK(d)'
    BY <1>1 DEF CallOK, Writes, Installs
  <1>4. \A c \in Supersede(t, calls) : c \in Call /\ CallOK(c)'
    BY SupersedeLemma DEF StartClaim
  <1>5. CallsStep
    BY <1>2, <1>3, <1>4 DEF CallsStep, StartClaim
  <1>6. HeldStep
    BY HeldAssumption DEF HeldStep, StartClaim, Inv, KeyInv, TypeOK
  <1>7. setup = "done"
    BY DEF StartClaim
  <1> QED
    BY <1>5, <1>6, <1>7, StartLemma DEF StartClaim

LEMMA StartResetLemma ==
  ASSUME Inv, NEW t \in Tab, StartReset(t)
  PROVE  Good
  <1> PICK d : d = [NewCall(t, "reset", "sent") EXCEPT
                     !.proof = held[t].key, !.ticket = held[t].ticket,
                     !.snap = held[t].snap]
    OBVIOUS
  <1>1. /\ d.kind = "reset" /\ d.phase = "sent" /\ d.proof = held[t].key
        /\ d.ticket = held[t].ticket /\ d.snap = held[t].snap
    BY DEF NewCall
  <1>2. /\ held[t] \in HeldClaim
        /\ ClaimOK(held[t].key, held[t].ticket, held[t].snap)
    BY DEF StartReset, Inv, KeyInv, TypeOK, HeldOK
  <1>3. d \in Call
    BY <1>2 DEF NewCall, Call, NoSnapshot, Snapshot, HeldClaim, Kinds, Phases
  <1>4. CallOK(d)'
    BY <1>1, <1>2 DEF CallOK, ClaimOK, Writes, Installs, StartReset, storeVars
  <1>5. CallsStep
    BY <1>3, <1>4 DEF CallsStep, StartReset
  <1>6. HeldStep
    BY HeldAssumption DEF HeldStep, StartReset, Inv, KeyInv, TypeOK
  <1> QED
    BY <1>5, <1>6, StartLemma, DoneLemma DEF StartReset

-----------------------------------------------------------------------------
(* The tabs lock, reload and give up.                                      *)

(* What lock does, from whatever calls remain.                             *)
LEMMA LockTabLemma ==
  ASSUME Inv, setup = "done", NEW t \in Tab, NEW set \in SUBSET calls,
         LockTab(t, set), UNCHANGED <<storeVars, drawn>>,
         jar' \in [Browser -> Session \cup {Null}]
  PROVE  Good
  <1> PICK d : d = [NewCall(t, "lock", "sent") EXCEPT !.session = Cookie(t)]
    OBVIOUS
  <1>1. d.kind = "lock" /\ d.phase = "sent"
    BY DEF NewCall
  <1>2. Cookie(t) \in Session \cup {Null}
    BY BrowserAssumption DEF Cookie, Inv, KeyInv, TypeOK
  <1>3. d \in Call
    BY <1>2 DEF NewCall, Call, NoSnapshot, Snapshot, Kinds, Phases
  <1>4. CallOK(d)'
    BY <1>1 DEF CallOK, Writes, Installs
  <1>5. \A c \in set \cup {d} : c \in calls \/ (c \in Call /\ CallOK(c)')
    BY <1>3, <1>4
  <1>6. \A c \in Supersede(t, set \cup {d}) : c \in Call /\ CallOK(c)'
    BY <1>5, SupersedeLemma
  <1>7. CallsStep
    BY <1>6 DEF CallsStep, LockTab, ClearKey
  <1>8. notified' \subseteq Tab
    BY DEF LockTab, Siblings, Inv, KeyInv, TypeOK
  <1> QED
    BY <1>7, <1>8, ClearLemma DEF LockTab, ClearKey

LEMMA LocksLemma ==
  ASSUME Inv, NEW t \in Tab,
         UserLocks(t) \/ ReceiveLockBroadcast(t) \/ Reload(t)
  PROVE  Good
  <1>1. jar \in [Browser -> Session \cup {Null}] /\ notified \subseteq Tab
    BY DEF Inv, KeyInv, TypeOK
  <1>2. CASE UserLocks(t)
    BY <1>1, <1>2, DoneLemma, LockTabLemma DEF UserLocks
  <1>3. CASE ReceiveLockBroadcast(t)
    <2>1. CallsStep
      BY <1>3, SupersedeLemma
      DEF CallsStep, ReceiveLockBroadcast, ClearKey
    <2>2. CASE setup = "done"
      BY <1>1, <1>3, <2>1, <2>2, ClearLemma DEF ReceiveLockBroadcast, ClearKey
    <2>3. CASE setup # "done"
      <3>1. keys' = keys /\ held' = held
        BY <1>3, <2>3 DEF ReceiveLockBroadcast, ClearKey, Inv, KeyInv, TypeOK,
                          SetupOK
      <3>2. \A c \in Supersede(t, calls) : c.kind = "setup" /\ c.phase # "answered"
        BY <2>3 DEF Supersede, Inv, KeyInv, SetupOK
      <3>3. SetupOK'
        BY <1>3, <3>1, <3>2 DEF ReceiveLockBroadcast, ClearKey, Inv, KeyInv,
                                SetupOK, storeVars
      <3>4. RestStep
        BY <1>1, <1>3 DEF ReceiveLockBroadcast, RestStep, Inv, KeyInv, TypeOK
      <3> QED
        BY <1>3, <2>1, <3>1, <3>3, <3>4, SameLemma
        DEF Good, ReceiveLockBroadcast, storeVars
    <2> QED
      BY <2>2, <2>3
  <1>4. CASE Reload(t)
    <2>1. ASSUME NEW c \in calls
          PROVE  [c EXCEPT !.tab = Null] \in Call /\ CallOK([c EXCEPT !.tab = Null])'
      <3>1. c \in Call /\ CallOK(c)'
        BY <1>4, CallKept DEF Inv, KeyInv, TypeOK, Reload
      <3>2. [c EXCEPT !.tab = Null] \in Call
        BY <3>1 DEF Call
      <3>3. CallOK([c EXCEPT !.tab = Null])'
        BY <3>1 DEF Call, CallOK, Pinned, ClaimOK
      <3> QED
        BY <3>2, <3>3
    <2>2. CallsStep
      BY <1>4, <2>1 DEF CallsStep, Reload
    <2>3. CASE setup = "done"
      BY <1>1, <1>4, <2>2, <2>3, ClearLemma DEF Reload
    <2>4. CASE setup # "done"
      <3>1. keys' = keys /\ held' = held
        BY <1>4, <2>4 DEF Reload, Inv, KeyInv, TypeOK, SetupOK
      <3>2. \A c \in calls' : c.kind = "setup" /\ c.phase # "answered"
        <4>1. \A c \in calls : c \in Call /\ c.kind = "setup" /\ c.phase # "answered"
          BY <2>4 DEF Inv, KeyInv, TypeOK, SetupOK
        <4> QED
          BY <1>4, <4>1 DEF Reload, Call
      <3>3. SetupOK'
        BY <1>4, <3>1, <3>2 DEF Reload, Inv, KeyInv, SetupOK, storeVars
      <3>4. RestStep
        BY <1>1, <1>4 DEF Reload, RestStep, Inv, KeyInv, TypeOK
      <3> QED
        BY <1>4, <2>2, <3>1, <3>3, <3>4, SameLemma DEF Good, Reload, storeVars
    <2> QED
      BY <2>3, <2>4
  <1> QED
    BY <1>2, <1>3, <1>4

LEMMA CancelLemma ==
  ASSUME Inv, NEW t \in Tab, CancelRecovery(t)
  PROVE  Good
  <1>1. HeldStep
    <2>1. CASE held' = held
      BY <2>1, SameLemma
    <2>2. CASE held' = [held EXCEPT ![t] = Null]
      BY <2>2, HeldAssumption DEF HeldStep, Inv, KeyInv, TypeOK
    <2> QED
      BY <2>1, <2>2 DEF CancelRecovery
  <1>2. setup = "done" /\ [StoreNext]_storeVars
    BY DoneLemma, TabSteps DEF CancelRecovery, TabStep
  <1>3. SetupOK'
    BY <1>2, SetupKept
  <1>4. UNCHANGED <<vault, entries, codes>>
    BY DEF CancelRecovery, CancelRecoveryTicket, storeVars
  <1> QED
    BY <1>1, <1>3, <1>4, SameLemma DEF Good, CancelRecovery

(* The tabs go on with a call, or lose it.                                 *)
LEMMA CallStepLemma ==
  ASSUME Inv, NEW c \in calls, CallStep(c)
  PROVE  Good
  <1>1. c \in Call /\ CallOK(c)
    BY DEF Inv, KeyInv, TypeOK
  <1>2. CASE ListForChange(c)
    <2> PICK d : /\ d \in {[c EXCEPT !.phase = "listed", !.snap = entries],
                           [c EXCEPT !.phase = "unauthorized"]}
                 /\ calls' = Replace(c, d)
      BY <1>2 DEF ListForChange
    <2>1. entries \in Snapshot
      BY DEF Inv, StoreInv, StoreTypeOK, Snapshot
    <2>2. d \in Call
      <3>1. {"listed", "unauthorized"} \subseteq Phases
        BY DEF Phases
      <3>2. [c EXCEPT !.phase = "listed", !.snap = entries] \in Call
        BY <1>1, <2>1, <3>1 DEF Call
      <3>3. [c EXCEPT !.phase = "unauthorized"] \in Call
        BY <1>1, <3>1 DEF Call
      <3> QED
        BY <3>2, <3>3
    <2>3. d.kind = "change" /\ d.phase \in {"listed", "unauthorized"}
      BY <1>1, <1>2 DEF ListForChange, Call
    <2>4. CallOK(d)'
      BY <2>3 DEF CallOK, Writes, Installs
    <2>5. CallsStep
      BY <2>2, <2>4 DEF CallsStep, Replace
    <2>6. setup = "done"
      BY <1>2, DoneLemma DEF ListForChange
    <2> QED
      BY <1>2, <2>5, <2>6, StartLemma, SameLemma DEF ListForChange
  <1>3. CASE SendCall(c)
    <2> PICK d : /\ d = [c EXCEPT
                           !.phase = "sent", !.session = Cookie(c.tab),
                           !.proof = IF c.kind \in Writes THEN keys[c.tab].key
                                                          ELSE c.key]
                 /\ calls' = Replace(c, d)
      BY <1>3 DEF SendCall
    <2>1. c.tab \in Tab /\ c.kind \in Writes \cup {"unlock", "regen", "change"}
      BY <1>1, <1>3 DEF SendCall, Call
    <2>2. Cookie(c.tab) \in Session \cup {Null} /\ keys[c.tab].key \in Nat
      BY <2>1, BrowserAssumption DEF Cookie, Inv, KeyInv, TypeOK
    <2>3. d \in Call
      <3>1. "sent" \in Phases /\ c.key \in Nat
        BY <1>1 DEF Phases, Call
      <3>2. \A session \in Session \cup {Null}, n \in Nat :
              [c EXCEPT !.phase = "sent", !.session = session, !.proof = n] \in Call
        BY <1>1, <3>1 DEF Call
      <3> QED
        BY <2>2, <3>1, <3>2
    <2>4. /\ d.kind = c.kind /\ d.phase = "sent" /\ d.key = c.key
          /\ d.version = c.version /\ d.entry = c.entry /\ d.value = c.value
          /\ c.kind \notin Writes => d.proof = c.key
      BY <1>1 DEF Call
    <2>5. /\ c.kind \in Writes \cup {"regen"} => Pinned(d)'
          /\ c.kind \in Writes => d.entry \in Entry
          /\ c.kind \in {"create", "update"} => d.value \in Value
      BY <1>1, <1>3, <2>4 DEF CallOK, Pinned, SendCall, storeVars
    <2>6. CallOK(d)'
      BY <2>1, <2>4, <2>5 DEF CallOK, Writes, Installs
    <2>7. CallsStep
      BY <2>3, <2>6 DEF CallsStep, Replace
    <2>8. setup = "done"
      BY <2>1, DoneLemma DEF Writes
    <2> QED
      BY <1>3, <2>7, <2>8, StartLemma, SameLemma DEF SendCall
  <1>4. CASE LoseCall(c)
    <2>1. CallsStep
      BY <1>4, SameLemma DEF LoseCall
    <2>2. CASE c.kind = "reset" /\ c.tab # Null /\ c.current
      <3> PICK h : h = [key |-> c.proof, ticket |-> c.ticket, snap |-> c.snap]
        OBVIOUS
      <3>1. held' = [held EXCEPT ![c.tab] = h]
        BY <1>4, <2>2 DEF LoseCall
      <3>2. ClaimOK(h.key, h.ticket, h.snap)
        BY <1>1, <2>2 DEF CallOK
      <3>3. /\ ClaimOK(h.key, h.ticket, h.snap)'
            /\ h \in HeldClaim /\ c.tab \in Tab
        BY <1>1, <1>4, <2>2, <3>2
        DEF ClaimOK, Call, HeldClaim, LoseCall, storeVars
      <3>4. HeldStep
        BY <3>1, <3>3 DEF HeldStep, Inv, KeyInv, TypeOK
      <3>5. setup = "done"
        BY <2>2, DoneLemma
      <3> QED
        BY <1>4, <2>1, <3>4, <3>5, StartLemma DEF LoseCall
    <2>3. CASE ~(c.kind = "reset" /\ c.tab # Null /\ c.current)
      <3>1. held' = held
        BY <1>4, <2>3 DEF LoseCall
      <3>2. SetupOK'
        BY <1>4, <3>1 DEF LoseCall, SetupOK, Inv, KeyInv, storeVars
      <3> QED
        BY <1>4, <2>1, <3>1, <3>2, SameLemma DEF Good, LoseCall, storeVars
    <2> QED
      BY <2>2, <2>3
  <1> QED
    BY <1>2, <1>3, <1>4 DEF CallStep

-----------------------------------------------------------------------------
(* The server handles requests.                                            *)

(* A call that gets on, once setup is over.                                *)
LEMMA AnswerLemma ==
  ASSUME Inv, [StoreNext]_storeVars, setup = "done", VaultOK',
         NEW c \in calls, NEW d \in Call, CallOK(d)',
         calls' \in {Replace(c, d), Answer(c, d)},
         UNCHANGED <<keys, jar, held, notified>>, drawn' \in [Entry -> Nat]
  PROVE  Good
  <1>1. CallsStep
    BY DEF CallsStep, Replace, Answer
  <1>2. RestStep
    BY DEF RestStep, Inv, KeyInv, TypeOK
  <1> QED
    BY <1>1, <1>2, SameLemma, SetupKept DEF Good

(* ... or that is answered without a result.                               *)
LEMMA PlainAnswerLemma ==
  ASSUME Inv, [StoreNext]_storeVars, setup = "done", VaultOK', NEW c \in calls,
         c.kind \notin Installs, c.kind # "claim",
         calls' = Answer(c, [c EXCEPT !.phase = "answered"]),
         UNCHANGED <<keys, jar, held, notified>>, drawn' \in [Entry -> Nat]
  PROVE  Good
  <1> PICK d : d = [c EXCEPT !.phase = "answered"]
    OBVIOUS
  <1>1. c \in Call /\ CallOK(c)'
    BY CallKept DEF Inv, KeyInv, TypeOK
  <1>2. d \in Call
    BY <1>1 DEF Call, Phases
  <1>3. /\ d.kind = c.kind /\ d.phase = "answered" /\ d.key = c.key
        /\ d.version = c.version /\ d.entry = c.entry /\ d.value = c.value
    BY <1>1 DEF Call
  <1>4. c.kind # "reset"
    BY DEF Installs
  <1>5. CallOK(d)'
    BY <1>1, <1>3, <1>4 DEF CallOK, Pinned
  <1> QED
    BY <1>2, <1>5, AnswerLemma

(* ... or that is turned down.                                             *)
LEMMA RefusalLemma ==
  ASSUME Inv, [StoreNext]_storeVars, setup = "done", VaultOK', NEW c \in calls,
         NEW phase \in {"refused", "mismatch", "unauthorized"},
         calls' = Answer(c, [c EXCEPT !.phase = phase]),
         UNCHANGED <<keys, jar, held, notified, drawn>>
  PROVE  Good
  <1> PICK d : d = [c EXCEPT !.phase = phase]
    OBVIOUS
  <1>1. c \in Call /\ CallOK(c)'
    BY CallKept DEF Inv, KeyInv, TypeOK
  <1>2. d \in Call
    BY <1>1 DEF Call, Phases
  <1>3. /\ d.kind = c.kind /\ d.phase = phase /\ d.key = c.key /\ d.proof = c.proof
        /\ d.version = c.version /\ d.entry = c.entry /\ d.value = c.value
        /\ d.code = c.code /\ d.ticket = c.ticket /\ d.snap = c.snap
    BY <1>1 DEF Call
  <1>4. CallOK(d)'
    BY <1>1, <1>3 DEF CallOK, Pinned, ClaimOK
  <1>5. drawn' \in [Entry -> Nat]
    BY DEF Inv, KeyInv, TypeOK
  <1> QED
    BY <1>2, <1>4, <1>5, AnswerLemma

LEMMA SetupCallLemma ==
  ASSUME Inv, NEW c \in calls, HandleSetup(c) \/ ResumeSetup(c)
  PROVE  Good
  <1>1. c \in Call /\ c.kind = "setup" /\ CallOK(c)
    BY DEF Inv, KeyInv, TypeOK, HandleSetup, ResumeSetup
  <1>2. [StoreNext]_storeVars
    BY AnswerSteps
  <1>3. UNCHANGED <<keys, jar, held, notified, drawn>>
    BY DEF HandleSetup, ResumeSetup
  <1>4. vault \in [key: Nat, version: Nat]
    BY DEF Inv, StoreInv, StoreTypeOK
  <1>5. ASSUME NEW d \in Call, CallOK(d)', SetupOK', VaultOK',
               calls' \in {Replace(c, d), Answer(c, d)}
        PROVE  Good
    <2>1. CallsStep
      BY <1>5 DEF CallsStep, Replace, Answer
    <2> QED
      BY <1>3, <1>5, <2>1, SameLemma DEF Good
  <1>6. CASE HandleSetup(c) /\ InitializeVault(FreshKey)
    <2> PICK d : /\ d = [c EXCEPT !.phase = "authorized", !.key = FreshKey]
                 /\ calls' = Replace(c, d)
      BY <1>6 DEF HandleSetup, InitializeVault
    <2>1. vault.key = 0 /\ FreshKey = 1
      BY <1>6 DEF InitializeVault, Inv, KeyInv, VaultOK, StoreInv, SetupPhases,
                  FreshKey
    <2>2. /\ d \in Call /\ d.kind = "setup" /\ d.phase = "authorized"
          /\ d.key = 1
      <3>1. "authorized" \in Phases /\ FreshKey \in Nat
        BY <2>1 DEF Phases
      <3> QED
        BY <1>1, <2>1, <3>1 DEF Call
    <2>3. CallOK(d)'
      BY <2>2 DEF CallOK, Writes, Installs
    <2>4. VaultOK'
      BY <1>6, <2>1, BoundsAssumption
      DEF InitializeVault, ReplaceRecoveryCodes, VaultOK, Inv, KeyInv
    <2>5. SetupOK'
      BY <1>3, <1>6, <2>2 DEF InitializeVault, SetupOK, Inv, KeyInv, Replace
    <2> QED
      BY <1>5, <2>2, <2>3, <2>4, <2>5
  <1>7. CASE /\ c.phase = "authorized"
             /\ \E s \in Session :
                  /\ FinishSetup(s)
                  /\ calls' = Answer(c, [c EXCEPT !.phase = "answered",
                                           !.session = s,
                                           !.version = vault.version])
    <2> PICK s \in Session :
           /\ FinishSetup(s)
           /\ calls' = Answer(c, [c EXCEPT !.phase = "answered", !.session = s,
                                           !.version = vault.version])
      BY <1>7
    <2> PICK d : d = [c EXCEPT !.phase = "answered", !.session = s,
                               !.version = vault.version]
      OBVIOUS
    <2>1. vault.version = 1 /\ c.key = 1 /\ UNCHANGED vault
      BY <1>1, <1>7 DEF FinishSetup, CallOK, Inv, KeyInv, SetupOK
    <2>2. /\ d \in Call /\ d.kind = "setup" /\ d.phase = "answered"
          /\ d.key = 1 /\ d.version = 1 /\ d.session \in Session
      BY <1>1, <1>4, <2>1 DEF Call, Phases
    <2>3. CallOK(d)'
      BY <2>1, <2>2 DEF CallOK, Pinned, Writes, Installs
    <2>4. VaultOK' /\ SetupOK'
      BY SameLemma DEF FinishSetup, SetupOK
    <2> QED
      BY <1>5, <2>2, <2>3, <2>4
  <1>8. CASE calls' = Answer(c, [c EXCEPT !.phase = "refused"])
             /\ (FailSetup \/ UNCHANGED storeVars)
    <2> PICK d : /\ d = [c EXCEPT !.phase = "refused"]
                 /\ calls' = Answer(c, d)
      BY <1>8
    <2>1. d \in Call /\ d.kind = "setup" /\ d.phase = "refused"
      BY <1>1 DEF Call, Phases
    <2>2. CallOK(d)'
      BY <2>1 DEF CallOK, Writes, Installs
    <2>3. VaultOK'
      BY <1>8, SameLemma DEF FailSetup, storeVars
    <2>4. SetupOK'
      BY <1>3, <1>8, <2>1
      DEF FailSetup, SetupOK, Inv, KeyInv, Answer, storeVars
    <2> QED
      BY <1>5, <2>1, <2>2, <2>3, <2>4
  <1> QED
    BY <1>6, <1>7, <1>8 DEF HandleSetup, ResumeSetup

LEMMA SessionCallsLemma ==
  ASSUME Inv, NEW c \in calls,
         Authorize(c) \/ TurnAway(c) \/ AnswerPoll(c) \/ HandleLock(c)
  PROVE  Good
  <1>1. c \in Call /\ CallOK(c) /\ drawn \in [Entry -> Nat]
    BY DEF Inv, KeyInv, TypeOK
  <1>2. setup = "done"
    BY DoneLemma DEF Authorize, TurnAway, AnswerPoll, HandleLock, Writes
  <1>3. UNCHANGED <<keys, jar, held, notified, drawn>>
    BY DEF Authorize, TurnAway, AnswerPoll, HandleLock
  <1>4. VaultOK'
    BY SameLemma DEF Authorize, TurnAway, AnswerPoll, HandleLock, Lock,
                     SweepStaleSession, storeVars
  <1>5. [StoreNext]_storeVars
    BY AnswerSteps DEF Authorize, AnswerPoll
  <1>6. CASE Authorize(c)
    <2> PICK d : d = [c EXCEPT !.phase = "authorized"]
      OBVIOUS
    <2>1. d \in Call
      BY <1>1 DEF Call, Phases
    <2>2. /\ d.kind = c.kind /\ d.phase = "authorized" /\ d.key = c.key
          /\ d.version = c.version /\ d.entry = c.entry /\ d.value = c.value
          /\ d.session \in Session
          /\ c.kind \in Writes \cup {"change", "regen"}
      BY <1>1, <1>6 DEF Call, Authorize, SessionResolves
    <2>3. CallOK(c)'
      BY <1>1, <1>5, CallKept DEF Inv
    <2>4. CallOK(d)'
      BY <2>2, <2>3 DEF CallOK, Pinned, Writes
    <2> QED
      BY <1>1, <1>2, <1>3, <1>4, <1>5, <1>6, <2>1, <2>4, AnswerLemma
      DEF Authorize
  <1>7. CASE TurnAway(c)
    BY <1>2, <1>3, <1>4, <1>5, <1>7, RefusalLemma DEF TurnAway
  <1>8. CASE AnswerPoll(c) \/ HandleLock(c)
    BY <1>1, <1>2, <1>3, <1>4, <1>5, <1>8, PlainAnswerLemma
    DEF AnswerPoll, HandleLock, Installs
  <1> QED
    BY <1>6, <1>7, <1>8

LEMMA LoginCallLemma ==
  ASSUME Inv, NEW c \in calls, HandleLogin(c)
  PROVE  Good
  <1>1. /\ c \in Call /\ CallOK(c) /\ drawn \in [Entry -> Nat]
        /\ vault \in [key: Nat, version: Nat]
    BY DEF Inv, KeyInv, TypeOK, StoreInv, StoreTypeOK
  <1>2. setup = "done" /\ [StoreNext]_storeVars
    BY DoneLemma, AnswerSteps DEF HandleLogin
  <1>3. UNCHANGED <<keys, jar, held, notified, drawn>>
    BY DEF HandleLogin
  <1>4. VaultOK'
    BY SameLemma DEF HandleLogin, Login, storeVars
  <1>5. CASE \E s \in Session :
               /\ Login(c.proof, c.session, s)
               /\ calls' = Answer(c, [c EXCEPT !.phase = "answered", !.session = s,
                                               !.version = vault.version])
    <2> PICK s \in Session :
               /\ Login(c.proof, c.session, s)
               /\ calls' = Answer(c, [c EXCEPT !.phase = "answered", !.session = s,
                                               !.version = vault.version])
      BY <1>5
    <2> PICK d : d = [c EXCEPT !.phase = "answered", !.session = s,
                               !.version = vault.version]
      OBVIOUS
    <2>1. /\ d \in Call /\ d.kind = "unlock" /\ d.phase = "answered"
          /\ d.key = c.key /\ d.version = vault.version /\ d.session \in Session
      BY <1>1 DEF Call, Phases, HandleLogin
    <2>2. c.key = vault.version /\ vault.version > 0
      BY <1>1 DEF Login, ProofHolds, Initialized, CallOK, HandleLogin, Inv,
                  KeyInv, VaultOK
    <2>3. Pinned(d)'
      BY <1>1, <2>1, <2>2 DEF Pinned, Login
    <2>4. CallOK(d)'
      BY <2>1, <2>3 DEF CallOK, Writes
    <2> QED
      BY <1>1, <1>2, <1>3, <1>4, <2>1, <2>4, AnswerLemma
  <1>6. CASE calls' = Answer(c, [c EXCEPT !.phase = "refused"])
    BY <1>2, <1>3, <1>4, <1>6, RefusalLemma
  <1> QED
    BY <1>5, <1>6 DEF HandleLogin

LEMMA ClaimCallLemma ==
  ASSUME Inv, NEW c \in calls, HandleClaim(c)
  PROVE  Good
  <1>1. /\ c \in Call /\ c.kind = "claim" /\ c.code \in Code
        /\ drawn \in [Entry -> Nat]
    BY DEF Inv, KeyInv, TypeOK, CallOK, HandleClaim
  <1>2. StoreTypeOK /\ StampsCurrent /\ VaultOK
    BY DEF Inv, KeyInv, StoreInv
  <1>3. setup = "done" /\ [StoreNext]_storeVars
    BY DoneLemma, AnswerSteps DEF HandleClaim
  <1>4. UNCHANGED <<keys, jar, held, notified, drawn>>
    BY DEF HandleClaim
  <1>5. CASE \E t \in Ticket :
               /\ ClaimRecoveryCode(c.code, t)
               /\ calls' = Answer(c, [c EXCEPT !.phase = "answered", !.ticket = t,
                                        !.key = codes[c.code].key,
                                        !.snap = entries])
    <2> PICK t \in Ticket :
               /\ ClaimRecoveryCode(c.code, t)
               /\ calls' = Answer(c, [c EXCEPT !.phase = "answered", !.ticket = t,
                                        !.key = codes[c.code].key,
                                        !.snap = entries])
      BY <1>5
    <2> PICK d : d = [c EXCEPT !.phase = "answered", !.ticket = t,
                               !.key = codes[c.code].key, !.snap = entries]
      OBVIOUS
    <2>1. codes[c.code].key = vault.key /\ vault.key \in Nat
      BY <1>1, <1>2 DEF StampsCurrent, VaultOK, StoreTypeOK
    <2>2. entries \in Snapshot
      BY <1>2 DEF StoreTypeOK, Snapshot
    <2>3. d \in Call
      BY <1>1, <2>1, <2>2 DEF Call, Phases
    <2>4. /\ d.kind = "claim" /\ d.phase = "answered" /\ d.key = vault.key
          /\ d.ticket = t /\ d.snap = entries /\ d.code = c.code
      BY <1>1, <2>1 DEF Call
    <2>5. /\ UNCHANGED <<vault, entries>> /\ tickets'[t].status = "open"
          /\ codes' = [codes EXCEPT ![c.code].used = TRUE]
      BY <1>2 DEF ClaimRecoveryCode, StoreTypeOK
    <2>6. ClaimOK(d.key, d.ticket, d.snap)'
      BY <2>4, <2>5 DEF ClaimOK
    <2>7. CallOK(d)'
      BY <1>1, <2>4, <2>6 DEF CallOK, Writes, Installs
    <2>8. VaultOK'
      BY <1>1, <1>2, <2>5 DEF VaultOK, StoreTypeOK
    <2> QED
      BY <1>1, <1>3, <1>4, <2>3, <2>7, <2>8, AnswerLemma
  <1>6. CASE /\ calls' = Answer(c, [c EXCEPT !.phase = "refused"])
             /\ UNCHANGED storeVars
    <2>1. VaultOK'
      BY <1>6, SameLemma DEF storeVars
    <2> QED
      BY <1>3, <1>4, <1>6, <2>1, RefusalLemma
  <1> QED
    BY <1>5, <1>6 DEF HandleClaim

(* A rotation puts the vault, every entry it keeps and every code under    *)
(* the key and the version it installs.                                    *)
LEMMA RotationVault ==
  ASSUME Inv, NEW snap \in Snapshot, IvsLeft(snap), NEW s \in Session,
         RotateVaultMaterial(FreshKey, Reencrypt(snap), s)
  PROVE  /\ VaultOK'
         /\ FreshKey = vault.version + 1
         /\ vault'.version = vault.version + 1
         /\ vault.version \in Nat
  <1>1. vault.version \in Nat /\ vault.key = vault.version
    BY DEF Inv, KeyInv, VaultOK, StoreInv, StoreTypeOK
  <1>2. FreshKey = vault.version + 1
    BY <1>1 DEF FreshKey
  <1>3. vault' = [key |-> FreshKey, version |-> vault.version + 1]
    BY DEF RotateVaultMaterial
  <1>4. vault'.version <= MaxVersion
    BY <1>1, <1>3, BoundsAssumption DEF RotateVaultMaterial
  <1>5. ASSUME NEW e \in Entry, entries'[e] # Null
        PROVE  entries'[e].key = entries'[e].version
    <2>1. Reencrypt(snap)[e] # Null
      BY <1>5 DEF RotateVaultMaterial, ReplaceKeyEntryCiphers, EntriesMatchVault
    <2>2. Reencrypt(snap)[e].key = FreshKey
      BY <2>1 DEF Reencrypt
    <2> QED
      BY <1>2, <2>1, <2>2 DEF RotateVaultMaterial, ReplaceKeyEntryCiphers
  <1>6. \A r \in Code : codes'[r].key = codes'[r].version
    BY <1>2 DEF RotateVaultMaterial, ReplaceRecoveryCodes
  <1> QED
    BY <1>1, <1>2, <1>3, <1>4, <1>5, <1>6 DEF VaultOK

LEMMA RotationCallLemma ==
  ASSUME Inv, NEW c \in calls, HandleReset(c) \/ HandleChange(c)
  PROVE  Good
  <1>1. /\ c \in Call /\ CallOK(c) /\ drawn \in [Entry -> Nat]
        /\ c.snap \in Snapshot /\ c.kind \in {"reset", "change"}
    BY DEF Inv, KeyInv, TypeOK, Call, HandleReset, HandleChange
  <1>2. setup = "done" /\ [StoreNext]_storeVars
    BY <1>1, DoneLemma, HandleSteps
  <1>3. UNCHANGED <<keys, jar, held, notified>>
    BY DEF HandleReset, HandleChange
  <1>4. CASE \E s \in Session :
               /\ IvsLeft(c.snap)
               /\ RotateVaultMaterial(FreshKey, Reencrypt(c.snap), s)
               /\ calls' = RotationAnswer(c, s)
               /\ drawn' = DrawFor(c.snap)
    <2> PICK s \in Session :
               /\ IvsLeft(c.snap)
               /\ RotateVaultMaterial(FreshKey, Reencrypt(c.snap), s)
               /\ calls' = RotationAnswer(c, s)
               /\ drawn' = DrawFor(c.snap)
      BY <1>4
    <2> PICK d : d = [c EXCEPT !.phase = "answered", !.session = s,
                               !.key = FreshKey, !.version = vault.version + 1]
      OBVIOUS
    <2>1. /\ VaultOK' /\ FreshKey = vault.version + 1
          /\ vault'.version = vault.version + 1 /\ vault.version \in Nat
      BY <1>1, RotationVault
    <2>2. drawn' \in [Entry -> Nat]
      BY <1>1, ReencryptLemma DEF RotateVaultMaterial
    <2>3. d \in Call
      <3>1. FreshKey \in Nat /\ vault.version + 1 \in Nat /\ s \in Session
        BY <2>1
      <3> QED
        BY <1>1, <3>1 DEF Call, Phases
    <2>4. /\ d.kind = c.kind /\ d.phase = "answered" /\ d.session = s
          /\ d.key = vault.version + 1 /\ d.version = vault.version + 1
          /\ d.proof = c.proof /\ d.ticket = c.ticket /\ d.snap = c.snap
      BY <1>1, <2>1 DEF Call
    <2>5. Pinned(d)'
      BY <2>1, <2>4 DEF Pinned
    <2>6. CallOK(c)'
      BY <1>1, <1>2, CallKept DEF Inv
    <2>7. c.kind = "reset" => ClaimOK(d.proof, d.ticket, d.snap)'
      BY <2>4, <2>6 DEF CallOK, ClaimOK
    <2>8. CallOK(d)'
      BY <1>1, <2>4, <2>5, <2>7 DEF CallOK, Writes
    <2> QED
      BY <1>2, <1>3, <2>1, <2>2, <2>3, <2>8, AnswerLemma DEF RotationAnswer
  <1>5. CASE RefuseCall(c)
    <2>1. VaultOK'
      BY <1>5, SameLemma DEF RefuseCall, storeVars
    <2> QED
      BY <1>2, <1>3, <1>5, <2>1, RefusalLemma DEF RefuseCall
  <1> QED
    BY <1>4, <1>5 DEF HandleReset, HandleChange, ResetVaultFromRecovery,
                      ChangeMasterPassword

(* Codes that are regenerated wrap the key their version belongs to, and a *)
(* ciphertext that is stored was made with it.                             *)
LEMMA WriteCallLemma ==
  ASSUME Inv, NEW c \in calls,
         HandleRegenerate(c) \/ HandleWrite(c) \/ RefuseWrite(c)
  PROVE  Good
  <1>1. /\ c \in Call /\ CallOK(c) /\ drawn \in [Entry -> Nat]
        /\ c.kind \in Writes \cup {"regen"}
    BY DEF Inv, KeyInv, TypeOK, HandleRegenerate, HandleWrite, RefuseWrite
  <1>2. setup = "done" /\ [StoreNext]_storeVars
    BY <1>1, DoneLemma, HandleSteps DEF RefuseWrite, Writes
  <1>3. UNCHANGED <<keys, jar, held, notified>>
    BY DEF HandleRegenerate, HandleWrite, RefuseWrite
  <1>4. Pinned(c) /\ VaultOK /\ StoreTypeOK
    BY <1>1 DEF CallOK, Inv, KeyInv, StoreInv
  <1>5. CASE RefuseWrite(c) \/ RefuseCall(c)
    <2>1. VaultOK' /\ drawn' = drawn
      BY <1>5, SameLemma DEF RefuseWrite, RefuseCall, storeVars
    <2> QED
      BY <1>2, <1>3, <1>5, <2>1, RefusalLemma DEF RefuseWrite, RefuseCall
  <1>6. CASE /\ RegenerateRecoveryCodes(c.session, c.proof, c.key, c.version)
             /\ calls' = Answer(c, [c EXCEPT !.phase = "answered"])
             /\ UNCHANGED drawn
    <2>1. VaultOK'
      BY <1>4, <1>6 DEF RegenerateRecoveryCodes, ReplaceRecoveryCodes, VaultOK,
                        Pinned
    <2> QED
      BY <1>1, <1>2, <1>3, <1>6, <2>1, PlainAnswerLemma DEF Writes, Installs
  <1>7. CASE HandleWrite(c)
    <2>1. c.kind \in Writes /\ c.entry \in Entry
          /\ CipherOf(c).key = CipherOf(c).version
      BY <1>1, <1>4, <1>7 DEF HandleWrite, CallOK, CipherOf, Pinned
    <2>2. UNCHANGED <<vault, codes>>
      BY <1>7 DEF HandleWrite, CreateKeyEntry, UpdateKeyEntry, DeleteKeyEntry
    <2>3. entries' \in {[entries EXCEPT ![c.entry] = CipherOf(c)],
                        [entries EXCEPT ![c.entry] = Null]}
      BY <1>7 DEF HandleWrite, CreateKeyEntry, UpdateKeyEntry, DeleteKeyEntry
    <2>4. VaultOK'
      BY <1>4, <2>1, <2>2, <2>3 DEF VaultOK, StoreTypeOK
    <2>5. drawn' \in [Entry -> Nat]
      <3>1. NextIv(c.entry) \in Nat
        BY <1>1, <2>1 DEF NextIv
      <3> QED
        BY <1>1, <1>7, <3>1 DEF HandleWrite
    <2> QED
      BY <1>2, <1>3, <1>7, <2>1, <2>4, <2>5, PlainAnswerLemma
      DEF HandleWrite, Writes, Installs
  <1> QED
    BY <1>5, <1>6, <1>7 DEF HandleRegenerate

-----------------------------------------------------------------------------
(* The tabs apply answers.                                                 *)

LEMMA InstallLemma ==
  ASSUME Inv, NEW c \in calls, InstallKey(c) \/ FinishReset(c)
  PROVE  Good
  <1>1. /\ c \in Call /\ CallOK(c) /\ c.tab \in Tab
        /\ c.kind \in Installs /\ c.phase = "answered"
    BY DEF Inv, KeyInv, TypeOK, Call, InstallKey, FinishReset, Installs
  <1>2. setup = "done"
    BY <1>1, DoneLemma
  <1>3. Pinned(c) /\ c.session \in Session
    BY <1>1 DEF CallOK
  <1>4. jar' \in [Browser -> Session \cup {Null}]
    BY <1>1, <1>3 DEF InstallKey, FinishReset, SetCookie, Inv, KeyInv, TypeOK
  <1>5. CASE /\ keys' = [keys EXCEPT ![c.tab] = [key |-> c.key,
                                                 version |-> c.version]]
             /\ calls' = calls \ {c}
             /\ UNCHANGED <<storeVars, held, notified, drawn>>
    <2> PICK k : k = [key |-> c.key, version |-> c.version]
      OBVIOUS
    <2>1. Pinned(k)' /\ k \in TabKey
      BY <1>1, <1>3, <1>5 DEF Pinned, Call, TabKey, storeVars
    <2>2. keys' = [keys EXCEPT ![c.tab] = k]
      BY <1>5
    <2>3. KeysStep
      BY <1>1, <2>1, <2>2 DEF KeysStep, Inv, KeyInv, TypeOK, TabKey
    <2>4. RestStep
      BY <1>4, <1>5 DEF RestStep, Inv, KeyInv, TypeOK
    <2>5. SetupOK'
      BY <1>2, <1>5, SetupKept DEF storeVars
    <2> QED
      BY <1>5, <2>3, <2>4, <2>5, SameLemma DEF Good, storeVars
  <1>6. CASE ClearKey(c.tab, calls \ {c})
             /\ UNCHANGED <<storeVars, notified, drawn>>
    <2>1. CallsStep
      BY <1>6, SupersedeLemma DEF CallsStep, ClearKey
    <2>2. notified' \subseteq Tab
      BY <1>6 DEF Inv, KeyInv, TypeOK
    <2> QED
      BY <1>1, <1>2, <1>4, <1>6, <2>1, <2>2, ClearLemma DEF ClearKey
  <1> QED
    BY <1>5, <1>6 DEF InstallKey, FinishReset

LEMMA ApplyLemma ==
  ASSUME Inv, NEW c \in calls,
         \/ HoldClaim(c) \/ FinishCall(c) \/ LockLocal(c)
         \/ ApplyUnauthorized(c) \/ FinishLock(c)
  PROVE  Good
  <1>1. c \in Call /\ CallOK(c) /\ c.tab \in Tab
    BY DEF Inv, KeyInv, TypeOK, Call, HoldClaim, FinishCall, LockLocal,
           ApplyUnauthorized, FinishLock
  <1>2. /\ jar \in [Browser -> Session \cup {Null}] /\ notified \subseteq Tab
        /\ SetCookie(c.tab, Null) \in [Browser -> Session \cup {Null}]
    BY <1>1 DEF Inv, KeyInv, TypeOK, SetCookie
  <1>3. CASE HoldClaim(c)
    <2> PICK h : h = [key |-> c.key, ticket |-> c.ticket, snap |-> c.snap]
      OBVIOUS
    <2>1. held' = [held EXCEPT ![c.tab] = h] /\ setup = "done"
      BY <1>3, DoneLemma DEF HoldClaim
    <2>2. ClaimOK(h.key, h.ticket, h.snap)
      BY <1>1, <1>3 DEF HoldClaim, CallOK
    <2>3. ClaimOK(h.key, h.ticket, h.snap)' /\ h \in HeldClaim
      BY <1>1, <1>3, <2>2 DEF ClaimOK, Call, HeldClaim, HoldClaim, storeVars
    <2>4. HeldStep
      BY <2>1, <2>3 DEF HeldStep, Inv, KeyInv, TypeOK
    <2>5. CallsStep
      BY <1>3, SupersedeLemma DEF CallsStep, HoldClaim
    <2> QED
      BY <1>3, <2>1, <2>4, <2>5, StartLemma DEF HoldClaim
  <1>4. CASE FinishCall(c)
    <2>1. SetupOK'
      BY <1>4 DEF FinishCall, SetupOK, Inv, KeyInv, storeVars
    <2> QED
      BY <1>4, <2>1, SameLemma DEF Good, FinishCall, storeVars
  <1>5. CASE /\ UNCHANGED <<storeVars, keys, held, notified, drawn>>
             /\ calls' = calls \ {c}
             /\ jar' = SetCookie(c.tab, Null)
    <2>1. SetupOK'
      BY <1>5 DEF SetupOK, Inv, KeyInv, storeVars
    <2>2. RestStep
      BY <1>2, <1>5 DEF RestStep, Inv, KeyInv, TypeOK
    <2> QED
      BY <1>5, <2>1, <2>2, SameLemma DEF Good, storeVars
  <1>6. CASE LockLocal(c)
    <2>1. CallsStep
      BY <1>6, SupersedeLemma DEF CallsStep, LockLocal, ClearKey
    <2>2. CASE setup = "done"
      BY <1>1, <1>2, <1>6, <2>1, <2>2, ClearLemma DEF LockLocal, ClearKey
    <2>3. CASE setup # "done"
      <3>1. keys' = keys /\ held' = held
        BY <1>6, <2>3 DEF LockLocal, ClearKey, Inv, KeyInv, TypeOK, SetupOK
      <3>2. \A d \in Supersede(c.tab, calls \ {c}) :
              d.kind = "setup" /\ d.phase # "answered"
        BY <2>3 DEF Supersede, Inv, KeyInv, SetupOK
      <3>3. SetupOK'
        BY <1>6, <3>1, <3>2 DEF LockLocal, ClearKey, Inv, KeyInv, SetupOK,
                                storeVars
      <3> QED
        BY <1>6, <2>1, <3>1, <3>3, SameLemma DEF Good, LockLocal, storeVars
    <2> QED
      BY <2>2, <2>3
  <1>7. CASE ApplyUnauthorized(c) /\ c.kind = "poll" /\ HasKey(c.tab)
    <2>1. setup = "done"
      BY <1>1, <1>7, DoneLemma
    <2> QED
      BY <1>1, <1>2, <1>7, <2>1, LockTabLemma DEF ApplyUnauthorized
  <1> QED
    BY <1>3, <1>4, <1>5, <1>6, <1>7 DEF ApplyUnauthorized, FinishLock

-----------------------------------------------------------------------------
(* The theorems.                                                           *)

LEMMA KeyInitLemma == Init => Inv
  <1> SUFFICES ASSUME Init
               PROVE  Inv
    OBVIOUS
  <1>1. StoreInv
    BY InitLemma DEF Init
  <1>2. TypeOK
    BY <1>1 DEF Init, TypeOK, StoreInv, NoKey
  <1>3. VaultOK
    BY BoundsAssumption DEF Init, StoreInit, VaultOK
  <1>4. KeysOK /\ HeldOK /\ \A c \in calls : CallOK(c)
    BY DEF Init, KeysOK, HeldOK
  <1>5. SetupOK
    BY DEF Init, StoreInit, SetupOK
  <1> QED
    BY <1>1, <1>2, <1>3, <1>4, <1>5 DEF Inv, KeyInv

LEMMA KeyStepLemma ==
  ASSUME ~UnlockDuringSetup
  PROVE  Inv /\ [Next]_vars => Inv'
  <1> SUFFICES ASSUME Inv, [Next]_vars
               PROVE  Inv'
    OBVIOUS
  <1>1. CASE \E t \in Tab : TabStep(t)
    <2> PICK t \in Tab : TabStep(t)
      BY <1>1
    <2>1. Good
      BY StartSetupLemma, StartDerivingLemma, StartWriteLemma, StartClaimLemma,
         StartResetLemma, LocksLemma, CancelLemma
      DEF TabStep
    <2> QED
      BY <2>1, Assemble DEF Good
  <1>2. ASSUME NEW c \in calls, CallStep(c) \/ ServerStep(c) \/ AnswerStep(c)
        PROVE  Inv'
    <2>1. CASE CallStep(c)
      BY <2>1, CallStepLemma, Assemble DEF Good
    <2>2. CASE ServerStep(c)
      <3>1. Good
        BY <2>2, SessionCallsLemma, SetupCallLemma, LoginCallLemma,
           ClaimCallLemma, RotationCallLemma, WriteCallLemma
        DEF ServerStep
      <3> QED
        BY <3>1, Assemble DEF Good
    <2>3. CASE AnswerStep(c)
      <3>1. Good
        BY <2>3, InstallLemma, ApplyLemma DEF AnswerStep
      <3> QED
        BY <3>1, Assemble DEF Good
    <2> QED
      BY <1>2, <2>1, <2>2, <2>3
  <1>3. CASE UNCHANGED clientVars /\ (Clock \/ UNCHANGED storeVars)
    <2>1. UNCHANGED <<vault, setup, late, entries, codes>>
      BY <1>3 DEF Clock, SessionTimesOut, TicketExpires, storeVars
    <2>2. SetupOK'
      BY <1>3, <2>1 DEF SetupOK, Inv, KeyInv, clientVars
    <2> QED
      BY <1>3, <2>1, <2>2, SameLemma, Assemble DEF clientVars
  <1> QED
    BY <1>1, <1>2, <1>3 DEF Next, vars

(* Every key, ciphertext, envelope, claim and message is the one its pin   *)
(* says it is, in every interleaving of the tabs with the server.          *)
THEOREM KeysStayPinned ==
  ASSUME ~UnlockDuringSetup
  PROVE  Spec => []KeyInv
  <1>1. Init => Inv
    BY KeyInitLemma
  <1>2. Inv /\ [Next]_vars => Inv'
    BY KeyStepLemma
  <1>3. Inv => KeyInv
    BY DEF Inv
  <1> QED
    BY <1>1, <1>2, <1>3, PTL DEF Spec

(* Tabs, calls, claims and tables keep to their types: among other things  *)
(* no answer leaves a tab with a key and no version.                       *)
THEOREM TypesKept ==
  ASSUME ~UnlockDuringSetup
  PROVE  Spec => []TypeOK
  <1>1. KeyInv => TypeOK
    BY DEF KeyInv
  <1> QED
    BY <1>1, KeysStayPinned, PTL

(* The composition behaves, towards the database, like some client of      *)
(* VaultStore: every theorem about StoreSpec is one about Spec.            *)
THEOREM RunsOnTheStore ==
  ASSUME ~UnlockDuringSetup
  PROVE  Spec => StoreSpec
  <1>1. Init => Inv /\ StoreInit
    BY KeyInitLemma DEF Init
  <1>2. Inv /\ [Next]_vars => Inv'
    BY KeyStepLemma
  <1>3. Inv /\ [Next]_vars => [StoreNext]_storeVars
    BY StoreStepLemma
  <1> QED
    BY <1>1, <1>2, <1>3, PTL DEF Spec, StoreSpec

(* No race of writes, rotations, recoveries and regenerations strands an   *)
(* entry under a key nobody has or leaves a code that recovers an old key. *)
THEOREM VaultStaysDecryptable ==
  ASSUME ~UnlockDuringSetup
  PROVE  Spec => []VaultDecryptable
  <1>1. KeyInv /\ StoreInv => VaultDecryptable
    BY DEF KeyInv, VaultOK, StoreInv, StampsCurrent, VaultDecryptable
  <1> QED
    BY <1>1, KeysStayPinned, RunsOnTheStore, Invariance, PTL

(* A tab whose pin passes the server's check holds the current key.        *)
THEOREM PinsMatchKeys ==
  ASSUME ~UnlockDuringSetup
  PROVE  Spec => []PinMatchesKey
  <1>1. KeyInv => PinMatchesKey
    BY DEF KeyInv, VaultOK, KeysOK, NoKey, Pinned, PinMatchesKey
  <1> QED
    BY <1>1, KeysStayPinned, PTL

(* The claim a tab holds describes the vault as long as its ticket is      *)
(* open, whatever the other tabs and the clock do meanwhile.               *)
THEOREM HeldClaimsStayCurrent ==
  ASSUME ~UnlockDuringSetup
  PROVE  Spec => []HeldClaimCurrent
  <1>1. KeyInv => HeldClaimCurrent
    BY DEF KeyInv, HeldOK, ClaimOK, OpenTickets, HeldClaimCurrent
  <1> QED
    BY <1>1, KeysStayPinned, PTL

-----------------------------------------------------------------------------
(* A rotation loses nothing: an IV names one plaintext.                    *)

(* The snapshots of the entries that are under way or held.                *)
Snaps == {c.snap : c \in calls}
           \cup {held[t].snap : t \in {u \in Tab : held[u] # Null}}

(* A ciphertext that still has the IV of the snapshot is the one it had.   *)
SnapOK(snap) ==
  \A e \in Entry : snap[e] # Null =>
    /\ snap[e].iv <= drawn[e]
    /\ entries[e] # Null /\ entries[e].iv = snap[e].iv
         => entries[e].value = snap[e].value

IvInv ==
  /\ \A e \in Entry : entries[e] # Null => entries[e].iv <= drawn[e]
  /\ \A snap \in Snaps : SnapOK(snap)

(* A ciphertext that changes has an IV that was never drawn before.        *)
EntriesStep ==
  \A e \in Entry :
    /\ drawn[e] <= drawn'[e]
    /\ \/ entries'[e] = entries[e]
       \/ entries'[e] = Null
       \/ entries'[e].iv = drawn[e] + 1 /\ drawn'[e] = drawn[e] + 1

(* Snapshots are taken of the entries as they are.                         *)
SnapsStep == Snaps' \subseteq Snaps \cup {NoSnapshot, entries'}

LEMMA IvStepLemma ==
  ASSUME Inv, Inv', IvInv, EntriesStep, SnapsStep
  PROVE  IvInv'
  <1>1. /\ drawn \in [Entry -> Nat] /\ drawn' \in [Entry -> Nat]
        /\ entries \in Snapshot /\ entries' \in Snapshot
    BY DEF Inv, KeyInv, TypeOK, StoreTypeOK, Snapshot
  <1>2. \A snap \in Snaps : snap \in Snapshot
    BY DEF Snaps, Inv, KeyInv, TypeOK, Call, HeldClaim
  <1>3. ASSUME NEW e \in Entry, entries'[e] # Null
        PROVE  entries'[e].iv <= drawn'[e] /\ entries'[e].iv \in Nat
    <2>1. entries'[e] \in Cipher
      BY <1>1, <1>3 DEF Snapshot
    <2>2. entries'[e].iv \in Nat
      BY <2>1 DEF Cipher, Iv
    <2>3. drawn[e] \in Nat /\ drawn'[e] \in Nat
      BY <1>1
    <2> QED
      BY <1>3, <2>2, <2>3 DEF EntriesStep, IvInv
  <1>4. ASSUME NEW snap \in Snaps
        PROVE  SnapOK(snap)'
    <2> SUFFICES ASSUME NEW e \in Entry, snap[e] # Null
                 PROVE  /\ snap[e].iv <= drawn'[e]
                        /\ entries'[e] # Null /\ entries'[e].iv = snap[e].iv
                             => entries'[e].value = snap[e].value
      BY DEF SnapOK
    <2>1. snap[e] \in Cipher
      BY <1>2 DEF Snapshot
    <2>2. snap[e].iv \in Nat /\ drawn[e] \in Nat /\ drawn'[e] \in Nat
      BY <1>1, <2>1 DEF Cipher, Iv
    <2>3. /\ snap[e].iv <= drawn[e]
          /\ entries[e] # Null /\ entries[e].iv = snap[e].iv
               => entries[e].value = snap[e].value
      BY DEF IvInv, SnapOK
    <2> QED
      BY <2>2, <2>3 DEF EntriesStep
  <1>5. SnapOK(NoSnapshot)' /\ SnapOK(entries)'
    BY <1>3 DEF SnapOK, NoSnapshot
  <1> QED
    BY <1>3, <1>4, <1>5 DEF IvInv, SnapsStep

(* A step that leaves the entries alone, and calls and claims that only    *)
(* hand a snapshot on.                                                     *)
LEMMA EntriesSameLemma ==
  ASSUME Inv, UNCHANGED <<entries, drawn>>
  PROVE  EntriesStep
  BY DEF EntriesStep, Inv, KeyInv, TypeOK

LEMMA HandOnLemma ==
  ASSUME \A d \in calls' : d.snap \in Snaps \cup {NoSnapshot, entries'},
         \A t \in Tab : held'[t] # Null
           => held'[t].snap \in Snaps \cup {NoSnapshot, entries'}
  PROVE  SnapsStep
  BY DEF SnapsStep, Snaps

LEMMA HeldSnaps ==
  ASSUME NEW t \in Tab, held[t] # Null
  PROVE  held[t].snap \in Snaps
  BY DEF Snaps

LEMMA CallSnaps ==
  ASSUME NEW c \in calls
  PROVE  c.snap \in Snaps
  BY DEF Snaps

LEMMA SupersedeSnaps ==
  ASSUME Inv, NEW t, NEW set, NEW d \in Supersede(t, set),
         \A c \in set : c \in Call /\ c.snap \in Snaps \cup {NoSnapshot}
  PROVE  d.snap \in Snaps \cup {NoSnapshot}
  BY DEF Supersede, Call

LEMMA TabSnaps ==
  ASSUME Inv, NEW t \in Tab, TabStep(t)
  PROVE  SnapsStep /\ EntriesStep
  <1>1. held \in [Tab -> HeldClaim \cup {Null}] /\ calls \subseteq Call
    BY DEF Inv, KeyInv, TypeOK
  <1>2. EntriesStep
    <2>1. UNCHANGED <<entries, drawn>>
      BY DEF TabStep, StartSetup, StartUnlock, StartChange, StartRegenerate,
             StartReset, StartPoll, StartWrite, StartClaim, UserLocks,
             ReceiveLockBroadcast, Reload, CancelRecovery, CancelRecoveryTicket,
             storeVars
    <2> QED
      BY <2>1, EntriesSameLemma
  <1>3. CASE \/ StartSetup(t) \/ StartUnlock(t) \/ StartChange(t)
             \/ StartRegenerate(t) \/ StartPoll(t)
             \/ \E kind \in Writes, e \in Entry, v \in Value :
                  StartWrite(t, kind, e, v)
    <2>1. \A d \in calls' : d \in calls \/ d.snap = NoSnapshot
      <3>1. CASE StartSetup(t)
        <4> PICK d : d = NewCall(t, "setup", "sent")
          OBVIOUS
        <4>1. d.snap = NoSnapshot
          BY DEF NewCall
        <4>2. calls' = calls \cup {d}
          BY <3>1 DEF StartSetup
        <4> QED
          BY <4>1, <4>2
      <3>2. CASE StartUnlock(t)
        <4> PICK d : d = [NewCall(t, "unlock", "local") EXCEPT !.key = vault.key]
          OBVIOUS
        <4>1. d.snap = NoSnapshot
          BY DEF NewCall
        <4>2. calls' = calls \cup {d}
          BY <3>2 DEF StartUnlock
        <4> QED
          BY <4>1, <4>2
      <3>3. CASE StartChange(t)
        <4> PICK d : d = [NewCall(t, "change", "local") EXCEPT !.key = vault.key]
          OBVIOUS
        <4>1. d.snap = NoSnapshot
          BY DEF NewCall
        <4>2. calls' = calls \cup {d}
          BY <3>3 DEF StartChange
        <4> QED
          BY <4>1, <4>2
      <3>4. CASE StartRegenerate(t)
        <4> PICK d : d = [NewCall(t, "regen", "local") EXCEPT
                         !.key = vault.key, !.version = vault.version]
          OBVIOUS
        <4>1. d.snap = NoSnapshot
          BY DEF NewCall
        <4>2. calls' = calls \cup {d}
          BY <3>4 DEF StartRegenerate
        <4> QED
          BY <4>1, <4>2
      <3>5. CASE StartPoll(t)
        <4> PICK d : d = [NewCall(t, "poll", "sent") EXCEPT !.session = Cookie(t)]
          OBVIOUS
        <4>1. d.snap = NoSnapshot
          BY DEF NewCall
        <4>2. calls' = calls \cup {d}
          BY <3>5 DEF StartPoll
        <4> QED
          BY <4>1, <4>2
      <3>6. CASE \E kind \in Writes, e \in Entry, v \in Value :
                   StartWrite(t, kind, e, v)
        <4> PICK kind \in Writes, e \in Entry, v \in Value :
                   StartWrite(t, kind, e, v)
          BY <3>6
        <4> PICK d : d = [NewCall(t, kind, "local") EXCEPT
                            !.key = keys[t].key, !.version = keys[t].version,
                            !.entry = e,
                            !.value = IF kind = "delete" THEN Null ELSE v]
          OBVIOUS
        <4>1. d.snap = NoSnapshot
          BY DEF NewCall
        <4>2. calls' = calls \cup {d}
          BY DEF StartWrite
        <4> QED
          BY <4>1, <4>2
      <3> QED
        BY <1>3, <3>1, <3>2, <3>3, <3>4, <3>5, <3>6
    <2>2. held' = held
      BY <1>3 DEF StartSetup, StartUnlock, StartChange, StartRegenerate,
                  StartPoll, StartWrite
    <2> QED
      BY <1>2, <2>1, <2>2, HandOnLemma, HeldSnaps, CallSnaps
  <1>4. CASE StartReset(t)
    <2>1. \A d \in calls' : d \in calls \/ d.snap = held[t].snap
      BY <1>4 DEF StartReset, NewCall
    <2>2. \A u \in Tab : held'[u] # Null => held'[u] = held[u]
      BY <1>1, <1>4 DEF StartReset
    <2>3. held[t].snap \in Snaps
      BY <1>4, HeldSnaps DEF StartReset
    <2> QED
      BY <1>2, <2>1, <2>2, <2>3, HandOnLemma, HeldSnaps, CallSnaps
  <1>5. CASE \E r \in Code : StartClaim(t, r)
    <2>1. \A u \in Tab : held'[u] # Null => held'[u] = held[u]
      BY <1>1, <1>5 DEF StartClaim
    <2>2. \A d \in calls' : d \in Supersede(t, calls) \/ d.snap = NoSnapshot
      BY <1>5 DEF StartClaim, NewCall
    <2>3. \A d \in Supersede(t, calls) : d.snap \in Snaps \cup {NoSnapshot}
      BY <1>1, SupersedeSnaps, CallSnaps
    <2> QED
      BY <1>2, <2>1, <2>2, <2>3, HandOnLemma, HeldSnaps
  <1>6. CASE UserLocks(t) \/ ReceiveLockBroadcast(t)
    <2>1. \A u \in Tab : held'[u] # Null => held'[u] = held[u]
      BY <1>1, <1>6 DEF UserLocks, ReceiveLockBroadcast, LockTab, ClearKey
    <2> PICK d : d = [NewCall(t, "lock", "sent") EXCEPT !.session = Cookie(t)]
      OBVIOUS
    <2>2. calls' = Supersede(t, calls) \/ calls' = Supersede(t, calls \cup {d})
      BY <1>6 DEF UserLocks, ReceiveLockBroadcast, LockTab, ClearKey
    <2>3. d.snap = NoSnapshot
      BY DEF NewCall
    <2>4. d \in Call
      <3>1. Cookie(t) \in Session \cup {Null}
        BY BrowserAssumption DEF Cookie, Inv, KeyInv, TypeOK
      <3> QED
        BY <3>1 DEF NewCall, Call, NoSnapshot, Snapshot, Kinds, Phases
    <2>5. \A x \in calls' : x.snap \in Snaps \cup {NoSnapshot}
      <3> PICK set : calls' = Supersede(t, set)
                       /\ (set = calls \/ set = calls \cup {d})
        BY <2>2
      <3>1. \A c \in set : c \in Call /\ c.snap \in Snaps \cup {NoSnapshot}
        BY <1>1, <2>3, <2>4, CallSnaps
      <3> QED
        BY <3>1, SupersedeSnaps
    <2> QED
      BY <1>2, <2>1, <2>5, HandOnLemma, HeldSnaps
  <1>7. CASE Reload(t)
    <2>1. \A u \in Tab : held'[u] # Null => held'[u] = held[u]
      BY <1>1, <1>7 DEF Reload
    <2>2. \A d \in calls' : \E c \in calls : d.snap = c.snap
      BY <1>1, <1>7 DEF Reload, Call
    <2> QED
      BY <1>2, <2>1, <2>2, HandOnLemma, HeldSnaps, CallSnaps
  <1>8. CASE CancelRecovery(t)
    <2>1. \A u \in Tab : held'[u] # Null => held'[u] = held[u]
      BY <1>1, <1>8 DEF CancelRecovery
    <2> QED
      BY <1>2, <1>8, <2>1, HandOnLemma, HeldSnaps, CallSnaps
      DEF CancelRecovery
  <1> QED
    BY <1>3, <1>4, <1>5, <1>6, <1>7, <1>8 DEF TabStep

(* An answer carries the snapshot of its call on.                          *)
LEMMA SameSnaps ==
  ASSUME Inv, NEW c \in calls, UNCHANGED held,
         \A d \in calls' : d \in calls \/ d.snap = c.snap
  PROVE  SnapsStep
  BY HandOnLemma, HeldSnaps, CallSnaps

LEMMA CallStepSnaps ==
  ASSUME Inv, NEW c \in calls, CallStep(c)
  PROVE  SnapsStep /\ EntriesStep
  <1>1. c \in Call /\ held \in [Tab -> HeldClaim \cup {Null}]
    BY DEF Inv, KeyInv, TypeOK
  <1>2. EntriesStep
    <2>1. UNCHANGED <<entries, drawn>>
      BY DEF CallStep, ListForChange, SendCall, LoseCall, storeVars
    <2> QED
      BY <2>1, EntriesSameLemma
  <1>3. CASE ListForChange(c)
    <2>1. \A d \in calls' : d \in calls \/ d.snap \in {c.snap, entries}
      <3> PICK d : d = [c EXCEPT !.phase = "listed", !.snap = entries]
        OBVIOUS
      <3> PICK x : x = [c EXCEPT !.phase = "unauthorized"]
        OBVIOUS
      <3>1. d.snap = entries /\ x.snap = c.snap
        BY <1>1 DEF Call
      <3>2. calls' = Replace(c, d) \/ calls' = Replace(c, x)
        BY <1>3 DEF ListForChange
      <3> QED
        BY <3>1, <3>2 DEF Replace
    <2>2. held' = held /\ entries' = entries
      BY <1>3 DEF ListForChange, storeVars
    <2> QED
      BY <1>2, <2>1, <2>2, HandOnLemma, HeldSnaps, CallSnaps
  <1>4. CASE SendCall(c)
    <2>1. held' = held
      BY <1>4 DEF SendCall
    <2> PICK d : d = [c EXCEPT
                 !.phase = "sent", !.session = Cookie(c.tab),
                 !.proof = IF c.kind \in Writes THEN keys[c.tab].key ELSE c.key]
      OBVIOUS
    <2>2. d.snap = c.snap
      BY <1>1 DEF Call
    <2>3. calls' = Replace(c, d)
      BY <1>4 DEF SendCall
    <2> QED
      BY <1>2, <2>1, <2>2, <2>3, SameSnaps DEF Replace
  <1>5. CASE LoseCall(c)
    <2>1. \A u \in Tab : held'[u] # Null
            => held'[u].snap = c.snap \/ held'[u] = held[u]
      BY <1>1, <1>5 DEF LoseCall
    <2>2. calls' \subseteq calls
      BY <1>5 DEF LoseCall
    <2>3. \A u \in Tab : held'[u] # Null => held'[u].snap \in Snaps
      BY <2>1, HeldSnaps, CallSnaps
    <2> QED
      BY <1>2, <2>2, <2>3, HandOnLemma, CallSnaps
  <1> QED
    BY <1>3, <1>4, <1>5 DEF CallStep

LEMMA AnswerStepSnaps ==
  ASSUME Inv, NEW c \in calls, AnswerStep(c)
  PROVE  SnapsStep /\ EntriesStep
  <1>1. c \in Call /\ held \in [Tab -> HeldClaim \cup {Null}]
        /\ calls \subseteq Call
    BY DEF Inv, KeyInv, TypeOK
  <1>2. EntriesStep
    <2>1. UNCHANGED <<entries, drawn>>
      BY DEF AnswerStep, InstallKey, FinishReset, HoldClaim, FinishCall,
             LockLocal, ApplyUnauthorized, FinishLock, storeVars
    <2> QED
      BY <2>1, EntriesSameLemma
  <1>3. CASE \/ calls' = calls \ {c}
             \/ calls' = Supersede(c.tab, calls \ {c})
             \/ \E t \in Tab, d \in Call :
                  /\ d.snap = NoSnapshot
                  /\ calls' = Supersede(t, (calls \ {c}) \cup {d})
    <2>1. \A x \in calls' : x.snap \in Snaps \cup {NoSnapshot}
      <3>1. CASE calls' = calls \ {c}
        BY <3>1, CallSnaps
      <3>2. CASE calls' = Supersede(c.tab, calls \ {c})
        BY <1>1, <3>2, CallSnaps, SupersedeSnaps
      <3>3. CASE \E t \in Tab, d \in Call :
                   /\ d.snap = NoSnapshot
                   /\ calls' = Supersede(t, (calls \ {c}) \cup {d})
        <4> PICK t \in Tab, d \in Call :
                   /\ d.snap = NoSnapshot
                   /\ calls' = Supersede(t, (calls \ {c}) \cup {d})
          BY <3>3
        <4>1. \A x \in (calls \ {c}) \cup {d} :
                x \in Call /\ x.snap \in Snaps \cup {NoSnapshot}
          BY <1>1, CallSnaps
        <4> QED
          BY <4>1, SupersedeSnaps
      <3> QED
        BY <1>3, <3>1, <3>2, <3>3
    <2>2. \A u \in Tab : held'[u] # Null
            => held'[u].snap = c.snap \/ held'[u] = held[u]
      BY <1>1 DEF AnswerStep, InstallKey, FinishReset, HoldClaim, FinishCall,
                  LockLocal, ApplyUnauthorized, FinishLock, LockTab, ClearKey
    <2>3. \A u \in Tab : held'[u] # Null => held'[u].snap \in Snaps
      BY <2>2, HeldSnaps, CallSnaps
    <2> QED
      BY <1>2, <2>1, <2>3, HandOnLemma
  <1>4. CASE InstallKey(c) \/ FinishCall(c) \/ FinishLock(c)
    BY <1>3, <1>4 DEF InstallKey, FinishCall, FinishLock
  <1>5. CASE FinishReset(c) \/ HoldClaim(c) \/ LockLocal(c)
    BY <1>3, <1>5 DEF FinishReset, HoldClaim, LockLocal, ClearKey
  <1>6. CASE ApplyUnauthorized(c)
    <2> PICK d : d = [NewCall(c.tab, "lock", "sent") EXCEPT
                        !.session = Cookie(c.tab)]
      OBVIOUS
    <2>1. c.tab \in Tab
      BY <1>1, <1>6 DEF ApplyUnauthorized, Call
    <2>2. d \in Call /\ d.snap = NoSnapshot
      <3>1. Cookie(c.tab) \in Session \cup {Null}
        BY <2>1, BrowserAssumption DEF Cookie, Inv, KeyInv, TypeOK
      <3> QED
        BY <2>1, <3>1 DEF NewCall, Call, NoSnapshot, Snapshot, Kinds, Phases
    <2>3. \/ calls' = calls \ {c}
          \/ calls' = Supersede(c.tab, (calls \ {c}) \cup {d})
      BY <1>6 DEF ApplyUnauthorized, LockTab, ClearKey
    <2> QED
      BY <1>3, <2>1, <2>2, <2>3
  <1> QED
    BY <1>4, <1>5, <1>6 DEF AnswerStep

(* What a rotation writes carries a fresh IV.                              *)
LEMMA RotationEntries ==
  ASSUME Inv, NEW snap \in Snapshot, NEW s,
         RotateVaultMaterial(FreshKey, Reencrypt(snap), s),
         drawn' = DrawFor(snap)
  PROVE  EntriesStep
  <1>1. drawn \in [Entry -> Nat]
    BY DEF Inv, KeyInv, TypeOK
  <1>2. ASSUME NEW e \in Entry
        PROVE  /\ drawn[e] <= drawn'[e]
               /\ \/ entries'[e] = entries[e]
                  \/ entries'[e].iv = drawn[e] + 1 /\ drawn'[e] = drawn[e] + 1
    <2>1. CASE snap[e] = Null
      BY <1>1, <2>1 DEF DrawFor, RotateVaultMaterial, ReplaceKeyEntryCiphers,
                        Reencrypt
    <2>2. CASE snap[e] # Null
      <3>1. drawn'[e] = drawn[e] + 1
        BY <2>2 DEF DrawFor, NextIv
      <3>2. Reencrypt(snap)[e] = [baseIv |-> snap[e].iv, key |-> FreshKey,
                                  iv |-> NextIv(e), value |-> snap[e].value]
        BY <2>2 DEF Reencrypt
      <3>3. CASE Reencrypt(snap)[e] = Null
        BY <1>1, <3>1, <3>3 DEF RotateVaultMaterial, ReplaceKeyEntryCiphers
      <3>4. CASE entries'[e].iv = Reencrypt(snap)[e].iv
        BY <1>1, <3>1, <3>2, <3>4 DEF NextIv
      <3> QED
        BY <3>3, <3>4 DEF RotateVaultMaterial, ReplaceKeyEntryCiphers
    <2> QED
      BY <2>1, <2>2
  <1> QED
    BY <1>2 DEF EntriesStep

LEMMA ServerStepSnaps ==
  ASSUME Inv, NEW c \in calls, ServerStep(c)
  PROVE  SnapsStep /\ EntriesStep
  <1>1. /\ c \in Call /\ CallOK(c) /\ c.snap \in Snapshot
        /\ drawn \in [Entry -> Nat] /\ entries \in Snapshot
    BY DEF Inv, KeyInv, TypeOK, StoreTypeOK, Call, Snapshot
  <1>2. held' = held
    BY DEF ServerStep, Authorize, TurnAway, AnswerPoll, HandleSetup,
           ResumeSetup, HandleLogin, HandleLock, HandleClaim, HandleReset,
           HandleChange, HandleRegenerate, HandleWrite, RefuseWrite
  <1>3. ASSUME NEW d, d.snap = c.snap,
               calls' = Replace(c, d) \/ calls' = Answer(c, d)
        PROVE  SnapsStep
    BY <1>2, <1>3, SameSnaps DEF Replace, Answer
  <1>4. ASSUME NEW phase, NEW d, d = [c EXCEPT !.phase = phase]
        PROVE  d.snap = c.snap
    BY <1>1, <1>4 DEF Call
  <1>5. CASE Authorize(c) \/ TurnAway(c) \/ AnswerPoll(c) \/ HandleLock(c)
             \/ RefuseWrite(c)
    <2>3. UNCHANGED drawn
      BY <1>5 DEF Authorize, TurnAway, AnswerPoll, HandleLock, RefuseWrite
    <2>4. UNCHANGED entries
      BY <1>5 DEF Authorize, TurnAway, AnswerPoll, HandleLock, RefuseWrite,
                  Lock, SweepStaleSession, storeVars
    <2>1. UNCHANGED <<entries, drawn>>
      BY <2>3, <2>4
    <2>2. \E phase \in Phases :
            \/ calls' = Replace(c, [c EXCEPT !.phase = phase])
            \/ calls' = Answer(c, [c EXCEPT !.phase = phase])
      <3>1. {"authorized", "unauthorized", "answered", "refused", "mismatch"}
              \subseteq Phases
        BY DEF Phases
      <3>2. CASE Authorize(c)
        BY <3>1, <3>2 DEF Authorize
      <3>3. CASE TurnAway(c)
        BY <3>1, <3>3 DEF TurnAway
      <3>4. CASE AnswerPoll(c) \/ HandleLock(c)
        BY <3>1, <3>4 DEF AnswerPoll, HandleLock
      <3>5. CASE RefuseWrite(c)
        BY <3>1, <3>5 DEF RefuseWrite
      <3> QED
        BY <1>5, <3>2, <3>3, <3>4, <3>5
    <2>5. SnapsStep
      BY <1>3, <1>4, <2>2
    <2> QED
      BY <2>1, <2>5, EntriesSameLemma
  <1>6. CASE HandleSetup(c) \/ ResumeSetup(c) \/ HandleLogin(c)
    <2>1. UNCHANGED <<entries, drawn>>
      BY <1>6 DEF HandleSetup, ResumeSetup, HandleLogin, InitializeVault,
                  FinishSetup, FailSetup, Login, storeVars
    <2>2. \E d : /\ d.snap = c.snap
                 /\ calls' = Replace(c, d) \/ calls' = Answer(c, d)
      <3>1. CASE HandleSetup(c)
        <4> PICK d : d = [c EXCEPT !.phase = "authorized", !.key = FreshKey]
          OBVIOUS
        <4> PICK x : x = [c EXCEPT !.phase = "refused"]
          OBVIOUS
        <4>1. d.snap = c.snap /\ x.snap = c.snap
          BY <1>1 DEF Call
        <4>2. calls' = Replace(c, d) \/ calls' = Answer(c, x)
          BY <3>1 DEF HandleSetup
        <4> QED
          BY <4>1, <4>2
      <3>2. CASE ResumeSetup(c) \/ HandleLogin(c)
        <4>1. ASSUME NEW s, NEW x, NEW d,
                     d = [c EXCEPT !.phase = "answered", !.session = s,
                                   !.version = x]
              PROVE  d.snap = c.snap
          BY <1>1, <4>1 DEF Call
        <4>2. \/ \E s \in Session : calls' =
                   Answer(c, [c EXCEPT !.phase = "answered", !.session = s,
                                       !.version = vault.version])
              \/ calls' = Answer(c, [c EXCEPT !.phase = "refused"])
          BY <3>2 DEF ResumeSetup, HandleLogin
        <4> QED
          BY <1>4, <4>1, <4>2
      <3> QED
        BY <1>6, <3>1, <3>2
    <2> QED
      BY <1>3, <2>1, <2>2, EntriesSameLemma
  <1>7. CASE HandleClaim(c)
    <2>1. UNCHANGED <<entries, drawn>>
      BY <1>7 DEF HandleClaim, ClaimRecoveryCode, storeVars
    <2>2. \A d \in calls' : d \in calls \/ d.snap \in {c.snap, entries}
      <3>1. ASSUME NEW t, NEW k, NEW d,
                   d = [c EXCEPT !.phase = "answered", !.ticket = t,
                                 !.key = k, !.snap = entries]
            PROVE  d.snap = entries
        BY <1>1, <3>1 DEF Call
      <3>2. \/ \E t \in Ticket : calls' =
                 Answer(c, [c EXCEPT !.phase = "answered", !.ticket = t,
                                     !.key = codes[c.code].key,
                                     !.snap = entries])
            \/ calls' = Answer(c, [c EXCEPT !.phase = "refused"])
        BY <1>7 DEF HandleClaim
      <3> PICK x : x = [c EXCEPT !.phase = "refused"]
        OBVIOUS
      <3>3. CASE calls' = Answer(c, x)
        BY <1>4, <3>3 DEF Answer
      <3>4. CASE \E t \in Ticket : calls' =
                   Answer(c, [c EXCEPT !.phase = "answered", !.ticket = t,
                                       !.key = codes[c.code].key,
                                       !.snap = entries])
        <4> PICK t \in Ticket : calls' =
                   Answer(c, [c EXCEPT !.phase = "answered", !.ticket = t,
                                       !.key = codes[c.code].key,
                                       !.snap = entries])
          BY <3>4
        <4> PICK d : d = [c EXCEPT !.phase = "answered", !.ticket = t,
                                   !.key = codes[c.code].key, !.snap = entries]
          OBVIOUS
        <4>1. d.snap = entries
          BY <3>1
        <4>2. calls' = Answer(c, d)
          OBVIOUS
        <4> QED
          BY <4>1, <4>2 DEF Answer
      <3> QED
        BY <3>2, <3>3, <3>4
    <2> QED
      BY <1>2, <2>1, <2>2, HandOnLemma, HeldSnaps, CallSnaps, EntriesSameLemma
  <1>8. CASE HandleReset(c) \/ HandleChange(c)
    <2>1. CASE RefuseCall(c)
      <3>1. UNCHANGED <<entries, drawn>>
        BY <2>1 DEF RefuseCall, storeVars
      <3>2. calls' = Answer(c, [c EXCEPT !.phase = "refused"])
        BY <2>1 DEF RefuseCall
      <3> QED
        BY <1>3, <1>4, <3>1, <3>2, EntriesSameLemma
    <2>2. CASE \E s \in Session :
                 /\ RotateVaultMaterial(FreshKey, Reencrypt(c.snap), s)
                 /\ calls' = RotationAnswer(c, s)
                 /\ drawn' = DrawFor(c.snap)
      <3> PICK s \in Session :
                 /\ RotateVaultMaterial(FreshKey, Reencrypt(c.snap), s)
                 /\ calls' = RotationAnswer(c, s)
                 /\ drawn' = DrawFor(c.snap)
        BY <2>2
      <3> PICK d : d = [c EXCEPT !.phase = "answered", !.session = s,
                                 !.key = FreshKey, !.version = vault.version + 1]
        OBVIOUS
      <3>1. d.snap = c.snap
        BY <1>1 DEF Call
      <3>2. calls' = Answer(c, d)
        BY DEF RotationAnswer
      <3> QED
        BY <1>1, <1>3, <3>1, <3>2, RotationEntries
    <2> QED
      BY <1>8, <2>1, <2>2 DEF HandleReset, HandleChange,
           ResetVaultFromRecovery, ChangeMasterPassword
  <1>9. CASE HandleRegenerate(c)
    <2>1. UNCHANGED <<entries, drawn>>
      BY <1>9 DEF HandleRegenerate, RegenerateRecoveryCodes, RefuseCall,
                  storeVars
    <2>2. \E phase \in Phases : calls' = Answer(c, [c EXCEPT !.phase = phase])
      BY <1>9 DEF HandleRegenerate, RefuseCall, Phases
    <2> QED
      BY <1>3, <1>4, <2>1, <2>2, EntriesSameLemma
  <1>10. CASE HandleWrite(c)
    <2>1. calls' = Answer(c, [c EXCEPT !.phase = "answered"])
      BY <1>10 DEF HandleWrite
    <2>2. c.entry \in Entry /\ CipherOf(c).iv = drawn[c.entry] + 1
      BY <1>1, <1>10 DEF HandleWrite, CallOK, CipherOf, NextIv
    <2>3. ASSUME entries' = [entries EXCEPT ![c.entry] = CipherOf(c)],
                 drawn' = [drawn EXCEPT ![c.entry] = NextIv(c.entry)]
          PROVE  EntriesStep
      <3>1. ASSUME NEW e \in Entry, e # c.entry
            PROVE  entries'[e] = entries[e] /\ drawn'[e] = drawn[e]
        BY <1>1, <2>3, <3>1 DEF Snapshot
      <3>2. /\ entries'[c.entry].iv = drawn[c.entry] + 1
            /\ drawn'[c.entry] = drawn[c.entry] + 1
        BY <1>1, <2>2, <2>3 DEF NextIv, Snapshot
      <3>3. ASSUME NEW e \in Entry
            PROVE  drawn[e] <= drawn'[e]
        <4>1. drawn[e] \in Nat
          BY <1>1
        <4> QED
          BY <3>1, <3>2, <4>1
      <3> QED
        BY <3>1, <3>2, <3>3 DEF EntriesStep
    <2>4. ASSUME entries' = [entries EXCEPT ![c.entry] = Null], drawn' = drawn
          PROVE  EntriesStep
      <3>1. \A e \in Entry : entries'[e] = entries[e] \/ entries'[e] = Null
        BY <1>1, <2>4 DEF Snapshot
      <3>2. \A e \in Entry : drawn[e] \in Nat /\ drawn'[e] = drawn[e]
        BY <1>1, <2>4
      <3>3. \A e \in Entry : drawn[e] <= drawn'[e]
        BY <3>2
      <3> QED
        BY <3>1, <3>3 DEF EntriesStep
    <2>5. EntriesStep
      BY <1>10, <2>3, <2>4 DEF HandleWrite, CreateKeyEntry, UpdateKeyEntry,
                               DeleteKeyEntry
    <2> PICK d : d = [c EXCEPT !.phase = "answered"]
      OBVIOUS
    <2>6. d.snap = c.snap /\ calls' = Answer(c, d)
      BY <1>4, <2>1
    <2> QED
      BY <1>3, <2>5, <2>6
  <1> QED
    BY <1>5, <1>6, <1>7, <1>8, <1>9, <1>10 DEF ServerStep

LEMMA IvNextLemma ==
  ASSUME Inv, Inv', [Next]_vars, IvInv
  PROVE  IvInv'
  <1>1. CASE UNCHANGED clientVars /\ (Clock \/ UNCHANGED storeVars)
    <2>1. UNCHANGED <<entries, drawn, calls, held>>
      BY <1>1 DEF Clock, SessionTimesOut, TicketExpires, storeVars, clientVars
    <2>2. SnapsStep
      BY <2>1 DEF SnapsStep, Snaps
    <2> QED
      BY <2>1, <2>2, EntriesSameLemma, IvStepLemma
  <1>2. CASE SnapsStep /\ EntriesStep
    BY <1>2, IvStepLemma
  <1> QED
    BY <1>1, <1>2, TabSnaps, CallStepSnaps, ServerStepSnaps, AnswerStepSnaps
    DEF Next, vars

LEMMA IvInitLemma == Init => IvInv
  BY DEF Init, StoreInit, IvInv, Snaps

(* The version of a vault that has one changes only in a rotation, and     *)
(* what the rotation writes are the values of a snapshot that still has    *)
(* the IVs of the entries.                                                 *)
RotationKeeps ==
  vault.version \notin {0, vault'.version} =>
    \A e \in Entry :
      /\ entries[e] = Null <=> entries'[e] = Null
      /\ entries[e] # Null => entries'[e].value = entries[e].value

LEMMA KeepsLemma ==
  ASSUME Inv, IvInv, NEW c \in calls, IvsLeft(c.snap), NEW s,
         RotateVaultMaterial(FreshKey, Reencrypt(c.snap), s)
  PROVE  RotationKeeps
  <1> SUFFICES ASSUME NEW e \in Entry
               PROVE  /\ entries[e] = Null <=> entries'[e] = Null
                      /\ entries[e] # Null
                           => entries'[e].value = entries[e].value
    BY DEF RotationKeeps
  <1>1. SnapOK(c.snap)
    BY CallSnaps DEF IvInv
  <1>2. /\ Reencrypt(c.snap)[e] = Null <=> entries[e] = Null
        /\ entries[e] # Null => Reencrypt(c.snap)[e].baseIv = entries[e].iv
    BY DEF RotateVaultMaterial, EntriesMatchVault
  <1>3. entries' = ReplaceKeyEntryCiphers(Reencrypt(c.snap), vault.version + 1)
    BY DEF RotateVaultMaterial
  <1>4. CASE entries[e] = Null
    BY <1>2, <1>3, <1>4 DEF ReplaceKeyEntryCiphers
  <1>5. CASE entries[e] # Null
    <2>1. c.snap[e] # Null
      BY <1>2, <1>5 DEF Reencrypt
    <2>2. Reencrypt(c.snap)[e] = [baseIv |-> c.snap[e].iv, key |-> FreshKey,
                                  iv |-> NextIv(e), value |-> c.snap[e].value]
      BY <2>1 DEF Reencrypt
    <2>3. c.snap[e].value = entries[e].value
      BY <1>1, <1>2, <1>5, <2>1, <2>2 DEF SnapOK
    <2>4. entries'[e] = [key |-> FreshKey, version |-> vault.version + 1,
                         iv |-> NextIv(e), value |-> c.snap[e].value]
      BY <1>2, <1>3, <1>5, <2>2 DEF ReplaceKeyEntryCiphers
    <2>5. entries'[e] # Null
      <3>1. c.snap \in Snapshot /\ vault.version < MaxVersion
            /\ vault.version \in Nat
        BY DEF Inv, KeyInv, TypeOK, Call, StoreInv, StoreTypeOK,
               RotateVaultMaterial
      <3>2. Reencrypt(c.snap)[e] \in Reencrypted
        BY <1>2, <1>5, <3>1, ReencryptLemma
      <3>3. vault.version + 1 \in Version
        BY <3>1, BoundsAssumption DEF Version
      <3>4. FreshKey \in Key /\ NextIv(e) \in Iv /\ c.snap[e].value \in Value
        BY <2>2, <3>2 DEF Reencrypted
      <3>5. entries'[e] \in Cipher
        BY <2>4, <3>3, <3>4 DEF Cipher
      <3> QED
        BY <3>5, NullAssumption
    <2> QED
      BY <1>5, <2>3, <2>4, <2>5
  <1> QED
    BY <1>4, <1>5

(* A step that changes the version of a vault that has one is a rotation.  *)
LEMMA RotationStep == Inv /\ IvInv /\ [Next]_vars => [RotationKeeps]_vars
  <1> SUFFICES ASSUME Inv, IvInv, Next, vault.version \notin {0, vault'.version}
               PROVE  RotationKeeps
    BY DEF RotationKeeps
  <1>1. ASSUME NEW c \in calls, HandleReset(c) \/ HandleChange(c)
        PROVE  RotationKeeps
    <2>1. \E s \in Session :
            /\ IvsLeft(c.snap)
            /\ RotateVaultMaterial(FreshKey, Reencrypt(c.snap), s)
      BY <1>1 DEF HandleReset, HandleChange, RefuseCall, storeVars,
                  ResetVaultFromRecovery, ChangeMasterPassword
    <2> QED
      BY <2>1, KeepsLemma
  <1>2. ASSUME NEW c \in calls, ServerStep(c)
        PROVE  HandleReset(c) \/ HandleChange(c)
    <2>1. vault.version # 0 => ~InitializeVault(FreshKey)
      BY DEF InitializeVault, Inv, StoreInv, SetupPhases
    <2> QED
      BY <1>2, <2>1
      DEF ServerStep, Authorize, TurnAway, AnswerPoll, HandleSetup,
          ResumeSetup, HandleLogin, HandleLock, HandleClaim,
          HandleRegenerate, HandleWrite, RefuseWrite, RefuseCall,
          SweepStaleSession, FinishSetup, FailSetup, Login, Lock,
          ClaimRecoveryCode, RegenerateRecoveryCodes, CreateKeyEntry,
          UpdateKeyEntry, DeleteKeyEntry, storeVars
  <1>3. \A c \in calls : ~CallStep(c) /\ ~AnswerStep(c)
    BY DEF CallStep, ListForChange, SendCall, LoseCall, AnswerStep,
           InstallKey, FinishReset, HoldClaim, FinishCall, LockLocal,
           ApplyUnauthorized, FinishLock, storeVars
  <1>4. \A t \in Tab : ~TabStep(t)
    BY DEF TabStep, StartSetup, StartUnlock, StartChange, StartRegenerate,
           StartReset, StartPoll, StartWrite, StartClaim, UserLocks,
           ReceiveLockBroadcast, Reload, CancelRecovery,
           CancelRecoveryTicket, storeVars
  <1>5. ~(Clock /\ UNCHANGED clientVars)
    BY DEF Clock, SessionTimesOut, TicketExpires
  <1> QED
    BY <1>1, <1>2, <1>3, <1>4, <1>5 DEF Next

(* A rotation loses no entry and no edit: nothing is committed between the *)
(* client's read of the entries and its request that its snapshot misses.  *)
THEOREM RotationsKeepValues ==
  ASSUME ~UnlockDuringSetup
  PROVE  Spec => RotationKeepsValues
  <1>1. Init => Inv /\ IvInv
    BY KeyInitLemma, IvInitLemma
  <1>2. Inv /\ IvInv /\ [Next]_vars => (Inv /\ IvInv)'
    BY KeyStepLemma, IvNextLemma
  <1>3. Inv /\ IvInv /\ [Next]_vars => [RotationKeeps]_vars
    BY RotationStep
  <1> QED
    BY <1>1, <1>2, <1>3, PTL DEF Spec, RotationKeepsValues, RotationKeeps

-----------------------------------------------------------------------------
(* KeyPage implements KeyBox, for every set of tabs, browsers, entries,    *)
(* codes, sessions and tickets, and every bound.                           *)


(* The mapping of Box, named.                                              *)
Contents ==
  [e \in Entry |-> IF entries[e] # Null /\ entries[e].key = vault.key
                   THEN entries[e].value ELSE Null]

Opening == {r \in Code : ~codes[r].used /\ codes[r].key = vault.key}

(* What the mapping says when nothing is stranded: the plain contents of   *)
(* the tables.                                                             *)
Plain ==
  /\ Contents = [e \in Entry |-> IF entries[e] # Null
                                  THEN entries[e].value ELSE Null]
  /\ Opening = {r \in Code : ~codes[r].used}
  /\ vault.version \in Nat

LEMMA PlainReading == Inv => Plain
  <1> SUFFICES ASSUME Inv PROVE Plain
    OBVIOUS
  <1>1. /\ \A e \in Entry : entries[e] # Null => entries[e].key = vault.key
        /\ \A r \in Code : codes[r].key = vault.key
    BY DEF Inv, KeyInv, VaultOK, StoreInv, StampsCurrent
  <1>2. vault.version \in Nat
    BY DEF Inv, StoreInv, StoreTypeOK
  <1> QED
    BY <1>1, <1>2 DEF Contents, Opening, Plain

LEMMA PlainNext == Inv' => Plain'
  BY PlainReading, PTL

(* A step that leaves the vault, the entries and the codes alone is none   *)
(* of the box's.                                                           *)
LEMMA BoxStutters ==
  ASSUME UNCHANGED <<vault, entries, codes>>
  PROVE  UNCHANGED Box!boxVars
  BY DEF Box!boxVars

(* A new Master Password hands out a full batch and touches no value.      *)
LEMMA BoxNewPassword ==
  ASSUME Inv, Inv', NEW k, NEW v,
         codes' = ReplaceRecoveryCodes(k, v),
         vault'.version = vault.version + 1,
         \A e \in Entry :
           /\ entries[e] = Null <=> entries'[e] = Null
           /\ entries[e] # Null => entries'[e].value = entries[e].value
  PROVE  Box!NewPassword
  <1>1. Opening' = Code
    BY PlainNext DEF Plain, ReplaceRecoveryCodes
  <1>2. Contents' = Contents
    BY PlainReading, PlainNext DEF Plain
  <1> QED
    BY <1>1, <1>2 DEF Box!NewPassword, Contents, Opening

(* Renewed codes are a full batch again.                                   *)
LEMMA BoxNewCodes ==
  ASSUME Inv, Inv', NEW c \in calls, HandleRegenerate(c)
  PROVE  Box!NewCodes \/ UNCHANGED Box!boxVars
  <1>1. CASE RegenerateRecoveryCodes(c.session, c.proof, c.key, c.version)
    <2>1. /\ vault.version > 0 /\ UNCHANGED <<vault, entries>>
          /\ codes' = ReplaceRecoveryCodes(c.key, vault.version)
      BY <1>1 DEF RegenerateRecoveryCodes, ProofHolds, Initialized
    <2>2. Opening' = Code
      BY <2>1, PlainNext DEF Plain, ReplaceRecoveryCodes
    <2>3. Contents' = Contents
      BY <2>1 DEF Contents
    <2> QED
      BY <2>1, <2>2, <2>3 DEF Box!NewCodes, Contents, Opening
  <1>2. CASE UNCHANGED storeVars
    BY <1>2, BoxStutters DEF storeVars
  <1> QED
    BY <1>1, <1>2 DEF HandleRegenerate, RefuseCall

(* A claim spends the code it names.                                       *)
LEMMA BoxSpends ==
  ASSUME Inv, Inv', NEW r \in Code, NEW t \in Ticket, ClaimRecoveryCode(r, t)
  PROVE  Box!SpendCode(r)
  <1>1. /\ ~codes[r].used /\ codes' = [codes EXCEPT ![r].used = TRUE]
        /\ UNCHANGED <<vault, entries>>
        /\ codes \in [Code -> [key: Nat, version: Nat, used: BOOLEAN]]
    BY DEF ClaimRecoveryCode, Inv, StoreInv, StoreTypeOK
  <1>2. r \in Opening /\ Opening' = Opening \ {r}
    BY <1>1, PlainReading, PlainNext DEF Plain
  <1>3. Contents' = Contents
    BY <1>1 DEF Contents
  <1> QED
    BY <1>1, <1>2, <1>3 DEF Box!SpendCode, Contents, Opening

(* A write puts or removes what it says under the id it says.              *)
LEMMA BoxWrites ==
  ASSUME Inv, Inv', NEW c \in calls, HandleWrite(c)
  PROVE  Box!BoxNext
  <1>1. /\ c.entry \in Entry /\ vault.version > 0 /\ UNCHANGED <<vault, codes>>
        /\ entries \in [Entry -> Cipher \cup {Null}]
    BY DEF Inv, KeyInv, CallOK, StoreInv, StoreTypeOK, HandleWrite,
           CreateKeyEntry, UpdateKeyEntry, DeleteKeyEntry, ProofHolds,
           Initialized
  <1>2. Opening' = Opening
    BY <1>1 DEF Opening
  <1>3. CASE entries' = [entries EXCEPT ![c.entry] = Null]
    <2>1. Contents' = [Contents EXCEPT ![c.entry] = Null]
      BY <1>1, <1>3, PlainReading, PlainNext DEF Plain
    <2>2. Box!Remove(c.entry)
      BY <1>1, <1>2, <2>1 DEF Box!Remove, Contents, Opening
    <2> QED
      BY <1>1, <2>2 DEF Box!BoxNext
  <1>4. CASE /\ c.kind \in {"create", "update"} /\ NextIv(c.entry) <= MaxIv
             /\ entries' = [entries EXCEPT ![c.entry] = CipherOf(c)]
    <2>1. CipherOf(c) \in Cipher /\ c.kind \in Writes
      BY <1>4, CipherLemma DEF Writes
    <2>2. CipherOf(c) # Null /\ CipherOf(c).value = c.value /\ c.value \in Value
      BY <2>1, NullAssumption DEF CipherOf, Cipher
    <2>3. Contents' = [Contents EXCEPT ![c.entry] = c.value]
      BY <1>1, <1>4, <2>2, PlainReading, PlainNext DEF Plain
    <2>4. Box!Put(c.entry, c.value)
      BY <1>1, <1>2, <2>3 DEF Box!Put, Contents, Opening
    <2> QED
      BY <1>1, <2>2, <2>4 DEF Box!BoxNext
  <1> QED
    BY <1>3, <1>4 DEF HandleWrite, CreateKeyEntry, UpdateKeyEntry,
                      DeleteKeyEntry

-----------------------------------------------------------------------------
(* The steps of the tabs, of the clock and of most handlers leave the box  *)
(* alone.                                                                  *)
LEMMA BoxIgnores ==
  ASSUME Inv, [Next]_vars,
         \A c \in calls : /\ ~HandleSetup(c) /\ ~HandleClaim(c)
                          /\ ~HandleReset(c) /\ ~HandleChange(c)
                          /\ ~HandleRegenerate(c) /\ ~HandleWrite(c)
  PROVE  UNCHANGED <<vault, entries, codes>>
  <1>1. ASSUME NEW c \in calls, ServerStep(c)
        PROVE  UNCHANGED <<vault, entries, codes>>
    BY <1>1
    DEF ServerStep, Authorize, TurnAway, AnswerPoll, ResumeSetup, HandleLogin,
        HandleLock, RefuseWrite, SweepStaleSession, FinishSetup, FailSetup,
        Login, Lock, storeVars
  <1>2. ASSUME NEW c \in calls, CallStep(c) \/ AnswerStep(c)
        PROVE  UNCHANGED <<vault, entries, codes>>
    BY <1>2
    DEF CallStep, ListForChange, SendCall, LoseCall, AnswerStep, InstallKey,
        FinishReset, HoldClaim, FinishCall, LockLocal, ApplyUnauthorized,
        FinishLock, storeVars
  <1>3. ASSUME NEW t \in Tab, TabStep(t)
        PROVE  UNCHANGED <<vault, entries, codes>>
    BY <1>3
    DEF TabStep, StartSetup, StartUnlock, StartChange, StartRegenerate,
        StartReset, StartPoll, StartWrite, StartClaim, UserLocks,
        ReceiveLockBroadcast, Reload, CancelRecovery, CancelRecoveryTicket,
        storeVars
  <1>4. CASE Clock \/ UNCHANGED vars
    BY <1>4 DEF Clock, SessionTimesOut, TicketExpires, vars, storeVars
  <1> QED
    BY <1>1, <1>2, <1>3, <1>4 DEF Next

(* The others are moves of the box.                                        *)
LEMMA BoxMoves ==
  ASSUME Inv, Inv', IvInv, RotationKeeps, NEW c \in calls,
         \/ HandleSetup(c) \/ HandleClaim(c) \/ HandleReset(c)
         \/ HandleChange(c) \/ HandleRegenerate(c) \/ HandleWrite(c)
  PROVE  Box!BoxNext \/ UNCHANGED Box!boxVars
  <1>1. CASE HandleSetup(c)
    <2>1. CASE InitializeVault(FreshKey)
      <3>1. /\ codes' = ReplaceRecoveryCodes(FreshKey, 1) /\ entries' = entries
            /\ vault.version = 0 /\ vault'.version = 1
        BY <2>1 DEF InitializeVault, Inv, StoreInv, SetupPhases
      <3> QED
        BY <3>1, BoxNewPassword DEF Box!BoxNext
    <2>2. CASE UNCHANGED storeVars
      BY <2>2, BoxStutters DEF storeVars
    <2> QED
      BY <1>1, <2>1, <2>2 DEF HandleSetup
  <1>2. CASE HandleClaim(c)
    <2>1. CASE \E t \in Ticket : ClaimRecoveryCode(c.code, t)
      <3>1. c.code \in Code
        BY <1>2 DEF HandleClaim, Inv, KeyInv, CallOK
      <3> QED
        BY <2>1, <3>1, BoxSpends DEF Box!BoxNext
    <2>2. CASE UNCHANGED storeVars
      BY <2>2, BoxStutters DEF storeVars
    <2> QED
      BY <1>2, <2>1, <2>2 DEF HandleClaim
  <1>3. CASE HandleReset(c) \/ HandleChange(c)
    <2>1. CASE \E s \in Session :
                 RotateVaultMaterial(FreshKey, Reencrypt(c.snap), s)
      <3>1. vault'.version = vault.version + 1
            /\ codes' = ReplaceRecoveryCodes(FreshKey, vault.version + 1)
        BY <2>1 DEF RotateVaultMaterial
      <3>2. CASE vault.version = 0
        <4>1. ~ProofHolds(c.proof)
          BY <3>2 DEF ProofHolds, Initialized
        <4> QED
          BY <1>3, <2>1, <3>1, <4>1, <3>2
          DEF HandleReset, HandleChange, ResetVaultFromRecovery,
              ChangeMasterPassword, RefuseCall, storeVars
      <3>3. CASE vault.version # 0
        <4>1. vault.version \notin {0, vault'.version}
          BY <3>1, <3>3, PlainReading DEF Plain
        <4> QED
          BY <3>1, <4>1, BoxNewPassword DEF RotationKeeps, Box!BoxNext
      <3> QED
        BY <3>2, <3>3
    <2>2. CASE UNCHANGED storeVars
      BY <2>2, BoxStutters DEF storeVars
    <2> QED
      BY <1>3, <2>1, <2>2
      DEF HandleReset, HandleChange, ResetVaultFromRecovery,
          ChangeMasterPassword, RefuseCall
  <1>4. CASE HandleRegenerate(c)
    BY <1>4, BoxNewCodes DEF Box!BoxNext
  <1>5. CASE HandleWrite(c)
    BY <1>5, BoxWrites
  <1> QED
    BY <1>1, <1>2, <1>3, <1>4, <1>5

LEMMA BoxStepLemma ==
  ASSUME Inv, Inv', IvInv, RotationKeeps, [Next]_vars
  PROVE  [Box!BoxNext]_(Box!boxVars)
  BY BoxIgnores, BoxMoves, BoxStutters

LEMMA BoxInitLemma == Init => Box!BoxInit
  BY DEF Init, StoreInit, Box!BoxInit

(* Whatever the tabs, the server, the clock and the network do, the users  *)
(* have the box: an entry reads as it was last written, a new password     *)
(* touches none, and each code of the last batch opens it once.            *)
THEOREM ImplementsKeyBox ==
  ASSUME ~UnlockDuringSetup
  PROVE  Spec => KeepsThePromise
  <1>1. Init => Inv /\ IvInv /\ Box!BoxInit
    BY KeyInitLemma, IvInitLemma, BoxInitLemma
  <1>2. Inv /\ IvInv /\ [Next]_vars => (Inv /\ IvInv)'
    BY KeyStepLemma, IvNextLemma
  <1>3. Inv /\ IvInv /\ [Next]_vars => [RotationKeeps]_vars
    BY RotationStep
  <1>4. Inv /\ Inv' /\ IvInv /\ [Next]_vars => [Box!BoxNext]_(Box!boxVars)
    <2>1. UNCHANGED vars => UNCHANGED Box!boxVars
      BY BoxStutters DEF vars, storeVars
    <2> QED
      BY <1>3, <2>1, BoxStepLemma
  <1> QED
    BY <1>1, <1>2, <1>4, PTL DEF Spec, KeepsThePromise, Box!BoxSpec
=============================================================================
