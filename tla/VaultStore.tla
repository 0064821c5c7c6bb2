----------------------------- MODULE VaultStore -----------------------------
(***************************************************************************)
(* The vault database of the KeyPage API: the vault_auth row, key entries, *)
(* recovery codes, recovery tickets and sessions, and every transaction    *)
(* the routes run on them (apps/api/src/auth/vault-repo.ts,                *)
(* keys/key-entry-repo.ts, auth/sessions.ts, routes/vault.ts,              *)
(* routes/key-entries.ts).                                                 *)
(*                                                                         *)
(* The server never sees a key, so this module trusts nothing a client     *)
(* sends: StoreNext takes the contents of every request from the whole of  *)
(* their types.  KeyPage composes the same transactions with the browser   *)
(* tabs that call them.                                                    *)
(*                                                                         *)
(* Abstractions.  A key derived from (Master Password, KDF salt) is a      *)
(* number, and a client proof for a challenge holds iff it was made with   *)
(* the key whose stored digest the vault keeps.  A ciphertext is the       *)
(* record of what the properties tell apart: the key that opens it, the    *)
(* version it declares, its IV and its plaintext.  Time only matters       *)
(* through what has expired.  A request that is refused changes nothing    *)
(* here, so a refusal is not a step; the throttle and challenge rows it    *)
(* may write belong to other modules.                                      *)
(***************************************************************************)
EXTENDS Naturals

CONSTANTS
  Entry,       \* ids of key entries
  Value,       \* plaintext key values
  Code,        \* the recovery codes of one batch
  Session,     \* ids of sessions, finite: bounds how many are created
  Ticket,      \* ids of recovery tickets: bounds how many are claimed
  Null,        \* no row, no value
  MaxVersion,  \* bound on vault_auth.key_version
  MaxIv        \* bound on the IVs drawn for one entry

ASSUME BoundsAssumption == MaxVersion \in Nat \ {0} /\ MaxIv \in Nat \ {0}

Key == 1..MaxVersion
Version == 1..MaxVersion
Iv == 1..MaxIv
Cipher == [key: Key, version: Version, iv: Iv, value: Value]

ASSUME NullAssumption == Null \notin Cipher

VARIABLES
  vault,     \* vault_auth: the key behind auth_stored_key, and key_version
  setup,     \* progress of POST /setup
  entries,   \* key_entries: the ciphertext of each id, or Null
  codes,     \* recovery_codes: the key each wraps, its key_version, used_at
  tickets,   \* recovery_tickets: status and recovery_code_id
  sessions,  \* sessions: status of each id
  late       \* history: sessions POST /setup made beside an open ticket

storeVars == <<vault, setup, entries, codes, tickets, sessions, late>>

SessionStatus == {"none", "live", "stale", "revoked"}
TicketStatus == {"none", "open", "dead"}

StoreTypeOK ==
  /\ vault \in [key: Nat, version: Nat]
  /\ setup \in {"open", "consuming", "done"}
  /\ entries \in [Entry -> Cipher \cup {Null}]
  /\ codes \in [Code -> [key: Nat, version: Nat, used: BOOLEAN]]
  /\ tickets \in [Ticket -> [status: TicketStatus, code: Code]]
  /\ sessions \in [Session -> SessionStatus]
  /\ late \subseteq Session

StoreInit ==
  /\ vault = [key |-> 0, version |-> 0]
  /\ setup = "open"
  /\ entries = [e \in Entry |-> Null]
  /\ codes = [c \in Code |-> [key |-> 0, version |-> 0, used |-> TRUE]]
  /\ tickets \in [Ticket -> [status: {"none"}, code: Code]]
  /\ sessions = [s \in Session |-> "none"]
  /\ late = {}

-----------------------------------------------------------------------------
(* Queries.                                                                *)

Initialized == vault.version > 0

OpenTickets == {t \in Ticket : tickets[t].status = "open"}

(* resolveSession: the row exists, is not revoked, and neither timeout has *)
(* passed.  isSessionActive looks at revoked_at alone.                     *)
SessionResolves(s) == s \in Session /\ sessions[s] = "live"
SessionActive(s) == s \in Session /\ sessions[s] \in {"live", "stale"}

(* Fault: the session and the tickets are not looked at again inside the  *)
(* transaction.                                                           *)
MutationsUnchecked(s) == s \in Session

MutationsAllowed(s) == SessionActive(s) /\ OpenTickets = {}

(* verifyClientProof against auth_stored_key (recovery_stored_key is       *)
(* derived from the same master key and is replaced with it).              *)
ProofHolds(k) == Initialized /\ k = vault.key

-----------------------------------------------------------------------------
(* Fragments of transactions.                                              *)

(* Fault: sessions past their timeout are taken for closed already.        *)
RevokeLiveSessions ==
  [s \in Session |-> IF SessionResolves(s) THEN "revoked" ELSE sessions[s]]

RevokeAllSessions ==
  [s \in Session |-> IF SessionActive(s) THEN "revoked" ELSE sessions[s]]

RevokeSession(old) ==
  [s \in Session |-> IF s = old /\ SessionActive(s) THEN "revoked"
                                                     ELSE sessions[s]]

CreateSession(table, s) == [table EXCEPT ![s] = "live"]

(* Fault: the rows are updated in place and keep their used_at.            *)
RewrapRecoveryCodes(k, v) ==
  [c \in Code |-> [key |-> k, version |-> v, used |-> codes[c].used]]

(* DELETE FROM recovery_codes, then one INSERT per envelope.               *)
ReplaceRecoveryCodes(k, v) ==
  [c \in Code |-> [key |-> k, version |-> v, used |-> FALSE]]

(* recovery_code_id REFERENCES recovery_codes ON DELETE CASCADE: no ticket *)
(* survives a replacement of the codes.  A row that is gone and a row that *)
(* is consumed or expired answer every query alike.                        *)
CloseTickets ==
  [t \in Ticket |-> IF tickets[t].status = "open"
                    THEN [tickets[t] EXCEPT !.status = "dead"]
                    ELSE tickets[t]]

(* Fault: the submission is compared by id only.                           *)
EntriesMatchById(submitted) ==
  \A e \in Entry : submitted[e] = Null <=> entries[e] = Null

(* assertEntriesMatchVault: the submission names each stored id exactly    *)
(* once, with the IV the stored ciphertext has now.                        *)
EntriesMatchVault(submitted) ==
  \A e \in Entry :
    /\ submitted[e] = Null <=> entries[e] = Null
    /\ entries[e] # Null => submitted[e].baseIv = entries[e].iv

(* Fault: the stamp is left at the column's default.                       *)
ReplaceUnstamped(submitted, v) ==
  [e \in Entry |->
     IF submitted[e] = Null THEN entries[e]
     ELSE [key |-> submitted[e].key, version |-> 0,
           iv |-> submitted[e].iv, value |-> submitted[e].value]]

(* replaceKeyEntryCiphers: the stamp is the server's, not the client's.    *)
ReplaceKeyEntryCiphers(submitted, v) ==
  [e \in Entry |->
     IF submitted[e] = Null THEN entries[e]
     ELSE [key |-> submitted[e].key, version |-> v,
           iv |-> submitted[e].iv, value |-> submitted[e].value]]

Reencrypted == [baseIv: Iv, key: Key, iv: Iv, value: Value]

(* rotateVaultMaterial: the body shared by a Master Password change and a  *)
(* recovery reset.                                                         *)
RotateVaultMaterial(k, submitted, s) ==
  /\ vault.version < MaxVersion
  /\ EntriesMatchVault(submitted)
  /\ sessions[s] = "none"
  /\ vault' = [key |-> k, version |-> vault.version + 1]
  /\ entries' = ReplaceKeyEntryCiphers(submitted, vault.version + 1)
  /\ codes' = ReplaceRecoveryCodes(k, vault.version + 1)
  /\ tickets' = CloseTickets
  /\ sessions' = CreateSession(RevokeAllSessions, s)
  /\ UNCHANGED <<setup, late>>

-----------------------------------------------------------------------------
(* Vault routes.                                                           *)

(* POST /setup up to its await: initializeVault commits, then the handler  *)
(* waits for the token file to be removed.                                 *)
InitializeVault(k) ==
  /\ setup = "open"
  /\ vault' = [key |-> k, version |-> 1]
  /\ codes' = ReplaceRecoveryCodes(k, 1)
  /\ setup' = "consuming"
  /\ UNCHANGED <<entries, tickets, sessions, late>>

(* ... and from there: the session of the answer.  Unlike a login this      *)
(* closes no ticket, and the vault could be used during the wait.          *)
FinishSetup(s) ==
  /\ setup = "consuming"
  /\ sessions[s] = "none"
  /\ setup' = "done"
  /\ sessions' = CreateSession(sessions, s)
  /\ late' = IF OpenTickets = {} THEN late ELSE late \cup {s}
  /\ UNCHANGED <<vault, entries, codes, tickets>>

(* Removing the token file failed, or the process died first: the vault is *)
(* claimed and the answer is an error.                                     *)
FailSetup ==
  /\ setup = "consuming"
  /\ setup' = "done"
  /\ UNCHANGED <<vault, entries, codes, tickets, sessions, late>>

(* POST /login with a proof made by key k; old is the session in the       *)
(* cookie, or Null.                                                        *)
Login(k, old, s) ==
  /\ ProofHolds(k)
  /\ sessions[s] = "none"
  /\ sessions' = CreateSession(RevokeSession(old), s)
  /\ tickets' = CloseTickets
  /\ UNCHANGED <<vault, setup, late, entries, codes>>

(* POST /lock, and every other place where resolveSession meets a session  *)
(* past its timeout and revokes it.                                        *)
Lock(s) ==
  /\ SessionActive(s)
  /\ sessions' = RevokeSession(s)
  /\ UNCHANGED <<vault, setup, late, entries, codes, tickets>>

SweepStaleSession(s) ==
  /\ s \in Session /\ sessions[s] = "stale"
  /\ sessions' = RevokeSession(s)
  /\ UNCHANGED <<vault, setup, late, entries, codes, tickets>>

(* The idle or the absolute timeout of a session passes.                   *)
SessionTimesOut(s) ==
  /\ sessions[s] = "live"
  /\ sessions' = [sessions EXCEPT ![s] = "stale"]
  /\ UNCHANGED <<vault, setup, late, entries, codes, tickets>>

(* Fault: used_at is not part of the lookup.                               *)
ClaimUsedCode(c, t) ==
  /\ Initialized
  /\ tickets[t].status = "none"
  /\ codes' = [codes EXCEPT ![c].used = TRUE]
  /\ tickets' = [tickets EXCEPT ![t] = [status |-> "open", code |-> c]]
  /\ sessions' = RevokeAllSessions
  /\ UNCHANGED <<vault, setup, late, entries>>

(* POST /recovery/claim: all it asks of the vault is that there is one.    *)
ClaimRecoveryCode(c, t) ==
  /\ Initialized
  /\ ~codes[c].used
  /\ tickets[t].status = "none"
  /\ codes' = [codes EXCEPT ![c].used = TRUE]
  /\ tickets' = [tickets EXCEPT ![t] = [status |-> "open", code |-> c]]
  /\ sessions' = RevokeAllSessions
  /\ UNCHANGED <<vault, setup, late, entries>>

CancelRecoveryTicket(t) ==
  /\ tickets[t].status = "open"
  /\ tickets' = [tickets EXCEPT ![t].status = "dead"]
  /\ UNCHANGED <<vault, setup, late, entries, codes, sessions>>

(* RECOVERY_TICKET_TTL_SECONDS pass.                                       *)
TicketExpires(t) ==
  /\ tickets[t].status = "open"
  /\ tickets' = [tickets EXCEPT ![t].status = "dead"]
  /\ UNCHANGED <<vault, setup, late, entries, codes, sessions>>

(* POST /recovery/reset with a proof made by key p.                        *)
ResetVaultFromRecovery(t, p, k, submitted, s) ==
  /\ ProofHolds(p)
  /\ tickets[t].status = "open"
  /\ RotateVaultMaterial(k, submitted, s)

(* POST /password: requireSession has run before; the transaction does not *)
(* look at the session again.                                              *)
ChangeMasterPassword(p, k, submitted, s) ==
  /\ ProofHolds(p)
  /\ RotateVaultMaterial(k, submitted, s)

(* POST /recovery-codes: k is the key the envelopes wrap.                  *)
RegenerateRecoveryCodes(s, p, k, declared) ==
  /\ ProofHolds(p)
  /\ SessionActive(s)
  /\ declared = vault.version
  /\ codes' = ReplaceRecoveryCodes(k, vault.version)
  /\ tickets' = CloseTickets
  /\ UNCHANGED <<vault, setup, late, entries, sessions>>

-----------------------------------------------------------------------------
(* Key entry routes.  s is the session requireSession resolved, p the key  *)
(* the write proof was made with.                                          *)

(* Fault: the declared version is stored without being compared.           *)
CreateUnpinned(s, p, e, cipher) ==
  /\ ProofHolds(p)
  /\ MutationsAllowed(s)
  /\ entries[e] = Null
  /\ entries' = [entries EXCEPT ![e] = cipher]
  /\ UNCHANGED <<vault, setup, late, codes, tickets, sessions>>

CreateKeyEntry(s, p, e, cipher) ==
  /\ ProofHolds(p)
  /\ MutationsAllowed(s)
  /\ cipher.version = vault.version
  /\ entries[e] = Null
  /\ entries' = [entries EXCEPT ![e] = cipher]
  /\ UNCHANGED <<vault, setup, late, codes, tickets, sessions>>

(* POST /import: ids that exist are skipped, one bad stamp refuses all.    *)
ImportKeyEntries(s, p, batch) ==
  /\ ProofHolds(p)
  /\ MutationsAllowed(s)
  /\ \A e \in Entry : batch[e] # Null /\ entries[e] = Null
                        => batch[e].version = vault.version
  /\ entries' = [e \in Entry |-> IF entries[e] = Null THEN batch[e]
                                                          ELSE entries[e]]
  /\ UNCHANGED <<vault, setup, late, codes, tickets, sessions>>

(* Fault: neither version is compared.                                     *)
UpdateUnpinned(s, p, e, declared, cipher) ==
  /\ ProofHolds(p)
  /\ MutationsAllowed(s)
  /\ entries[e] # Null
  /\ entries' = [entries EXCEPT ![e] = cipher]
  /\ UNCHANGED <<vault, setup, late, codes, tickets, sessions>>

(* PATCH /:id with a new key value.  One without leaves the ciphertext and *)
(* the stamp as they are.                                                  *)
UpdateKeyEntry(s, p, e, declared, cipher) ==
  /\ ProofHolds(p)
  /\ MutationsAllowed(s)
  /\ declared = vault.version
  /\ cipher.version = vault.version
  /\ entries[e] # Null
  /\ entries' = [entries EXCEPT ![e] = cipher]
  /\ UNCHANGED <<vault, setup, late, codes, tickets, sessions>>

DeleteKeyEntry(s, p, e, declared) ==
  /\ ProofHolds(p)
  /\ MutationsAllowed(s)
  /\ entries[e] # Null
  /\ declared = vault.version
  /\ entries' = [entries EXCEPT ![e] = Null]
  /\ UNCHANGED <<vault, setup, late, codes, tickets, sessions>>

-----------------------------------------------------------------------------

VaultRoutes ==
  \/ \E k \in Key : InitializeVault(k)
  \/ \E s \in Session : FinishSetup(s)
  \/ FailSetup
  \/ \E k \in Key, old \in Session \cup {Null}, s \in Session : Login(k, old, s)
  \/ \E s \in Session : Lock(s)
  \/ \E s \in Session : SweepStaleSession(s)
  \/ \E c \in Code, t \in Ticket : ClaimRecoveryCode(c, t)
  \/ \E t \in Ticket : CancelRecoveryTicket(t)

Rotations ==
  \E k, p \in Key, s \in Session :
    \E submitted \in [Entry -> Reencrypted \cup {Null}] :
      \/ ChangeMasterPassword(p, k, submitted, s)
      \/ \E t \in Ticket : ResetVaultFromRecovery(t, p, k, submitted, s)

KeyWrites ==
  \E s \in Session, p \in Key :
    \/ \E k \in Key, v \in Version : RegenerateRecoveryCodes(s, p, k, v)
    \/ \E e \in Entry, cipher \in Cipher : CreateKeyEntry(s, p, e, cipher)
    \/ \E batch \in [Entry -> Cipher \cup {Null}] :
         ImportKeyEntries(s, p, batch)
    \/ \E e \in Entry, v \in Version, cipher \in Cipher :
         UpdateKeyEntry(s, p, e, v, cipher)
    \/ \E e \in Entry, v \in Version : DeleteKeyEntry(s, p, e, v)

Clock ==
  \/ \E s \in Session : SessionTimesOut(s)
  \/ \E t \in Ticket : TicketExpires(t)

StoreNext == VaultRoutes \/ Rotations \/ KeyWrites \/ Clock

StoreSpec == StoreInit /\ [][StoreNext]_storeVars

-----------------------------------------------------------------------------
(* Properties.                                                             *)

(* Whatever clients send and in whatever order, every ciphertext and every *)
(* recovery envelope in the database declares the vault's current key      *)
(* version: a write races a rotation and is refused, a rotation restamps   *)
(* everything it finds (assertCipherKeyVersion, assertEntriesMatchVault).  *)
StampsCurrent ==
  /\ \A e \in Entry : entries[e] # Null => entries[e].version = vault.version
  /\ \A c \in Code : codes[c].version = vault.version

(* While a recovery ticket is open no session passes isSessionActive,      *)
(* whatever logins, claims, timeouts and rotations came before: a claim    *)
(* revokes every session, and a login closes every ticket.  The /:id/use   *)
(* route has no ticket check of its own and rests on this.  The exception  *)
(* is a session that POST /setup made when a code had already been claimed *)
(* during its wait for the token file; the next claim revokes it too, and  *)
(* the routes that write check for a ticket themselves.                    *)
OpenTicketFreezesSessions ==
  OpenTickets # {} => \A s \in Session : SessionActive(s) => s \in late

(* Every open ticket was paid for with a code of its own of the current    *)
(* batch: no code opens two tickets, and no ticket outlives its batch.     *)
TicketsBackedByCodes ==
  \A t \in OpenTickets :
    /\ codes[tickets[t].code].used
    /\ \A u \in OpenTickets : tickets[u].code = tickets[t].code => u = t

(* The snapshot a claim returned cannot go stale: no step changes a        *)
(* ciphertext and leaves an open ticket open.                              *)
SnapshotFrozen ==
  [][\A t \in OpenTickets : tickets'[t].status = "open" => entries' = entries]_storeVars

(* No session outlives the key it was opened under: the sessions active    *)
(* before a rotation are revoked by it.                                    *)
RotationEvictsSessions ==
  [][vault.version \notin {0, vault'.version}
       => \A s \in Session : SessionActive(s) => sessions'[s] = "revoked"]_storeVars

=============================================================================
