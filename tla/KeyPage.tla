------------------------------- MODULE KeyPage -------------------------------
(***************************************************************************)
(* KeyPage as its users see it: browser tabs that hold the encryption key  *)
(* and run the multi-step operations of apps/web/src/vault, the requests   *)
(* they have in flight, the session cookie the tabs of one browser share,  *)
(* and the server's transactions (VaultStore) that answer them.            *)
(*                                                                         *)
(* A call is one asynchronous operation of a tab, from the moment it       *)
(* captures its inputs until its answer is applied: its closure, its       *)
(* request and its answer in one record.  Between any two of its phases    *)
(* the other calls, the other tabs, the clock and the locks may act.       *)
(*   "local"       the browser derives, encrypts or decrypts               *)
(*   "listed"      a password change has read the entries                  *)
(*   "sent"        the request is on its way, with the cookie of then      *)
(*   "authorized"  requireSession passed, the handler has not run          *)
(*   "answered", "refused", "mismatch", "unauthorized"  the answer         *)
(* A tab has at most one call of each kind; a reload orphans the calls it  *)
(* leaves at the server, whose answers nobody applies.                     *)
(*                                                                         *)
(* A fresh random salt makes a fresh key: the key a rotation installs is   *)
(* numbered when the server accepts it, one past every earlier key.  A     *)
(* fresh random IV is one past the last IV drawn for that entry.           *)
(***************************************************************************)
EXTENDS VaultStore, FiniteSets

CONSTANTS
  Tab,         \* browser tabs with the app open
  Browser,     \* cookie jars
  BrowserOf,   \* the browser each tab belongs to
  MaxCalls,    \* bound on the calls in flight at once
  Operations,  \* the operations the users perform in this instance
  UnlockDuringSetup  \* whether a tab may log in while POST /setup still
                     \* waits for its token file to be removed

ASSUME BrowserAssumption == BrowserOf \in [Tab -> Browser]

Writes == {"create", "update", "delete"}
Kinds == Writes \cup {"setup", "unlock", "change", "regen", "claim", "reset",
                      "poll", "lock"}
Phases == {"local", "listed", "sent", "authorized", "answered", "refused",
           "mismatch", "unauthorized"}

ASSUME OperationsAssumption == Operations \subseteq Kinds
ASSUME MaxCallsAssumption == MaxCalls \in Nat
ASSUME UnlockAssumption == UnlockDuringSetup \in BOOLEAN
ASSUME NullsAssumption == Null \notin Session \cup Ticket \cup Tab \cup Entry
                                          \cup Value \cup Code

VARIABLES
  keys,       \* session-keys.ts: the key in each tab's memory, its version
  jar,        \* the session cookie of each browser
  calls,      \* the calls in flight
  held,       \* recovery-session.ts: the claim each tab holds
  notified,   \* tabs with a lock broadcast to receive
  drawn       \* the number of IVs drawn for each entry

clientVars == <<keys, jar, calls, held, notified, drawn>>
vars == <<storeVars, clientVars>>

NoKey == [key |-> 0, version |-> 0]
Snapshot == [Entry -> Cipher \cup {Null}]
NoSnapshot == [e \in Entry |-> Null]

Call == [tab: Tab \cup {Null}, kind: Kinds, phase: Phases,
         key: Nat, version: Nat, proof: Nat,
         entry: Entry \cup {Null}, value: Value \cup {Null},
         code: Code \cup {Null}, snap: Snapshot,
         session: Session \cup {Null}, ticket: Ticket \cup {Null},
         current: BOOLEAN]

NewCall(t, kind, phase) ==
  [tab |-> t, kind |-> kind, phase |-> phase, key |-> 0, version |-> 0,
   proof |-> 0, entry |-> Null, value |-> Null, code |-> Null,
   snap |-> NoSnapshot, session |-> Null, ticket |-> Null, current |-> TRUE]

HeldClaim == [key: Nat, ticket: Ticket, snap: Snapshot]

ASSUME HeldAssumption == Null \notin HeldClaim

TypeOK ==
  /\ StoreTypeOK
  /\ keys \in [Tab -> [key: Nat, version: Nat]]
  /\ jar \in [Browser -> Session \cup {Null}]
  /\ calls \subseteq Call
  /\ held \in [Tab -> HeldClaim \cup {Null}]
  /\ notified \subseteq Tab
  /\ drawn \in [Entry -> Nat]

Init ==
  /\ StoreInit
  /\ keys = [t \in Tab |-> NoKey]
  /\ jar = [b \in Browser |-> Null]
  /\ calls = {}
  /\ held = [t \in Tab |-> Null]
  /\ notified = {}
  /\ drawn = [e \in Entry |-> 0]

-----------------------------------------------------------------------------
(* Helpers.                                                                *)

Cookie(t) == jar[BrowserOf[t]]
HasKey(t) == keys[t].key # 0

Idle(t, kind) ==
  /\ kind \in Operations
  /\ Cardinality(calls) < MaxCalls
  /\ ~ \E c \in calls : c.tab = t /\ c.kind = kind

Replace(c, d) == (calls \ {c}) \cup {d}

(* The answer to c; nobody waits for the answer to an orphan.              *)
Answer(c, d) == (calls \ {c}) \cup (IF c.tab = Null THEN {} ELSE {d})

(* attachRecoverySessionToKeyClear: clearing a tab's key drops the claim   *)
(* it holds and makes a reset in flight no longer the current attempt.     *)
Supersede(t, set) ==
  {IF c.tab = t /\ c.kind = "reset" THEN [c EXCEPT !.current = FALSE] ELSE c
     : c \in set}

ClearKey(t, set) ==
  /\ keys' = [keys EXCEPT ![t] = NoKey]
  /\ held' = [held EXCEPT ![t] = Null]
  /\ calls' = Supersede(t, set)

FreshKey == vault.key + 1

NextIv(e) == drawn[e] + 1

(* rekeyEntriesAndEnvelopes: every entry of the snapshot under the new     *)
(* key, with the IV it had in the snapshot as its base.                    *)
Reencrypt(snap) ==
  [e \in Entry |->
     IF snap[e] = Null THEN Null
     ELSE [baseIv |-> snap[e].iv, key |-> FreshKey, iv |-> NextIv(e),
           value |-> snap[e].value]]

DrawFor(snap) ==
  [e \in Entry |-> IF snap[e] = Null THEN drawn[e] ELSE NextIv(e)]

IvsLeft(snap) == \A e \in Entry : snap[e] # Null => NextIv(e) <= MaxIv

(* decryptAllKeyEntries succeeds: each ciphertext opens under the key.     *)
Decrypts(key, snap) == \A e \in Entry : snap[e] # Null => snap[e].key = key

-----------------------------------------------------------------------------
(* The tabs start operations.                                              *)

(* submitSetup.                                                            *)
StartSetup(t) ==
  /\ Idle(t, "setup")
  /\ setup = "open"
  /\ calls' = calls \cup {NewCall(t, "setup", "sent")}
  /\ UNCHANGED <<storeVars, keys, jar, held, notified, drawn>>

(* unlock: derive the key from the KDF parameters of the last status.      *)
StartUnlock(t) ==
  /\ Idle(t, "unlock")
  /\ setup = "done" \/ (Initialized /\ UnlockDuringSetup)
  /\ ~HasKey(t) \/ ~SessionResolves(Cookie(t))
  /\ calls' = calls \cup {[NewCall(t, "unlock", "local") EXCEPT
                             !.key = vault.key]}
  /\ UNCHANGED <<storeVars, keys, jar, held, notified, drawn>>

(* createKeyEntryOperations: pin the version and the key together, then    *)
(* await the encryption.                                                   *)
StartWrite(t, kind, e, v) ==
  /\ kind \in Writes
  /\ Idle(t, kind)
  /\ HasKey(t)
  /\ calls' = calls \cup {[NewCall(t, kind, "local") EXCEPT
                             !.key = keys[t].key, !.version = keys[t].version,
                             !.entry = e,
                             !.value = IF kind = "delete" THEN Null ELSE v]}
  /\ UNCHANGED <<storeVars, keys, jar, held, notified, drawn>>

(* changeMasterPassword: the status supplies the KDF parameters of the     *)
(* current key; the entries are read by a later request.                   *)
StartChange(t) ==
  /\ Idle(t, "change")
  /\ HasKey(t)
  /\ calls' = calls \cup {[NewCall(t, "change", "local") EXCEPT
                             !.key = vault.key]}
  /\ UNCHANGED <<storeVars, keys, jar, held, notified, drawn>>

ListForChange(c) ==
  /\ c.kind = "change" /\ c.phase = "local" /\ c.tab # Null
  /\ IF SessionResolves(Cookie(c.tab))
     THEN calls' = Replace(c, [c EXCEPT !.phase = "listed", !.snap = entries])
     ELSE calls' = Replace(c, [c EXCEPT !.phase = "unauthorized"])
  /\ UNCHANGED <<storeVars, keys, jar, held, notified, drawn>>

(* regenerateRecoveryCodes: one status supplies both the KDF parameters    *)
(* and the version the envelopes are pinned to.                            *)
StartRegenerate(t) ==
  /\ Idle(t, "regen")
  /\ HasKey(t)
  /\ calls' = calls \cup {[NewCall(t, "regen", "local") EXCEPT
                             !.key = vault.key, !.version = vault.version]}
  /\ UNCHANGED <<storeVars, keys, jar, held, notified, drawn>>

(* claimRecoveryCode drops whatever claim the tab held first.  The codes   *)
(* of a first setup reach their user with its answer; only a tab that logs *)
(* in before then can have had new ones.                                   *)
StartClaim(t, r) ==
  /\ Idle(t, "claim")
  /\ setup = "done" \/ (Initialized /\ UnlockDuringSetup)
  /\ ~HasKey(t) \/ ~SessionResolves(Cookie(t))
  /\ held' = [held EXCEPT ![t] = Null]
  /\ calls' = Supersede(t, calls)
                \cup {[NewCall(t, "claim", "sent") EXCEPT !.code = r]}
  /\ UNCHANGED <<storeVars, keys, jar, notified, drawn>>

(* completeRecovery: beginComplete takes the claim out of the session;     *)
(* completeVaultRecovery derives the old key with the salt of the status   *)
(* it reads now, and stops before the request unless all of it decrypts.   *)
StartReset(t) ==
  /\ Idle(t, "reset")
  /\ held[t] # Null
  /\ Decrypts(held[t].key, held[t].snap)
  /\ vault.key = held[t].key \/ held[t].snap = NoSnapshot
  /\ held' = [held EXCEPT ![t] = Null]
  /\ calls' = calls \cup {[NewCall(t, "reset", "sent") EXCEPT
                             !.proof = held[t].key, !.ticket = held[t].ticket,
                             !.snap = held[t].snap]}
  /\ UNCHANGED <<storeVars, keys, jar, notified, drawn>>

(* The work in the browser is done and the request goes out.  A write      *)
(* takes the proof key the tab has now, which need not be the one it       *)
(* encrypted with; without one it fails on the spot.                       *)
SendCall(c) ==
  /\ c.tab # Null
  /\ \/ c.kind \in Writes /\ c.phase = "local" /\ HasKey(c.tab)
     \/ c.kind \in {"unlock", "regen"} /\ c.phase = "local"
     \/ c.kind = "change" /\ c.phase = "listed" /\ Decrypts(c.key, c.snap)
  /\ calls' = Replace(c, [c EXCEPT
                 !.phase = "sent", !.session = Cookie(c.tab),
                 !.proof = IF c.kind \in Writes THEN keys[c.tab].key ELSE c.key])
  /\ UNCHANGED <<storeVars, keys, jar, held, notified, drawn>>

(* useIdleLock's touch of the session.                                     *)
StartPoll(t) ==
  /\ Idle(t, "poll")
  /\ HasKey(t)
  /\ calls' = calls \cup {[NewCall(t, "poll", "sent") EXCEPT
                             !.session = Cookie(t)]}
  /\ UNCHANGED <<storeVars, keys, jar, held, notified, drawn>>

-----------------------------------------------------------------------------
(* The tabs lock, reload and give up.                                      *)

Siblings(t) == {u \in Tab \ {t} : BrowserOf[u] = BrowserOf[t]}

(* lock: clear the key, tell the other tabs of the browser, and post /lock *)
(* without waiting for it.                                                 *)
LockTab(t, set) ==
  /\ ClearKey(t, set \cup {[NewCall(t, "lock", "sent") EXCEPT
                              !.session = Cookie(t)]})
  /\ notified' = notified \cup Siblings(t)

UserLocks(t) ==
  /\ Idle(t, "lock")
  /\ HasKey(t)
  /\ LockTab(t, calls)
  /\ UNCHANGED <<storeVars, jar, drawn>>

ReceiveLockBroadcast(t) ==
  /\ t \in notified
  /\ notified' = notified \ {t}
  /\ ClearKey(t, calls)
  /\ UNCHANGED <<storeVars, jar, drawn>>

(* The page goes away: its memory is gone, and of its calls only those the *)
(* server still has to handle remain.  Bound: one reload's orphans at once.*)
Reload(t) ==
  /\ \A c \in calls : c.tab # Null
  /\ HasKey(t) \/ held[t] # Null \/ \E c \in calls : c.tab = t
  /\ keys' = [keys EXCEPT ![t] = NoKey]
  /\ held' = [held EXCEPT ![t] = Null]
  /\ notified' = notified \ {t}
  /\ calls' = {c \in calls : c.tab # t}
                \cup {[c EXCEPT !.tab = Null] :
                        c \in {d \in calls : d.tab = t
                                 /\ d.phase \in {"sent", "authorized"}}}
  /\ UNCHANGED <<storeVars, jar, drawn>>

(* A request or its answer is lost, or the browser's work fails.  A reset  *)
(* that fails puts its claim back, if it is still the current attempt.     *)
LoseCall(c) ==
  /\ calls' = calls \ {c}
  /\ held' = IF c.kind = "reset" /\ c.tab # Null /\ c.current
             THEN [held EXCEPT ![c.tab] = [key |-> c.proof, ticket |-> c.ticket,
                                           snap |-> c.snap]]
             ELSE held
  /\ UNCHANGED <<storeVars, keys, jar, notified, drawn>>

(* cancelRecovery: the ticket is cancelled on the server; unless the       *)
(* answer is lost the tab drops its claim.                                 *)
CancelRecovery(t) ==
  /\ held[t] # Null
  /\ \/ CancelRecoveryTicket(held[t].ticket)
     \/ held[t].ticket \notin OpenTickets /\ UNCHANGED storeVars
  /\ held' \in {held, [held EXCEPT ![t] = Null]}
  /\ UNCHANGED <<keys, jar, calls, notified, drawn>>

-----------------------------------------------------------------------------
(* The server handles requests.                                            *)

(* requireSession, before the handlers that need a session.                *)
Authorize(c) ==
  /\ c.phase = "sent" /\ c.kind \in Writes \cup {"change", "regen"}
  /\ SessionResolves(c.session)
  /\ calls' = Replace(c, [c EXCEPT !.phase = "authorized"])
  /\ UNCHANGED <<storeVars, keys, jar, held, notified, drawn>>

(* No session, or one that is over: a session past its timeout is revoked  *)
(* here, and the answer clears the cookie.                                 *)
TurnAway(c) ==
  /\ c.phase = "sent" /\ c.kind \in Writes \cup {"change", "regen", "poll"}
  /\ ~SessionResolves(c.session)
  /\ \/ SweepStaleSession(c.session)
     \/ ~SessionActive(c.session) /\ UNCHANGED storeVars
  /\ calls' = Answer(c, [c EXCEPT !.phase = "unauthorized"])
  /\ UNCHANGED <<keys, jar, held, notified, drawn>>

AnswerPoll(c) ==
  /\ c.phase = "sent" /\ c.kind = "poll"
  /\ SessionResolves(c.session)
  /\ calls' = Answer(c, [c EXCEPT !.phase = "answered"])
  /\ UNCHANGED <<storeVars, keys, jar, held, notified, drawn>>

HandleSetup(c) ==
  /\ c.phase = "sent" /\ c.kind = "setup"
  /\ \/ /\ InitializeVault(FreshKey)
        /\ calls' = Replace(c, [c EXCEPT !.phase = "authorized", !.key = FreshKey])
     \/ /\ setup # "open"
        /\ calls' = Answer(c, [c EXCEPT !.phase = "refused"])
        /\ UNCHANGED storeVars
  /\ UNCHANGED <<keys, jar, held, notified, drawn>>

(* The token file is gone and the handler resumes, or it fails.            *)
ResumeSetup(c) ==
  /\ c.phase = "authorized" /\ c.kind = "setup"
  /\ \/ \E s \in Session :
          /\ FinishSetup(s)
          /\ calls' = Answer(c, [c EXCEPT !.phase = "answered", !.session = s,
                                          !.version = vault.version])
     \/ /\ FailSetup
        /\ calls' = Answer(c, [c EXCEPT !.phase = "refused"])
  /\ UNCHANGED <<keys, jar, held, notified, drawn>>

HandleLogin(c) ==
  /\ c.phase = "sent" /\ c.kind = "unlock"
  /\ \/ \E s \in Session :
          /\ Login(c.proof, c.session, s)
          /\ calls' = Answer(c, [c EXCEPT !.phase = "answered", !.session = s,
                                          !.version = vault.version])
     \/ /\ ~ProofHolds(c.proof)
        /\ calls' = Answer(c, [c EXCEPT !.phase = "refused"])
        /\ UNCHANGED storeVars
  /\ UNCHANGED <<keys, jar, held, notified, drawn>>

HandleLock(c) ==
  /\ c.phase = "sent" /\ c.kind = "lock"
  /\ \/ Lock(c.session)
     \/ ~SessionActive(c.session) /\ UNCHANGED storeVars
  /\ calls' = Answer(c, [c EXCEPT !.phase = "answered"])
  /\ UNCHANGED <<keys, jar, held, notified, drawn>>

(* The claim returns the wrapped key, the ticket and every entry.          *)
HandleClaim(c) ==
  /\ c.phase = "sent" /\ c.kind = "claim"
  /\ \/ \E t \in Ticket :
          /\ ClaimRecoveryCode(c.code, t)
          /\ calls' = Answer(c, [c EXCEPT !.phase = "answered", !.ticket = t,
                                   !.key = codes[c.code].key, !.snap = entries])
     \/ /\ codes[c.code].used
        /\ calls' = Answer(c, [c EXCEPT !.phase = "refused"])
        /\ UNCHANGED storeVars
  /\ UNCHANGED <<keys, jar, held, notified, drawn>>

RotationAnswer(c, s) ==
  Answer(c, [c EXCEPT !.phase = "answered", !.session = s, !.key = FreshKey,
                      !.version = vault.version + 1])

RefuseCall(c) ==
  /\ calls' = Answer(c, [c EXCEPT !.phase = "refused"])
  /\ UNCHANGED <<storeVars, drawn>>

HandleReset(c) ==
  /\ c.phase = "sent" /\ c.kind = "reset"
  /\ \/ \E s \in Session :
          /\ IvsLeft(c.snap)
          /\ ResetVaultFromRecovery(c.ticket, c.proof, FreshKey,
                                    Reencrypt(c.snap), s)
          /\ calls' = RotationAnswer(c, s)
          /\ drawn' = DrawFor(c.snap)
     \/ /\ \/ ~ProofHolds(c.proof)
           \/ c.ticket \notin OpenTickets
           \/ ~EntriesMatchVault(Reencrypt(c.snap))
        /\ RefuseCall(c)
  /\ UNCHANGED <<keys, jar, held, notified>>

HandleChange(c) ==
  /\ c.phase = "authorized" /\ c.kind = "change"
  /\ \/ \E s \in Session :
          /\ IvsLeft(c.snap)
          /\ ChangeMasterPassword(c.proof, FreshKey, Reencrypt(c.snap), s)
          /\ calls' = RotationAnswer(c, s)
          /\ drawn' = DrawFor(c.snap)
     \/ /\ ~ProofHolds(c.proof) \/ ~EntriesMatchVault(Reencrypt(c.snap))
        /\ RefuseCall(c)
  /\ UNCHANGED <<keys, jar, held, notified>>

HandleRegenerate(c) ==
  /\ c.phase = "authorized" /\ c.kind = "regen"
  /\ \/ /\ RegenerateRecoveryCodes(c.session, c.proof, c.key, c.version)
        /\ calls' = Answer(c, [c EXCEPT !.phase = "answered"])
        /\ UNCHANGED drawn
     \/ /\ \/ ~ProofHolds(c.proof)
           \/ ~SessionActive(c.session)
           \/ c.version # vault.version
        /\ RefuseCall(c)
  /\ UNCHANGED <<keys, jar, held, notified>>

CipherOf(c) == [key |-> c.key, version |-> c.version,
                iv |-> NextIv(c.entry), value |-> c.value]

HandleWrite(c) ==
  /\ c.phase = "authorized" /\ c.kind \in Writes
  /\ \/ /\ \/ /\ c.kind = "create"
              /\ CreateKeyEntry(c.session, c.proof, c.entry, CipherOf(c))
           \/ /\ c.kind = "update"
              /\ UpdateKeyEntry(c.session, c.proof, c.entry, c.version, CipherOf(c))
        /\ NextIv(c.entry) <= MaxIv
        /\ drawn' = [drawn EXCEPT ![c.entry] = NextIv(c.entry)]
     \/ /\ c.kind = "delete"
        /\ DeleteKeyEntry(c.session, c.proof, c.entry, c.version)
        /\ UNCHANGED drawn
  /\ calls' = Answer(c, [c EXCEPT !.phase = "answered"])
  /\ UNCHANGED <<keys, jar, held, notified>>

(* The proof, the session and the ticket are looked at first.  A deletion  *)
(* looks for the entry before the version, the others the other way round. *)
RefuseWrite(c) ==
  /\ c.phase = "authorized" /\ c.kind \in Writes
  /\ LET allowed == ProofHolds(c.proof) /\ MutationsAllowed(c.session)
         stale == c.version # vault.version
         misfit == c.kind = "create" <=> entries[c.entry] # Null
     IN \/ /\ ~allowed \/ (misfit /\ (c.kind = "delete" \/ ~stale))
           /\ calls' = Answer(c, [c EXCEPT !.phase = "refused"])
        \/ /\ allowed /\ stale /\ (misfit => c.kind # "delete")
           /\ calls' = Answer(c, [c EXCEPT !.phase = "mismatch"])
  /\ UNCHANGED <<storeVars, keys, jar, held, notified, drawn>>

-----------------------------------------------------------------------------
(* The tabs apply answers.                                                 *)

SetCookie(t, s) == [jar EXCEPT ![BrowserOf[t]] = s]

(* Fault: the version is the one the server has by the time the answer is  *)
(* applied.                                                                *)
InstallKeyLateVersion(c) ==
  /\ c.tab # Null /\ c.phase = "answered"
  /\ c.kind \in {"setup", "unlock", "change"}
  /\ jar' = SetCookie(c.tab, c.session)
  /\ keys' = [keys EXCEPT ![c.tab] = [key |-> c.key, version |-> vault.version]]
  /\ calls' = calls \ {c}
  /\ UNCHANGED <<storeVars, held, notified, drawn>>

(* Fault: the key is installed without its version.                        *)
InstallKeyUnpinned(c) ==
  /\ c.tab # Null /\ c.phase = "answered"
  /\ c.kind \in {"setup", "unlock", "change"}
  /\ jar' = SetCookie(c.tab, c.session)
  /\ keys' = [keys EXCEPT ![c.tab] = [key |-> c.key]]
  /\ calls' = calls \ {c}
  /\ UNCHANGED <<storeVars, held, notified, drawn>>

(* setup, login and password change: the answer's cookie is stored and the *)
(* derived key installed, whatever happened to the tab since it asked.     *)
InstallKey(c) ==
  /\ c.tab # Null /\ c.phase = "answered"
  /\ c.kind \in {"setup", "unlock", "change"}
  /\ jar' = SetCookie(c.tab, c.session)
  /\ keys' = [keys EXCEPT ![c.tab] = [key |-> c.key, version |-> c.version]]
  /\ calls' = calls \ {c}
  /\ UNCHANGED <<storeVars, held, notified, drawn>>

(* completeRecovery: an attempt a lock or a newer claim has superseded     *)
(* gives its key up again.                                                 *)
FinishReset(c) ==
  /\ c.tab # Null /\ c.phase = "answered" /\ c.kind = "reset"
  /\ jar' = SetCookie(c.tab, c.session)
  /\ \/ /\ c.current
        /\ keys' = [keys EXCEPT ![c.tab] = [key |-> c.key, version |-> c.version]]
        /\ calls' = calls \ {c}
        /\ UNCHANGED held
     \/ /\ ~c.current
        /\ ClearKey(c.tab, calls \ {c})
  /\ UNCHANGED <<storeVars, notified, drawn>>

(* recoverySession.start.                                                  *)
HoldClaim(c) ==
  /\ c.tab # Null /\ c.phase = "answered" /\ c.kind = "claim"
  /\ held' = [held EXCEPT ![c.tab] = [key |-> c.key, ticket |-> c.ticket,
                                      snap |-> c.snap]]
  /\ calls' = Supersede(c.tab, calls \ {c})
  /\ UNCHANGED <<storeVars, keys, jar, notified, drawn>>

(* Answers that change nothing in the tab.                                 *)
FinishCall(c) ==
  /\ c.tab # Null
  /\ \/ c.phase = "answered" /\ c.kind \in Writes \cup {"regen", "poll"}
     \/ c.phase = "refused" /\ c.kind # "reset"
  /\ calls' = calls \ {c}
  /\ UNCHANGED <<storeVars, keys, jar, held, notified, drawn>>

(* guardWrite: a tab with an outdated key locks itself, and only itself.   *)
LockLocal(c) ==
  /\ c.tab # Null /\ c.phase = "mismatch"
  /\ ClearKey(c.tab, calls \ {c})
  /\ UNCHANGED <<storeVars, jar, notified, drawn>>

(* A 401 clears the cookie, whatever session it holds by now; the answer   *)
(* to a touch also locks the vault.                                        *)
ApplyUnauthorized(c) ==
  /\ c.tab # Null /\ c.phase = "unauthorized"
  /\ jar' = SetCookie(c.tab, Null)
  /\ IF c.kind = "poll" /\ HasKey(c.tab)
     THEN LockTab(c.tab, calls \ {c})
     ELSE /\ calls' = calls \ {c}
          /\ UNCHANGED <<keys, held, notified>>
  /\ UNCHANGED <<storeVars, drawn>>

(* /lock always clears the cookie.                                         *)
FinishLock(c) ==
  /\ c.tab # Null /\ c.phase = "answered" /\ c.kind = "lock"
  /\ jar' = SetCookie(c.tab, Null)
  /\ calls' = calls \ {c}
  /\ UNCHANGED <<storeVars, keys, held, notified, drawn>>

-----------------------------------------------------------------------------

TabStep(t) ==
  \/ StartSetup(t) \/ StartUnlock(t) \/ StartChange(t) \/ StartRegenerate(t)
  \/ StartReset(t) \/ StartPoll(t)
  \/ \E kind \in Writes, e \in Entry, v \in Value : StartWrite(t, kind, e, v)
  \/ \E r \in Code : StartClaim(t, r)
  \/ UserLocks(t) \/ ReceiveLockBroadcast(t) \/ Reload(t) \/ CancelRecovery(t)

ServerStep(c) ==
  \/ Authorize(c) \/ TurnAway(c) \/ AnswerPoll(c)
  \/ HandleSetup(c) \/ ResumeSetup(c) \/ HandleLogin(c) \/ HandleLock(c)
  \/ HandleClaim(c) \/ HandleReset(c) \/ HandleChange(c) \/ HandleRegenerate(c)
  \/ HandleWrite(c) \/ RefuseWrite(c)

AnswerStep(c) ==
  \/ InstallKey(c) \/ FinishReset(c) \/ HoldClaim(c) \/ FinishCall(c)
  \/ LockLocal(c) \/ ApplyUnauthorized(c) \/ FinishLock(c)

CallStep(c) == ListForChange(c) \/ SendCall(c) \/ LoseCall(c)

Next ==
  \/ \E t \in Tab : TabStep(t)
  \/ \E c \in calls : CallStep(c) \/ ServerStep(c) \/ AnswerStep(c)
  \/ Clock /\ UNCHANGED clientVars

Spec == Init /\ [][Next]_vars

-----------------------------------------------------------------------------
(* Properties.                                                             *)

(* Every stored ciphertext opens under the key the Master Password gives,  *)
(* and every unused recovery code wraps that key: no interleaving of       *)
(* writes, rotations, recoveries and regenerations strands an entry or     *)
(* leaves a code that recovers a superseded key.                           *)
VaultDecryptable ==
  /\ \A e \in Entry : entries[e] # Null => entries[e].key = vault.key
  /\ \A r \in Code : ~codes[r].used => codes[r].key = vault.key

(* A rotation loses no entry and no edit: whatever was committed between   *)
(* the client's read of the entries and its request survives.              *)
RotationKeepsValues ==
  [][vault.version \notin {0, vault'.version} =>
       \A e \in Entry :
         /\ entries[e] = Null <=> entries'[e] = Null
         /\ entries[e] # Null => entries'[e].value = entries[e].value]_vars

(* A tab whose version passes the server's check holds the matching key.   *)
PinMatchesKey ==
  \A t \in Tab : keys[t].version = vault.version => keys[t].key = vault.key

(* The promise of KeyBox, read through the key the Master Password gives:  *)
(* an entry counts for what that key decrypts, and a code for as long as   *)
(* it is unused and wraps that key.                                        *)
Box == INSTANCE KeyBox WITH
  contents <- [e \in Entry |->
                 IF entries[e] # Null /\ entries[e].key = vault.key
                 THEN entries[e].value ELSE Null],
  epoch <- vault.version,
  opening <- {r \in Code : ~codes[r].used /\ codes[r].key = vault.key}

KeepsThePromise == Box!BoxSpec

(* A locked tab opens again only with a password or a recovery code: a     *)
(* Master Password change, which starts from an unlocked tab, never gives  *)
(* a key back to a tab that was locked while the change was under way.     *)
LockOutlastsChange ==
  [][\A t \in Tab : HasKey(t)' /\ ~HasKey(t) =>
       \E c \in calls : c.tab = t /\ c.kind \in {"setup", "unlock", "reset"}]_vars

(* As long as its ticket is open, the claim a tab holds still describes    *)
(* the vault: the key it recovered and every ciphertext it will replace.   *)
HeldClaimCurrent ==
  \A t \in Tab :
    held[t] # Null /\ held[t].ticket \in OpenTickets
      => held[t].snap = entries /\ held[t].key = vault.key

-----------------------------------------------------------------------------
(* The inductive invariant behind them.                                    *)

(* Keys and versions are numbered alike, in the vault and wherever a copy  *)
(* of either is pinned to the other.                                       *)
Pinned(x) == x.key = x.version /\ x.key \in 1..vault.version

VaultOK ==
  /\ vault.key = vault.version
  /\ vault.version <= MaxVersion
  /\ \A e \in Entry : entries[e] # Null => entries[e].key = entries[e].version
  /\ \A r \in Code : codes[r].key = codes[r].version

KeysOK == \A t \in Tab : keys[t] = NoKey \/ Pinned(keys[t])

(* A claim, from its answer on, describes the vault until its ticket is    *)
(* closed, and the id of its ticket is never given out again.              *)
ClaimOK(key, ticket, snap) ==
  /\ ticket \in Ticket
  /\ tickets[ticket].status # "none"
  /\ tickets[ticket].status = "open" => snap = entries /\ key = vault.key

HeldOK == \A t \in Tab :
            held[t] # Null => ClaimOK(held[t].key, held[t].ticket, held[t].snap)

Installs == {"setup", "unlock", "change", "reset"}

CallOK(c) ==
  /\ c.kind \in Writes \cup {"regen"} => Pinned(c)
  /\ c.kind \in Writes => c.entry \in Entry
  /\ c.kind \in {"create", "update"} => c.value \in Value
  /\ c.kind = "claim" => c.code \in Code
  /\ c.kind = "unlock" /\ c.phase = "sent" => c.proof = c.key
  /\ c.kind = "setup" /\ c.phase = "authorized" => c.key = 1
  /\ c.kind # "setup" /\ c.phase = "authorized" => c.session \in Session
  /\ c.kind \in Installs /\ c.phase = "answered"
       => Pinned(c) /\ c.session \in Session
  /\ c.kind = "claim" /\ c.phase = "answered" => ClaimOK(c.key, c.ticket, c.snap)
  /\ c.kind = "reset" => ClaimOK(c.proof, c.ticket, c.snap)

(* Until POST /setup is over there is nothing but setups under way.        *)
SetupOK ==
  /\ setup = "consuming" => vault.version = 1
  /\ setup # "done" => /\ \A c \in calls : c.kind = "setup" /\ c.phase # "answered"
                       /\ \A t \in Tab : keys[t] = NoKey /\ held[t] = Null

(* Every key, ciphertext, envelope, claim and message is the one its pin   *)
(* says it is, wherever it has got to.                                     *)
KeyInv ==
  /\ TypeOK
  /\ VaultOK
  /\ KeysOK
  /\ HeldOK
  /\ \A c \in calls : CallOK(c)
  /\ SetupOK

=============================================================================
