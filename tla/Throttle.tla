------------------------------ MODULE Throttle ------------------------------
(***************************************************************************)
(* The counters that slow down guesses of the Master Password and of       *)
(* recovery codes, and the challenges without which no proof is looked at: *)
(* the auth_throttle and login_challenges rows and the routes that read    *)
(* and write them (apps/api/src/auth/throttle.ts, login-challenges.ts,     *)
(* keys/key-write-proof.ts, routes/vault.ts, routes/key-entries.ts).       *)
(*                                                                         *)
(* Time is relative, so it never runs out: a row keeps how long ago its    *)
(* first failure was and how much of its lockout is left.  An age above    *)
(* FailureWindow is as good as any other.  A challenge is the time it has  *)
(* left, 0 at its expires_at and -1 ever after.                            *)
(***************************************************************************)
EXTENDS Integers, Sequences, SequencesExt

CONSTANTS
  MaxAttempts,    \* KEYPAGE_LOGIN_MAX_ATTEMPTS
  FailureWindow,  \* KEYPAGE_LOGIN_FAILURE_WINDOW_SECONDS, in clock ticks
  Lockout,        \* KEYPAGE_LOGIN_LOCKOUT_MINUTES, in clock ticks
  ChallengeTtl,   \* LOGIN_CHALLENGE_TTL_SECONDS, in clock ticks
  MaxOpen,        \* LOGIN_CHALLENGE_MAX_OPEN
  Null            \* SQL NULL

ASSUME ConfigAssumption ==
  {MaxAttempts, FailureWindow, Lockout, ChallengeTtl, MaxOpen} \subseteq Nat \ {0}
ASSUME NullAssumption == Null \notin Int

Scope == {"login", "recovery"}
Age == 0..(FailureWindow + 1)
Purpose == {"login", "key-write"}

VARIABLES
  row,  \* auth_throttle: failed_count, age of first_failed_at, rest of lock
  open, \* login_challenges: what each row of a purpose has left, oldest first
  log   \* history: the ages, at most FailureWindow, of the failures since
        \* the scope was last locked or reset

vars == <<row, open, log>>

ClearRow == [count |-> 0, first |-> Null, lock |-> Null]

(* Every variable keeps its type, and no purpose ever has more challenges  *)
(* than its quota, expired ones included (createLoginChallenge).           *)
TypeOK ==
  /\ row \in [Scope -> [count: 0..MaxAttempts, first: Age \cup {Null},
                        lock: 0..Lockout \cup {Null}]]
  /\ open \in [Purpose -> Seq(-1..ChallengeTtl)]
  /\ \A p \in Purpose : Len(open[p]) <= MaxOpen
  /\ log \in [Scope -> Seq(0..FailureWindow)]

Init ==
  /\ row = [s \in Scope |-> ClearRow]
  /\ open = [p \in Purpose |-> <<>>]
  /\ log = [s \in Scope |-> <<>>]

-----------------------------------------------------------------------------

Locked(s) == row[s].lock \notin {Null, 0}

(* assertNotLocked on a scope that is not locked: a lockout that is over   *)
(* is cleared together with the count, but not first_failed_at.            *)
AfterAssertNotLocked(s) ==
  IF row[s].lock = 0 THEN [row[s] EXCEPT !.count = 0, !.lock = Null]
                     ELSE row[s]

(* Fault: one attempt too many.                                            *)
LocksOutLate(r) ==
  /\ r.first # Null
  /\ r.first <= FailureWindow
  /\ r.count + 1 > MaxAttempts

LocksOut(r) ==
  /\ r.first # Null
  /\ r.first <= FailureWindow
  /\ r.count + 1 >= MaxAttempts

(* Fault: the scope is never locked.                                       *)
RecordOnly(r) ==
  IF r.first = Null \/ r.first > FailureWindow
  THEN [count |-> 1, first |-> 0, lock |-> Null]
  ELSE [r EXCEPT !.count = r.count + 1]

(* recordFailure: the first failure of a window only starts the window.    *)
RecordFailure(r) ==
  IF r.first = Null \/ r.first > FailureWindow
  THEN [count |-> 1, first |-> 0, lock |-> Null]
  ELSE IF LocksOut(r)
       THEN [count |-> 0, first |-> Null, lock |-> Lockout]
       ELSE [r EXCEPT !.count = r.count + 1]

Fail(s) ==
  /\ ~Locked(s)
  /\ row' = [row EXCEPT ![s] = RecordFailure(AfterAssertNotLocked(s))]
  /\ log' = [log EXCEPT ![s] = IF LocksOut(AfterAssertNotLocked(s))
                               THEN <<>> ELSE Append(log[s], 0)]

(* consumeLoginChallenge: DELETE ... RETURNING, and no use at expires_at.  *)
Consume(p) ==
  \E i \in DOMAIN open[p] :
    /\ open[p][i] > 0
    /\ open' = [open EXCEPT ![p] = RemoveAt(@, i)]

(* POST /login, /password and /recovery-codes with a wrong proof, which    *)
(* costs the challenge, or with a challenge that is spent or expired.      *)
WrongPassword ==
  /\ Fail("login")
  /\ Consume("login") \/ UNCHANGED open

(* POST /recovery/claim with a code that is unknown or used.               *)
WrongCode == Fail("recovery") /\ UNCHANGED open

(* Fault: a right password is let through a lockout.                       *)
RightPasswordAlways ==
  /\ Consume("login")
  /\ row' = [row EXCEPT !["login"] = ClearRow]
  /\ log' = [log EXCEPT !["login"] = <<>>]

(* The proof verifies: resetThrottle.                                      *)
RightPassword ==
  /\ ~Locked("login")
  /\ Consume("login")
  /\ row' = [row EXCEPT !["login"] = ClearRow]
  /\ log' = [log EXCEPT !["login"] = <<>>]

(* A code is accepted: the scope is only checked.                          *)
CheckOnly(s) ==
  /\ ~Locked(s)
  /\ row' = [row EXCEPT ![s] = AfterAssertNotLocked(s)]
  /\ UNCHANGED log

RightCode == CheckOnly("recovery") /\ UNCHANGED open

(* Fault: the new row is not counted.                                      *)
QuotaPassed(rows) == Len(rows) <= MaxOpen

QuotaLeft(rows) == Len(rows) < MaxOpen

(* What is left of a sequence when the oldest elements, those outside S,   *)
(* are dropped; the elements have to be in that order.                     *)
Newest(seq, S) ==
  LET k == CHOOSE k \in 0..Len(seq) : \A i \in 1..Len(seq) : i > k <=> seq[i] \in S
  IN SubSeq(seq, k + 1, Len(seq))

(* createLoginChallenge drops what is past its expires_at, of both         *)
(* purposes, and inserts a row, or answers 429 when the quota is reached.  *)
CreateChallenge(p) ==
  LET kept == [q \in Purpose |-> Newest(open[q], 0..ChallengeTtl)]
  IN open' = IF QuotaLeft(kept[p]) THEN [kept EXCEPT ![p] = Append(@, ChallengeTtl)]
                                   ELSE kept

LoginChallenge == CheckOnly("login") /\ CreateChallenge("login")

(* The throttle has no say in the writes of a session that is open.        *)
KeyWriteChallenge == CreateChallenge("key-write") /\ UNCHANGED <<row, log>>
KeyWrite == Consume("key-write") /\ UNCHANGED <<row, log>>

(* rotateVaultMaterial: a recovery reset gets here whatever the rows say.  *)
Rotate ==
  /\ row' = [s \in Scope |-> ClearRow]
  /\ log' = [s \in Scope |-> <<>>]
  /\ UNCHANGED open

Later(left) == IF left = -1 THEN -1 ELSE left - 1
Older(a) == IF a = Null \/ a > FailureWindow THEN a ELSE a + 1

Tick ==
  /\ row' = [s \in Scope |->
               [row[s] EXCEPT
                  !.first = Older(row[s].first),
                  !.lock = IF Locked(s) THEN row[s].lock - 1 ELSE row[s].lock]]
  /\ open' = [p \in Purpose |-> [i \in 1..Len(open[p]) |-> Later(open[p][i])]]
  /\ log' = [s \in Scope |->
               LET young == Newest(log[s], 0..(FailureWindow - 1))
               IN [i \in 1..Len(young) |-> young[i] + 1]]

Next ==
  \/ WrongPassword \/ WrongCode \/ RightPassword \/ RightCode \/ Rotate \/ Tick
  \/ LoginChallenge \/ KeyWriteChallenge \/ KeyWrite

Spec == Init /\ [][Next]_vars

-----------------------------------------------------------------------------

(* However failures are spread over time, fewer than twice MaxAttempts of  *)
(* them fit into any FailureWindow without a lockout: the first failure of *)
(* a window is forgotten before the next window can open.                  *)
BurstBounded ==
  \A s \in Scope :
    Len(log[s]) <= IF MaxAttempts = 1 THEN 1 ELSE 2 * MaxAttempts - 3

(* A lockout is served in full: unless the vault is re-keyed, a locked     *)
(* scope stays locked, with the same end, until the clock gets there.      *)
LockoutServed ==
  [][\A s \in Scope :
       Locked(s) /\ row'[s].lock # row[s].lock
         => row'[s].lock = row[s].lock - 1 \/ Rotate]_vars

=============================================================================
