------------------------------ MODULE TabLock ------------------------------
(***************************************************************************)
(* What the tabs of one browser show and when they lock: the phase of      *)
(* apps/web/src/vault/VaultProvider.tsx against the key of session-keys.ts *)
(* and the timers of useIdleLock.ts.  The vault is set up; what the        *)
(* operations do to it is the business of KeyPage.                         *)
(*                                                                         *)
(* A tab follows three things that change apart from one another: whether  *)
(* it has a key, what its screen says, and whether the cookie it shares    *)
(* with its siblings names a live session.  The idle lock is a hook of two *)
(* screens, and its effect starts over whenever the provider's context     *)
(* changes.                                                                *)
(***************************************************************************)
EXTENDS Naturals, FiniteSets

CONSTANTS
  Tab,          \* tabs of one browser
  MaxSessions,  \* bound: sessions ever issued
  Timeout,      \* idleTimeoutSeconds, in steps of the clock
  MaxOps,       \* bound: what users start, apart from pointer and keys
  MaxSame,      \* bound: calls of one kind that a tab has in flight
  Operations,   \* what the users of this instance do
  Background,   \* what the hook of this instance sends by itself
  Keep          \* an answer without a Set-Cookie header

ASSUME BoundsAssumption ==
  /\ {MaxSessions, Timeout, MaxSame} \subseteq Nat \ {0}
  /\ MaxOps \in Nat
ASSUME OperationsAssumption ==
  Operations \subseteq {"unlock", "lock", "refresh", "change", "regenerate",
                        "reload"}
ASSUME BackgroundAssumption == Background \subseteq {"touch", "heartbeat"}

NoSession == 0
Session == 1..MaxSessions
Cookie == Session \cup {NoSession}
ASSUME KeepAssumption == Keep \notin Cookie

Phase == {"loading", "locked", "unlocked", "working", "unavailable"}

(* A "cancelled" call is a heartbeat of an effect that was torn down.  A   *)
(* change or a renewal of codes is "begun" while the browser prepares it.  *)
Kind == {"status", "login", "change", "regenerate", "touch", "lock",
         "heartbeat", "cancelled"}

(* A request carries the cookie it was sent with, an answer a Set-Cookie.  *)
Call ==
  [tab: Tab, kind: Kind, id: 1..MaxSame,
   at: {"begun", "sent", "answered"}, ok: BOOLEAN, cookie: Cookie \cup {Keep}]

VARIABLES
  key,      \* per tab: is there an encryption key in memory?
  phase,    \* per tab: state.phase
  codes,    \* per tab: are recovery codes parked in the wizard?
  idle,     \* per tab: how long ago lastActivityRef was set
  locking,  \* per tab: lockingRef
  heard,    \* per tab: lock broadcasts that it has still to receive
  calls,    \* requests and answers under way
  cookie,   \* the browser's session cookie
  live,     \* the server's sessions neither revoked nor timed out
  issued,   \* number of sessions issued so far
  ops       \* number of operations users have started

tabs == <<key, phase, codes, idle, locking, heard>>
server == <<live, issued>>
vars == <<tabs, calls, cookie, server, ops>>

TypeOK ==
  /\ key \in [Tab -> BOOLEAN]
  /\ phase \in [Tab -> Phase]
  /\ codes \in [Tab -> BOOLEAN]
  /\ idle \in [Tab -> 0..Timeout]
  /\ locking \in [Tab -> BOOLEAN]
  /\ heard \in [Tab -> Nat]
  /\ calls \subseteq Call
  /\ cookie \in Cookie
  /\ live \subseteq 1..issued
  /\ issued \in 0..MaxSessions
  /\ ops \in 0..MaxOps

-----------------------------------------------------------------------------
(* Calls                                                                   *)

Kin(kind) == IF kind \in {"heartbeat", "cancelled"}
             THEN {"heartbeat", "cancelled"} ELSE {kind}

FreeIds(t, kind) ==
  (1..MaxSame) \ {c.id : c \in {d \in calls : d.tab = t /\ d.kind \in Kin(kind)}}

HasRoom(t, kind) == FreeIds(t, kind) # {}

Message(t, kind, i, jar) ==
  [tab |-> t, kind |-> kind, id |-> i, at |-> "sent", ok |-> FALSE,
   cookie |-> jar]

Request(t, kind, jar) ==
  Message(t, kind, CHOOSE i \in FreeIds(t, kind) : TRUE, jar)

(* The effect's cleanup sets heartbeatCancelled.                           *)
Cancel(t, C) ==
  {IF c.tab = t /\ c.kind = "heartbeat" THEN [c EXCEPT !.kind = "cancelled"]
                                        ELSE c : c \in C}

Pending(t, kinds) == \E c \in calls : c.tab = t /\ c.kind \in kinds

-----------------------------------------------------------------------------
(* The hook                                                                *)

(* The dashboard and the settings call useIdleLock; the route guards show  *)
(* them to an unlocked tab without a wizard.                               *)
Mounted(t) == phase[t] = "unlocked" /\ ~codes[t]

(* Fault: the effect leaves lockingRef as it was.                          *)
RestartForgetful(t) ==
  /\ idle' = [idle EXCEPT ![t] = 0]
  /\ UNCHANGED locking

(* The effect runs again: on mount, and on every new state or wizard, by   *)
(* way of the actions and triggerLock.                                     *)
Restart(t) ==
  /\ idle' = [idle EXCEPT ![t] = 0]
  /\ locking' = [locking EXCEPT ![t] = FALSE]

(* setState, with what is left and added of the calls.                     *)
SetState(t, p, C) ==
  /\ phase' = [phase EXCEPT ![t] = p]
  /\ Restart(t)
  /\ calls' = Cancel(t, C)

-----------------------------------------------------------------------------
(* Locking                                                                 *)

SiblingsHear(t) ==
  [u \in Tab |-> IF u = t THEN heard[u] ELSE heard[u] + 1]

(* lock: the key goes at once, the screen follows with the status.  C is   *)
(* what stays of the calls, jar the cookie that the new ones carry.        *)
LockNow(t, C, jar) ==
  /\ HasRoom(t, "lock")
  /\ HasRoom(t, "status")
  /\ key' = [key EXCEPT ![t] = FALSE]
  /\ heard' = SiblingsHear(t)
  /\ calls' = C \cup {Request(t, "lock", jar), Request(t, "status", jar)}
  /\ UNCHANGED <<phase, codes, idle>>

(* triggerLock of the mounted hook.                                        *)
TriggerLock(t, C, jar) ==
  \/ /\ locking[t]
     /\ calls' = C
     /\ UNCHANGED tabs
  \/ /\ ~locking[t]
     /\ locking' = [locking EXCEPT ![t] = TRUE]
     /\ LockNow(t, C, jar)

(* tick, when the time is up.                                              *)
Tick(t) ==
  /\ Mounted(t)
  /\ idle[t] >= Timeout
  /\ ~locking[t]
  /\ TriggerLock(t, calls, cookie)
  /\ UNCHANGED <<cookie, server, ops>>

(* Fault: the broadcast clears the key and nothing else.                   *)
HearQuietly(t) ==
  /\ heard[t] > 0
  /\ heard' = [heard EXCEPT ![t] = @ - 1]
  /\ key' = [key EXCEPT ![t] = FALSE]
  /\ UNCHANGED <<phase, codes, idle, locking, calls, cookie, server, ops>>

(* subscribeLockBroadcast, and the provider's listener.                    *)
Hear(t) ==
  /\ heard[t] > 0
  /\ HasRoom(t, "status")
  /\ heard' = [heard EXCEPT ![t] = @ - 1]
  /\ key' = [key EXCEPT ![t] = FALSE]
  /\ calls' = calls \cup {Request(t, "status", cookie)}
  /\ UNCHANGED <<phase, codes, idle, locking, cookie, server, ops>>

-----------------------------------------------------------------------------
(* Time and activity                                                       *)

Elapse ==
  /\ \E t \in Tab : Mounted(t) /\ idle[t] < Timeout
  /\ idle' = [t \in Tab |-> IF Mounted(t) /\ idle[t] < Timeout THEN idle[t] + 1
                                                               ELSE idle[t]]
  /\ UNCHANGED <<key, phase, codes, locking, heard, calls, cookie, server, ops>>

(* A listener of ACTIVITY_EVENTS.                                          *)
Activity(t) ==
  /\ Mounted(t)
  /\ idle[t] > 0
  /\ idle' = [idle EXCEPT ![t] = 0]
  /\ UNCHANGED <<key, phase, codes, locking, heard, calls, cookie, server, ops>>

(* Between dashboard and settings: the hook's instance is a new one.       *)
Navigate(t) ==
  /\ Mounted(t)
  /\ Restart(t)
  /\ calls' = Cancel(t, calls)
  /\ UNCHANGED <<key, phase, codes, heard, cookie, server, ops>>

(* touchSession: by a tick after activity, or by stayUnlocked.             *)
Touch(t) ==
  /\ "touch" \in Background
  /\ Mounted(t)
  /\ idle[t] < Timeout
  /\ ~Pending(t, {"touch"})
  /\ calls' = calls \cup {Request(t, "touch", cookie)}
  /\ UNCHANGED <<tabs, cookie, server, ops>>

(* runHeartbeat, up to its await.                                          *)
Heartbeat(t) ==
  /\ "heartbeat" \in Background
  /\ Mounted(t)
  /\ ~Pending(t, {"heartbeat"})
  /\ HasRoom(t, "heartbeat")
  /\ calls' = calls \cup {Request(t, "heartbeat", cookie)}
  /\ UNCHANGED <<tabs, cookie, server, ops>>

-----------------------------------------------------------------------------
(* What users start                                                        *)

Start(op) ==
  /\ op \in Operations
  /\ ops < MaxOps
  /\ ops' = ops + 1

Unlock(t) ==
  /\ Start("unlock")
  /\ phase[t] = "locked"
  /\ ~codes[t]
  /\ HasRoom(t, "login")
  /\ SetState(t, "working", calls \cup {Request(t, "login", cookie)})
  /\ UNCHANGED <<key, codes, heard, cookie, server>>

(* The lock button calls lock and not triggerLock.                         *)
LockButton(t) ==
  /\ Start("lock")
  /\ Mounted(t)
  /\ LockNow(t, calls, cookie)
  /\ UNCHANGED <<locking, cookie, server>>

(* The settings have been saved, or a lockout's countdown is over.         *)
Refresh(t) ==
  /\ Start("refresh")
  /\ Mounted(t) \/ phase[t] = "locked"
  /\ HasRoom(t, "status")
  /\ calls' = calls \cup {Request(t, "status", cookie)}
  /\ UNCHANGED <<tabs, cookie, server>>

(* changeMasterPassword and regenerateRecoveryCodes, from the settings.    *)
(* They need the Master Password and a session, not the key.               *)
Renew(t, kind) ==
  /\ Start(kind)
  /\ Mounted(t)
  /\ HasRoom(t, kind)
  /\ calls' = calls \cup {[Request(t, kind, NoSession) EXCEPT !.at = "begun"]}
  /\ UNCHANGED <<tabs, cookie, server>>

Send(c) ==
  /\ c \in calls
  /\ c.at = "begun"
  /\ calls' = (calls \ {c})
               \cup {[c EXCEPT !.at = "sent", !.cookie = cookie]}
  /\ UNCHANGED <<tabs, cookie, server, ops>>

(* acknowledgeRecoveryCodes: the wizard ends, the hook is mounted again if *)
(* the tab is unlocked.                                                    *)
Acknowledge(t) ==
  /\ codes[t]
  /\ codes' = [codes EXCEPT ![t] = FALSE]
  /\ SetState(t, phase[t], calls)
  /\ UNCHANGED <<key, heard, cookie, server, ops>>

(* Memory is gone, and what was on its way is aborted.                     *)
Reload(t) ==
  /\ Start("reload")
  /\ key' = [key EXCEPT ![t] = FALSE]
  /\ codes' = [codes EXCEPT ![t] = FALSE]
  /\ heard' = [heard EXCEPT ![t] = 0]
  /\ phase' = [phase EXCEPT ![t] = "loading"]
  /\ Restart(t)
  /\ calls' = {c \in calls : c.tab # t}
              \cup {Message(t, "status", 1, cookie)}
  /\ UNCHANGED <<cookie, server>>

-----------------------------------------------------------------------------
(* The server                                                              *)

Sent(c) == c \in calls /\ c.at = "sent"

Reply(c, ok, header) ==
  calls' = (calls \ {c})
             \cup {[c EXCEPT !.at = "answered", !.ok = ok, !.cookie = header]}

(* buildStatusResponse and buildSessionResponse: an answer, and a dead     *)
(* cookie is cleared.                                                      *)
AnswerQuestion(c) ==
  /\ Sent(c)
  /\ c.kind \in {"status", "heartbeat", "cancelled"}
  /\ Reply(c, c.cookie \in live,
           IF c.cookie \in live \cup {NoSession} THEN Keep ELSE NoSession)
  /\ UNCHANGED <<tabs, cookie, server, ops>>

(* requireSession turns away; POST /session/touch has nothing to say.      *)
AnswerTouch(c) ==
  /\ Sent(c)
  /\ c.kind = "touch"
  /\ Reply(c, c.cookie \in live, IF c.cookie \in live THEN Keep ELSE NoSession)
  /\ UNCHANGED <<tabs, cookie, server, ops>>

AnswerLock(c) ==
  /\ Sent(c)
  /\ c.kind = "lock"
  /\ live' = live \ {c.cookie}
  /\ Reply(c, TRUE, NoSession)
  /\ UNCHANGED <<tabs, cookie, issued, ops>>

(* A wrong password, a throttled or a conflicting request is refused with  *)
(* the cookie kept; so does requireSession with the cookie cleared.        *)
AnswerRefused(c) ==
  /\ Sent(c)
  /\ c.kind \in {"login", "change", "regenerate"}
  /\ Reply(c, FALSE, IF c.kind = "login" \/ c.cookie \in live THEN Keep
                                                             ELSE NoSession)
  /\ UNCHANGED <<tabs, cookie, server, ops>>

AnswerLogin(c) ==
  /\ Sent(c)
  /\ c.kind = "login"
  /\ issued < MaxSessions
  /\ issued' = issued + 1
  /\ live' = live \cup {issued'}
  /\ Reply(c, TRUE, issued')
  /\ UNCHANGED <<tabs, cookie, ops>>

AnswerChange(c) ==
  /\ Sent(c)
  /\ c.kind = "change"
  /\ c.cookie \in live
  /\ issued < MaxSessions
  /\ issued' = issued + 1
  /\ live' = {issued'}
  /\ Reply(c, TRUE, issued')
  /\ UNCHANGED <<tabs, cookie, ops>>

AnswerRegenerate(c) ==
  /\ Sent(c)
  /\ c.kind = "regenerate"
  /\ c.cookie \in live
  /\ Reply(c, TRUE, Keep)
  /\ UNCHANGED <<tabs, cookie, server, ops>>

Answer(c) ==
  \/ AnswerQuestion(c)
  \/ AnswerTouch(c)
  \/ AnswerLock(c)
  \/ AnswerRefused(c)
  \/ AnswerLogin(c)
  \/ AnswerChange(c)
  \/ AnswerRegenerate(c)

(* A session reaches its idle or its absolute timeout.                     *)
Expire(s) ==
  /\ s \in live
  /\ live' = live \ {s}
  /\ UNCHANGED <<tabs, calls, cookie, issued, ops>>

-----------------------------------------------------------------------------
(* Answers                                                                 *)

Arrives(c) ==
  /\ c \in calls
  /\ c.at = "answered"
  /\ cookie' = IF c.cookie = Keep THEN cookie ELSE c.cookie

Rest(c) == calls \ {c}

(* applyStatus                                                             *)
StatusPhase(t, ok) == IF key[t] /\ ok THEN "unlocked" ELSE "locked"

ApplyStatus(c) ==
  /\ Arrives(c)
  /\ c.kind = "status"
  /\ SetState(c.tab, StatusPhase(c.tab, c.ok), Rest(c))
  /\ UNCHANGED <<key, codes, heard, server, ops>>

ApplyLogin(c) ==
  /\ Arrives(c)
  /\ c.kind = "login"
  /\ c.ok
  /\ key' = [key EXCEPT ![c.tab] = TRUE]
  /\ SetState(c.tab, "unlocked", Rest(c))
  /\ UNCHANGED <<codes, heard, server, ops>>

(* changeMasterPasswordAction and regenerateRecoveryCodesAction: the codes *)
(* go to the wizard, and the status is asked for.                          *)
ApplyRenewal(c) ==
  /\ Arrives(c)
  /\ c.kind \in {"change", "regenerate"}
  /\ c.ok
  /\ HasRoom(c.tab, "status")
  /\ key' = [key EXCEPT ![c.tab] = @ \/ c.kind = "change"]
  /\ codes' = [codes EXCEPT ![c.tab] = TRUE]
  /\ SetState(c.tab, phase[c.tab],
              Rest(c) \cup {Request(c.tab, "status", cookie')})
  /\ UNCHANGED <<heard, server, ops>>

(* unlock, changeMasterPasswordAction and regenerateRecoveryCodesAction    *)
(* end in refreshStatus when they fail.                                    *)
ApplyRefusal(c) ==
  /\ Arrives(c)
  /\ c.kind \in {"login", "change", "regenerate"}
  /\ ~c.ok
  /\ HasRoom(c.tab, "status")
  /\ calls' = Rest(c)
                \cup {Request(c.tab, "status", cookie')}
  /\ UNCHANGED <<tabs, server, ops>>

(* Fault: the heartbeat asks for the status instead of locking.            *)
ApplyHeartbeatRefreshing(c) ==
  /\ Arrives(c)
  /\ c.kind = "heartbeat"
  /\ HasRoom(c.tab, "status")
  /\ calls' = Rest(c)
                \cup {Request(c.tab, "status", cookie')}
  /\ UNCHANGED <<tabs, server, ops>>

(* Fault: the heartbeat locks nothing.                                     *)
ApplyHeartbeatDeaf(c) ==
  /\ Arrives(c)
  /\ c.kind = "heartbeat"
  /\ calls' = Rest(c)
  /\ UNCHANGED <<tabs, server, ops>>

ApplyHeartbeat(c) ==
  /\ Arrives(c)
  /\ c.kind = "heartbeat"
  /\ \/ ~c.ok /\ TriggerLock(c.tab, Rest(c), cookie')
     \/ c.ok /\ calls' = Rest(c) /\ UNCHANGED tabs
  /\ UNCHANGED <<server, ops>>

(* A touch is not cancelled: a refusal locks a tab whose hook is gone, too,*)
(* unless that hook was locking already.                                   *)
ApplyTouch(c) ==
  /\ Arrives(c)
  /\ c.kind = "touch"
  /\ \/ c.ok /\ calls' = Rest(c) /\ UNCHANGED tabs
     \/ ~c.ok /\ Mounted(c.tab) /\ TriggerLock(c.tab, Rest(c), cookie')
     \/ /\ ~c.ok /\ ~Mounted(c.tab)
        /\ \/ LockNow(c.tab, Rest(c), cookie') /\ UNCHANGED locking
           \/ calls' = Rest(c) /\ UNCHANGED tabs
  /\ UNCHANGED <<server, ops>>

(* Nobody looks at these, except for the cookie.                           *)
ApplyIgnored(c) ==
  /\ Arrives(c)
  /\ c.kind \in {"lock", "cancelled"}
  /\ calls' = Rest(c)
  /\ UNCHANGED <<tabs, server, ops>>

Apply(c) ==
  \/ ApplyStatus(c)
  \/ ApplyLogin(c)
  \/ ApplyRenewal(c)
  \/ ApplyRefusal(c)
  \/ ApplyHeartbeat(c)
  \/ ApplyTouch(c)
  \/ ApplyIgnored(c)

(* The request or its answer is lost.  What failed silently ends; a status *)
(* that cannot be had makes the tab unavailable; the others ask for it.    *)
LoseSilently(c) ==
  /\ c \in calls
  /\ c.kind \in {"heartbeat", "cancelled", "touch", "lock"}
  /\ calls' = Rest(c)
  /\ UNCHANGED <<tabs, cookie, server, ops>>

LoseStatus(c) ==
  /\ c \in calls
  /\ c.kind = "status"
  /\ SetState(c.tab, "unavailable", Rest(c))
  /\ UNCHANGED <<key, codes, heard, cookie, server, ops>>

LoseOperation(c) ==
  /\ c \in calls
  /\ c.kind \in {"login", "change", "regenerate"}
  /\ HasRoom(c.tab, "status")
  /\ calls' = Rest(c) \cup {Request(c.tab, "status", cookie)}
  /\ UNCHANGED <<tabs, cookie, server, ops>>

Lose(c) == LoseSilently(c) \/ LoseStatus(c) \/ LoseOperation(c)

-----------------------------------------------------------------------------

(* A tab loads: no key, and its first status is on its way.  Another tab   *)
(* or an earlier life of this one may have left a session.                 *)
Init ==
  /\ key = [t \in Tab |-> FALSE]
  /\ phase = [t \in Tab |-> "loading"]
  /\ codes = [t \in Tab |-> FALSE]
  /\ idle = [t \in Tab |-> 0]
  /\ locking = [t \in Tab |-> FALSE]
  /\ heard = [t \in Tab |-> 0]
  /\ issued \in {0, 1}
  /\ live = 1..issued
  /\ cookie = issued
  /\ calls = {Message(t, "status", 1, cookie) : t \in Tab}
  /\ ops = 0

TabStep(t) ==
  \/ Tick(t)
  \/ Hear(t)
  \/ Activity(t)
  \/ Navigate(t)
  \/ Touch(t)
  \/ Heartbeat(t)
  \/ Unlock(t)
  \/ LockButton(t)
  \/ Refresh(t)
  \/ \E kind \in {"change", "regenerate"} : Renew(t, kind)
  \/ Acknowledge(t)
  \/ Reload(t)

CallStep(c) == Send(c) \/ Answer(c) \/ Apply(c) \/ Lose(c)

Next ==
  \/ Elapse
  \/ \E t \in Tab : TabStep(t)
  \/ \E c \in calls : CallStep(c)
  \/ \E s \in live : Expire(s)

Spec == Init /\ [][Next]_vars

-----------------------------------------------------------------------------
(* Fairness.  Timers run and messages arrive (the browser); the calls that *)
(* a lock waits for end in an answer or in an error (fetch); and the       *)
(* network does not lose every heartbeat.  Nothing is assumed of users, or *)
(* of the calls that they start.                                           *)

Awaited == {"status", "lock", "cancelled"}

OfTab(t, kind, i) == {c \in calls : c.tab = t /\ c.kind = kind /\ c.id = i}

BeatAnswered(t) ==
  \E c \in calls : c.tab = t /\ c.kind = "heartbeat" /\ Answer(c)
BeatApplied(t) ==
  \E c \in calls : c.tab = t /\ ApplyHeartbeat(c)

Fairness ==
  /\ WF_vars(Elapse)
  /\ \A t \in Tab :
       /\ WF_vars(Tick(t))
       /\ WF_vars(Hear(t))
       /\ WF_vars(Heartbeat(t))
       /\ SF_vars(BeatAnswered(t))
       /\ SF_vars(BeatApplied(t))
       /\ \A kind \in Awaited, i \in 1..MaxSame :
            WF_vars(\E c \in OfTab(t, kind, i) : CallStep(c))

FairSpec == Spec /\ Fairness

-----------------------------------------------------------------------------
(* Properties                                                              *)

(* A hook that believes it is locking has no key to protect: lockingRef    *)
(* never suppresses the lock of a tab that was unlocked again.             *)
LockingMeansGone ==
  \A t \in Tab : Mounted(t) /\ locking[t] => ~key[t]

(* A screen that does not fit the key is about to be replaced: an unlocked *)
(* screen without a key waits for a status, a working one for the login or *)
(* for a status.                                                           *)
ScreenFollowsKey ==
  \A t \in Tab :
    /\ phase[t] = "unlocked" /\ ~key[t] => Pending(t, {"status"})
    /\ phase[t] = "working" => Pending(t, {"login", "status"})

(* The idle lock: a tab that nobody touches does not stay unlocked on a    *)
(* screen with the hook, whatever its siblings and its own calls do.       *)
IdleTabsLock ==
  \A t \in Tab :
    \/ []<>~(Mounted(t) /\ key[t])
    \/ []<><<Activity(t) \/ Navigate(t)>>_vars

(* The heartbeat: a tab does not stay unlocked without a session, even if  *)
(* somebody keeps it busy.                                                 *)
SessionlessTabsLock ==
  \A t \in Tab : []<>(cookie \in live \/ ~(Mounted(t) /\ key[t]))

(* README.md: the vault locks after some minutes without activity.  The    *)
(* screen with the recovery codes has no idle lock.                        *)
UnlockedTabsLock ==
  \A t \in Tab :
    \/ []<>~(phase[t] = "unlocked" /\ key[t])
    \/ []<><<Activity(t) \/ Navigate(t)>>_vars

=============================================================================
