---------------------------- MODULE TabLockProofs ----------------------------
(***************************************************************************)
(* For any number of tabs, sessions and operations, and whatever is lost:  *)
(* TabLock keeps its types, lockingRef never suppresses a needed lock, and *)
(* no screen is stranded without the key it needs.                         *)
(***************************************************************************)
EXTENDS TabLock, TLAPS

LEMMA RequestType ==
  ASSUME NEW t \in Tab, NEW kind \in Kind, NEW jar \in Cookie, HasRoom(t, kind)
  PROVE  /\ Request(t, kind, jar) \in Call
         /\ Request(t, kind, jar).tab = t
         /\ Request(t, kind, jar).kind = kind
<1>1. (CHOOSE i \in FreeIds(t, kind) : TRUE) \in 1..MaxSame
  BY DEF HasRoom, FreeIds
<1> QED BY <1>1 DEF Request, Message, Call

LEMMA CancelType ==
  ASSUME NEW t \in Tab, NEW C \in SUBSET Call
  PROVE  Cancel(t, C) \subseteq Call
BY DEF Cancel, Call, Kind

(* A torn down effect takes nothing but heartbeats with it.                *)
LEMMA CancelKeeps ==
  ASSUME NEW t \in Tab, NEW C \in SUBSET Call, NEW c \in C,
         c.kind # "heartbeat"
  PROVE  c \in Cancel(t, C)
BY DEF Cancel

LEMMA StateTypes ==
  ASSUME TypeOK, NEW t \in Tab, NEW p \in Phase, NEW C \in SUBSET Call,
         SetState(t, p, C)
  PROVE  /\ phase' \in [Tab -> Phase]
         /\ idle' \in [Tab -> 0..Timeout]
         /\ locking' \in [Tab -> BOOLEAN]
         /\ calls' \subseteq Call
<1>1. Cancel(t, C) \subseteq Call
  BY CancelType
<1> QED BY <1>1, BoundsAssumption DEF SetState, Restart, TypeOK

LEMMA LockTypes ==
  ASSUME TypeOK, NEW t \in Tab, NEW C \in SUBSET Call, NEW jar \in Cookie,
         LockNow(t, C, jar)
  PROVE  /\ key' \in [Tab -> BOOLEAN]
         /\ heard' \in [Tab -> Nat]
         /\ calls' \subseteq Call
         /\ UNCHANGED <<phase, codes, idle>>
<1>1. /\ Request(t, "lock", jar) \in Call
      /\ Request(t, "status", jar) \in Call
  BY RequestType DEF LockNow, Kind
<1> QED BY <1>1 DEF LockNow, SiblingsHear, TypeOK

LEMMA TriggerTypes ==
  ASSUME TypeOK, NEW t \in Tab, NEW C \in SUBSET Call, NEW jar \in Cookie,
         TriggerLock(t, C, jar)
  PROVE  /\ key' \in [Tab -> BOOLEAN]
         /\ heard' \in [Tab -> Nat]
         /\ locking' \in [Tab -> BOOLEAN]
         /\ calls' \subseteq Call
         /\ UNCHANGED <<phase, codes, idle>>
<1>1. CASE calls' = C /\ UNCHANGED tabs
  BY <1>1 DEF tabs, TypeOK
<1>2. CASE locking' = [locking EXCEPT ![t] = TRUE] /\ LockNow(t, C, jar)
  <2>1. locking' \in [Tab -> BOOLEAN]
    BY <1>2 DEF TypeOK
  <2> QED BY <1>2, <2>1, LockTypes
<1> QED BY <1>1, <1>2 DEF TriggerLock

-----------------------------------------------------------------------------

LEMMA TabTypes ==
  ASSUME TypeOK, NEW t \in Tab, TabStep(t)
  PROVE  TypeOK'
<1> USE BoundsAssumption
<1>c. cookie \in Cookie /\ calls \in SUBSET Call
  BY DEF TypeOK
<1>1. CASE Tick(t)
  BY <1>1, <1>c, TriggerTypes DEF Tick, TypeOK, server
<1>2. CASE Hear(t)
  <2>1. Request(t, "status", cookie) \in Call
    BY <1>2, <1>c, RequestType DEF Hear, Kind
  <2>2. heard[t] - 1 \in Nat
    BY <1>2 DEF Hear, TypeOK
  <2> QED BY <1>2, <2>1, <2>2 DEF Hear, TypeOK, server
<1>3. CASE Activity(t)
  BY <1>3 DEF Activity, TypeOK, server
<1>4. CASE Navigate(t)
  BY <1>4, <1>c, CancelType DEF Navigate, Restart, TypeOK, server
<1>5. CASE Touch(t)
  <2>1. FreeIds(t, "touch") = 1..MaxSame
    BY <1>5 DEF Touch, Pending, FreeIds, Kin
  <2>2. HasRoom(t, "touch")
    BY <2>1 DEF HasRoom
  <2>3. Request(t, "touch", cookie) \in Call
    BY <1>c, <2>2, RequestType DEF Kind
  <2> QED BY <1>5, <2>3 DEF Touch, TypeOK, tabs, server
<1>6. CASE Heartbeat(t)
  <2>1. Request(t, "heartbeat", cookie) \in Call
    BY <1>6, <1>c, RequestType DEF Heartbeat, Kind
  <2> QED BY <1>6, <2>1 DEF Heartbeat, TypeOK, tabs, server
<1>7. CASE Unlock(t)
  <2>1. Request(t, "login", cookie) \in Call
    BY <1>7, <1>c, RequestType DEF Unlock, Kind
  <2>2. SetState(t, "working", calls \cup {Request(t, "login", cookie)})
    BY <1>7 DEF Unlock
  <2>3. /\ phase' \in [Tab -> Phase]
        /\ idle' \in [Tab -> 0..Timeout]
        /\ locking' \in [Tab -> BOOLEAN]
        /\ calls' \subseteq Call
    BY <1>c, <2>1, <2>2, StateTypes DEF Phase
  <2> QED BY <1>7, <2>3 DEF Unlock, Start, TypeOK, server
<1>8. CASE LockButton(t)
  <2>1. LockNow(t, calls, cookie)
    BY <1>8 DEF LockButton
  <2>2. /\ key' \in [Tab -> BOOLEAN]
        /\ heard' \in [Tab -> Nat]
        /\ calls' \subseteq Call
        /\ UNCHANGED <<phase, codes, idle>>
    BY <1>c, <2>1, LockTypes
  <2>3. ops' \in 0..MaxOps
    BY <1>8 DEF LockButton, Start, TypeOK
  <2> QED BY <1>8, <2>2, <2>3 DEF LockButton, TypeOK, server
<1>9. CASE Refresh(t)
  <2>1. Request(t, "status", cookie) \in Call
    BY <1>9, <1>c, RequestType DEF Refresh, Kind
  <2> QED BY <1>9, <2>1 DEF Refresh, Start, TypeOK, tabs, server
<1>10. ASSUME NEW kind \in {"change", "regenerate"}, Renew(t, kind)
       PROVE  TypeOK'
  <2>1. Request(t, kind, NoSession) \in Call
    BY <1>10, RequestType DEF Renew, Kind, Cookie
  <2>2. [Request(t, kind, NoSession) EXCEPT !.at = "begun"] \in Call
    BY <2>1 DEF Call
  <2> QED BY <1>10, <2>2 DEF Renew, Start, TypeOK, tabs, server
<1>11. CASE Acknowledge(t)
  <2>1. SetState(t, phase[t], calls) /\ phase[t] \in Phase
    BY <1>11 DEF Acknowledge, TypeOK
  <2>2. /\ phase' \in [Tab -> Phase]
        /\ idle' \in [Tab -> 0..Timeout]
        /\ locking' \in [Tab -> BOOLEAN]
        /\ calls' \subseteq Call
    BY <1>c, <2>1, StateTypes
  <2> QED BY <1>11, <2>2 DEF Acknowledge, TypeOK, server
<1>12. CASE Reload(t)
  <2>1. Message(t, "status", 1, cookie) \in Call
    BY <1>c DEF Message, Call, Kind
  <2> QED BY <1>12, <2>1 DEF Reload, Restart, Start, TypeOK, Phase, server
<1> QED
  BY <1>1, <1>2, <1>3, <1>4, <1>5, <1>6, <1>7, <1>8, <1>9, <1>10, <1>11,
     <1>12 DEF TabStep

LEMMA AnswerTypes ==
  ASSUME TypeOK, NEW c \in calls, Send(c) \/ Answer(c)
  PROVE  TypeOK'
<1> USE BoundsAssumption
<1>c. c \in Call /\ calls \subseteq Call /\ cookie \in Cookie
  BY DEF TypeOK
<1>r. ASSUME NEW ok \in BOOLEAN, NEW header \in Cookie \cup {Keep},
             Reply(c, ok, header)
      PROVE  calls' \subseteq Call
  <2>1. [c EXCEPT !.at = "answered", !.ok = ok, !.cookie = header] \in Call
    BY <1>c DEF Call
  <2> QED BY <1>c, <1>r, <2>1 DEF Reply
<1>1. CASE Send(c)
  <2>1. [c EXCEPT !.at = "sent", !.cookie = cookie] \in Call
    BY <1>c DEF Call
  <2>2. calls' \subseteq Call
    BY <1>1, <1>c, <2>1 DEF Send
  <2> QED BY <1>1, <2>2 DEF Send, TypeOK, tabs, server
<1>h. ASSUME NEW S, Reply(c, c.cookie \in live,
                          IF c.cookie \in S THEN Keep ELSE NoSession)
      PROVE  calls' \subseteq Call
  <2>1. (IF c.cookie \in S THEN Keep ELSE NoSession) \in Cookie \cup {Keep}
    BY DEF Cookie
  <2>2. (c.cookie \in live) \in BOOLEAN
    OBVIOUS
  <2> QED BY <1>h, <1>r, <2>1, <2>2
<1>2. CASE AnswerQuestion(c)
  <2>1. calls' \subseteq Call
    BY <1>2, <1>h DEF AnswerQuestion
  <2> QED BY <1>2, <2>1 DEF AnswerQuestion, TypeOK, tabs, server
<1>3. CASE AnswerTouch(c)
  <2>1. calls' \subseteq Call
    BY <1>3, <1>h DEF AnswerTouch
  <2> QED BY <1>3, <2>1 DEF AnswerTouch, TypeOK, tabs, server
<1>4. CASE AnswerLock(c)
  <2>1. calls' \subseteq Call
    BY <1>4, <1>r DEF AnswerLock, Cookie
  <2> QED BY <1>4, <2>1 DEF AnswerLock, TypeOK, tabs
<1>5. CASE AnswerRefused(c)
  <2>1. calls' \subseteq Call
    BY <1>5, <1>r DEF AnswerRefused, Cookie
  <2> QED BY <1>5, <2>1 DEF AnswerRefused, TypeOK, tabs, server
<1>i. ASSUME issued < MaxSessions, issued' = issued + 1
      PROVE  issued' \in 1..MaxSessions /\ 1..issued \subseteq 1..issued'
  BY <1>i DEF TypeOK
<1>6. CASE AnswerLogin(c)
  <2>1. issued' \in 1..MaxSessions /\ 1..issued \subseteq 1..issued'
    BY <1>6, <1>i DEF AnswerLogin
  <2>2. calls' \subseteq Call
    BY <1>6, <2>1, <1>r DEF AnswerLogin, Cookie, Session
  <2>3. issued' \in 0..MaxSessions /\ live' \subseteq 1..issued'
    BY <1>6, <2>1 DEF AnswerLogin, TypeOK
  <2> QED BY <1>6, <2>2, <2>3 DEF AnswerLogin, TypeOK, tabs
<1>7. CASE AnswerChange(c)
  <2>1. issued' \in 1..MaxSessions /\ 1..issued \subseteq 1..issued'
    BY <1>7, <1>i DEF AnswerChange
  <2>2. calls' \subseteq Call
    BY <1>7, <2>1, <1>r DEF AnswerChange, Cookie, Session
  <2>3. issued' \in 0..MaxSessions /\ live' \subseteq 1..issued'
    BY <1>7, <2>1 DEF AnswerChange, TypeOK
  <2> QED BY <1>7, <2>2, <2>3 DEF AnswerChange, TypeOK, tabs
<1>8. CASE AnswerRegenerate(c)
  <2>1. calls' \subseteq Call
    BY <1>8, <1>r DEF AnswerRegenerate
  <2> QED BY <1>8, <2>1 DEF AnswerRegenerate, TypeOK, tabs, server
<1> QED
  BY <1>1, <1>2, <1>3, <1>4, <1>5, <1>6, <1>7, <1>8 DEF Answer

LEMMA ApplyTypes ==
  ASSUME TypeOK, NEW c \in calls, Apply(c) \/ Lose(c)
  PROVE  TypeOK'
<1> USE BoundsAssumption
<1>c. /\ c \in Call /\ c.tab \in Tab /\ Rest(c) \in SUBSET Call
      /\ cookie \in Cookie
  BY DEF TypeOK, Call, Rest
<1>a. ASSUME Arrives(c)
      PROVE  cookie' \in Cookie
  BY <1>a, <1>c DEF Arrives, Call
<1>s. ASSUME HasRoom(c.tab, "status"), NEW jar \in Cookie
      PROVE  Rest(c) \cup {Request(c.tab, "status", jar)} \in SUBSET Call
  BY <1>s, <1>c, RequestType DEF Kind
<1>1. CASE ApplyStatus(c)
  <2>1. StatusPhase(c.tab, c.ok) \in Phase
    BY DEF StatusPhase, Phase
  <2>2. /\ phase' \in [Tab -> Phase]
        /\ idle' \in [Tab -> 0..Timeout]
        /\ locking' \in [Tab -> BOOLEAN]
        /\ calls' \subseteq Call
    BY <1>1, <1>c, <2>1, StateTypes DEF ApplyStatus
  <2> QED BY <1>1, <1>a, <2>2 DEF ApplyStatus, TypeOK, server
<1>2. CASE ApplyLogin(c)
  <2>1. "unlocked" \in Phase
    BY DEF Phase
  <2>2. /\ phase' \in [Tab -> Phase]
        /\ idle' \in [Tab -> 0..Timeout]
        /\ locking' \in [Tab -> BOOLEAN]
        /\ calls' \subseteq Call
    BY <1>2, <1>c, <2>1, StateTypes DEF ApplyLogin
  <2> QED BY <1>2, <1>a, <2>2 DEF ApplyLogin, TypeOK, server
<1>3. CASE ApplyRenewal(c)
  <2>1. phase[c.tab] \in Phase
    BY <1>c DEF TypeOK
  <2>2. Rest(c) \cup {Request(c.tab, "status", cookie')} \in SUBSET Call
    BY <1>3, <1>a, <1>s DEF ApplyRenewal
  <2>3. /\ phase' \in [Tab -> Phase]
        /\ idle' \in [Tab -> 0..Timeout]
        /\ locking' \in [Tab -> BOOLEAN]
        /\ calls' \subseteq Call
    BY <1>3, <1>c, <2>1, <2>2, StateTypes DEF ApplyRenewal
  <2>4. (key[c.tab] \/ c.kind = "change") \in BOOLEAN
    OBVIOUS
  <2>5. key' \in [Tab -> BOOLEAN]
    BY <1>3, <2>4 DEF ApplyRenewal, TypeOK
  <2> QED BY <1>3, <1>a, <2>3, <2>5 DEF ApplyRenewal, TypeOK, server
<1>4. CASE ApplyRefusal(c)
  <2>1. calls' \subseteq Call
    BY <1>4, <1>a, <1>s DEF ApplyRefusal
  <2> QED BY <1>4, <1>a, <2>1 DEF ApplyRefusal, TypeOK, tabs, server
<1>5. CASE ApplyHeartbeat(c)
  <2>1. CASE TriggerLock(c.tab, Rest(c), cookie')
    BY <1>5, <1>a, <1>c, <2>1, TriggerTypes
       DEF ApplyHeartbeat, TypeOK, server
  <2>2. CASE calls' = Rest(c) /\ UNCHANGED tabs
    BY <1>5, <1>a, <1>c, <2>2 DEF ApplyHeartbeat, TypeOK, tabs, server
  <2> QED BY <1>5, <2>1, <2>2 DEF ApplyHeartbeat
<1>6. CASE ApplyTouch(c)
  <2>1. CASE TriggerLock(c.tab, Rest(c), cookie')
    BY <1>6, <1>a, <1>c, <2>1, TriggerTypes DEF ApplyTouch, TypeOK, server
  <2>2. CASE calls' = Rest(c) /\ UNCHANGED tabs
    BY <1>6, <1>a, <1>c, <2>2 DEF ApplyTouch, TypeOK, tabs, server
  <2>3. CASE LockNow(c.tab, Rest(c), cookie') /\ UNCHANGED locking
    BY <1>6, <1>a, <1>c, <2>3, LockTypes DEF ApplyTouch, TypeOK, server
  <2> QED BY <1>6, <2>1, <2>2, <2>3 DEF ApplyTouch
<1>7. CASE ApplyIgnored(c)
  BY <1>7, <1>a, <1>c DEF ApplyIgnored, TypeOK, tabs, server
<1>8. CASE LoseSilently(c)
  BY <1>8, <1>c DEF LoseSilently, TypeOK, tabs, server
<1>9. CASE LoseStatus(c)
  <2>1. "unavailable" \in Phase
    BY DEF Phase
  <2>2. /\ phase' \in [Tab -> Phase]
        /\ idle' \in [Tab -> 0..Timeout]
        /\ locking' \in [Tab -> BOOLEAN]
        /\ calls' \subseteq Call
    BY <1>9, <1>c, <2>1, StateTypes DEF LoseStatus
  <2> QED BY <1>9, <2>2 DEF LoseStatus, TypeOK, server
<1>10. CASE LoseOperation(c)
  <2>1. calls' \subseteq Call
    BY <1>10, <1>c, <1>s DEF LoseOperation
  <2> QED BY <1>10, <2>1 DEF LoseOperation, TypeOK, tabs, server
<1> QED
  BY <1>1, <1>2, <1>3, <1>4, <1>5, <1>6, <1>7, <1>8, <1>9, <1>10
     DEF Apply, Lose

(* Every variable of TabLock keeps its type.                               *)
THEOREM TabTypesKept == Spec => []TypeOK
<1>1. Init => TypeOK
  <2> SUFFICES ASSUME Init PROVE TypeOK
    OBVIOUS
  <2>1. issued \in 0..MaxSessions /\ cookie \in Cookie
    BY BoundsAssumption DEF Init, Cookie, Session, NoSession
  <2>2. \A t \in Tab : Message(t, "status", 1, cookie) \in Call
    BY <2>1, BoundsAssumption DEF Message, Call, Kind
  <2>3. calls \subseteq Call
    BY <2>2 DEF Init
  <2> QED BY <2>1, <2>3, BoundsAssumption DEF Init, TypeOK, Phase
<1>2. TypeOK /\ [Next]_vars => TypeOK'
  <2> SUFFICES ASSUME TypeOK, [Next]_vars PROVE TypeOK'
    OBVIOUS
  <2>1. CASE Elapse
    <3>1. \A t \in Tab : idle[t] < Timeout => idle[t] + 1 \in 0..Timeout
      BY BoundsAssumption DEF TypeOK
    <3>2. idle' \in [Tab -> 0..Timeout]
      BY <2>1, <3>1 DEF Elapse, TypeOK
    <3> QED BY <2>1, <3>2 DEF Elapse, TypeOK, server
  <2>2. ASSUME NEW t \in Tab, TabStep(t) PROVE TypeOK'
    BY <2>2, TabTypes
  <2>3. ASSUME NEW c \in calls, CallStep(c) PROVE TypeOK'
    BY <2>3, AnswerTypes, ApplyTypes DEF CallStep
  <2>4. ASSUME NEW s \in live, Expire(s) PROVE TypeOK'
    BY <2>4 DEF Expire, TypeOK, tabs
  <2>5. CASE UNCHANGED vars
    BY <2>5 DEF vars, tabs, server, TypeOK
  <2> QED BY <2>1, <2>2, <2>3, <2>4, <2>5 DEF Next
<1> QED BY <1>1, <1>2, PTL DEF Spec

-----------------------------------------------------------------------------

(* What the two properties say of one tab.                                 *)
Settled(t) ==
  /\ Mounted(t) /\ locking[t] => ~key[t]
  /\ phase[t] = "unlocked" /\ ~key[t] => Pending(t, {"status"})
  /\ phase[t] = "working" => Pending(t, {"login", "status"})

LEMMA SettledAll ==
  LockingMeansGone /\ ScreenFollowsKey <=> \A t \in Tab : Settled(t)
BY DEF LockingMeansGone, ScreenFollowsKey, Settled

(* A tab that a step leaves alone stays settled, if none of its logins and *)
(* statuses disappears.                                                    *)
LEMMA SettledStays ==
  ASSUME NEW u \in Tab, Settled(u),
         UNCHANGED <<key[u], phase[u], codes[u]>>,
         locking'[u] => locking[u],
         \A c \in calls : c.tab = u /\ c.kind \in {"login", "status"}
                            => \E d \in calls' : d.tab = u /\ d.kind = c.kind
  PROVE  Settled(u)'
BY DEF Settled, Mounted, Pending

(* Whatever happened to a tab's key, a status on its way settles it, if it *)
(* is not locking or has no key.                                           *)
LEMMA SettledByStatus ==
  ASSUME NEW u \in Tab, ~locking'[u] \/ ~key'[u],
         \E c \in calls' : c.tab = u /\ c.kind = "status"
  PROVE  Settled(u)'
BY DEF Settled, Mounted, Pending

(* A step that only loses or adds calls of other kinds, or adds a status.  *)
Keeps(C) ==
  \A c \in calls : c.kind \in {"login", "status"}
    => \E d \in C : d.tab = c.tab /\ d.kind = c.kind

LEMMA RestKeeps ==
  ASSUME NEW c \in calls, c.kind \notin {"login", "status"}
  PROVE  Keeps(Rest(c))
BY DEF Keeps, Rest

LEMMA QuietStep ==
  ASSUME NEW u \in Tab, Settled(u), UNCHANGED <<key, phase, codes, locking>>,
         Keeps(calls')
  PROVE  Settled(u)'
BY SettledStays DEF Keeps

LEMMA LockSettles ==
  ASSUME TypeOK, NEW u \in Tab, Settled(u), NEW t \in Tab,
         NEW C \in SUBSET Call, NEW jar \in Cookie,
         LockNow(t, C, jar), Keeps(C), u # t => locking'[u] = locking[u]
  PROVE  Settled(u)'
<1>1. Keeps(calls')
  BY DEF LockNow, Keeps
<1>2. CASE u = t
  <2>1. ~key'[t]
    BY DEF LockNow, TypeOK
  <2>2. \E c \in calls' : c.tab = t /\ c.kind = "status"
    BY RequestType DEF LockNow, Kind
  <2> QED BY <1>2, <2>1, <2>2, SettledByStatus
<1>3. CASE u # t
  <2>1. key'[u] = key[u] /\ UNCHANGED <<phase[u], codes[u]>>
    BY <1>3 DEF LockNow, TypeOK
  <2>2. locking'[u] => locking[u]
    BY <1>3
  <2>3. \A c \in calls : c.tab = u /\ c.kind \in {"login", "status"}
                         => \E d \in calls' : d.tab = u /\ d.kind = c.kind
    BY <1>1 DEF Keeps
  <2> QED BY <2>1, <2>2, <2>3, SettledStays
<1> QED BY <1>2, <1>3

LEMMA TriggerSettles ==
  ASSUME TypeOK, NEW u \in Tab, Settled(u), NEW t \in Tab,
         NEW C \in SUBSET Call, NEW jar \in Cookie,
         TriggerLock(t, C, jar), Keeps(C)
  PROVE  Settled(u)'
<1>1. CASE calls' = C /\ UNCHANGED tabs
  BY <1>1, QuietStep DEF tabs
<1>2. CASE locking' = [locking EXCEPT ![t] = TRUE] /\ LockNow(t, C, jar)
  BY <1>2, LockSettles DEF TypeOK
<1> QED BY <1>1, <1>2 DEF TriggerLock

(* setState in tab t: it must fit the key and what is on its way.          *)
LEMMA StateSettles ==
  ASSUME TypeOK, NEW u \in Tab, Settled(u), NEW t \in Tab, NEW p,
         NEW C \in SUBSET Call, SetState(t, p, C),
         u # t => UNCHANGED <<key[u], codes[u]>>,
         \A c \in calls : c.tab # t => c \in C,
         p = "unlocked" /\ ~key'[t]
           => \E c \in C : c.tab = t /\ c.kind = "status",
         p = "working"
           => \E c \in C : c.tab = t /\ c.kind \in {"login", "status"}
  PROVE  Settled(u)'
<1>1. \A c \in C : c.kind \in {"login", "status"} => c \in calls'
  BY CancelKeeps DEF SetState
<1>2. CASE u = t
  <2>1. phase'[t] = p /\ ~locking'[t]
    BY DEF SetState, Restart, TypeOK
  <2> QED BY <1>1, <1>2, <2>1 DEF Settled, Mounted, Pending
<1>3. CASE u # t
  <2>1. UNCHANGED <<key[u], phase[u], codes[u], locking[u]>>
    BY <1>3 DEF SetState, Restart, TypeOK
  <2>2. \A c \in calls : c.tab = u /\ c.kind \in {"login", "status"}
                         => c \in calls'
    BY <1>1, <1>3
  <2> QED BY <2>1, <2>2, SettledStays
<1> QED BY <1>2, <1>3

LEMMA TabSettles ==
  ASSUME TypeOK, NEW u \in Tab, Settled(u), NEW t \in Tab, TabStep(t)
  PROVE  Settled(u)'
<1>c. calls \in SUBSET Call /\ cookie \in Cookie
  BY DEF TypeOK
<1>k. Keeps(calls)
  BY DEF Keeps
<1>m. \A D : calls' = calls \cup D => Keeps(calls')
  BY DEF Keeps
<1>1. CASE Tick(t)
  BY <1>1, <1>c, <1>k, TriggerSettles DEF Tick
<1>2. CASE Hear(t)
  <2>1. CASE u = t
    <3>1. ~key'[t]
      BY <1>2 DEF Hear, TypeOK
    <3>2. \E c \in calls' : c.tab = t /\ c.kind = "status"
      BY <1>2, <1>c, RequestType DEF Hear, Kind
    <3> QED BY <2>1, <3>1, <3>2, SettledByStatus
  <2>2. CASE u # t
    BY <1>2, <2>2, SettledStays DEF Hear, TypeOK
  <2> QED BY <2>1, <2>2
<1>3. CASE Activity(t)
  BY <1>3, <1>k, QuietStep DEF Activity, Keeps
<1>4. CASE Navigate(t)
  <2>1. \A c \in calls : c.kind \in {"login", "status"} => c \in calls'
    BY <1>4, <1>c, CancelKeeps DEF Navigate
  <2>2. locking'[u] => locking[u]
    BY <1>4 DEF Navigate, Restart, TypeOK
  <2> QED BY <1>4, <2>1, <2>2, SettledStays DEF Navigate
<1>5. CASE Touch(t)
  BY <1>5, <1>m, QuietStep DEF Touch, tabs
<1>6. CASE Heartbeat(t)
  BY <1>6, <1>m, QuietStep DEF Heartbeat, tabs
<1>7. CASE Unlock(t)
  <2> DEFINE C == calls \cup {Request(t, "login", cookie)}
  <2>1. /\ Request(t, "login", cookie) \in Call
        /\ Request(t, "login", cookie).tab = t
        /\ Request(t, "login", cookie).kind = "login"
    BY <1>7, <1>c, RequestType DEF Unlock, Kind
  <2>2. C \in SUBSET Call /\ SetState(t, "working", C)
    BY <1>7, <1>c, <2>1 DEF Unlock
  <2>3. \E c \in C : c.tab = t /\ c.kind \in {"login", "status"}
    BY <2>1
  <2>4. UNCHANGED <<key[u], codes[u]>> /\ \A c \in calls : c \in C
    BY <1>7 DEF Unlock
  <2> QED BY <2>2, <2>3, <2>4, StateSettles
<1>8. CASE LockButton(t)
  BY <1>8, <1>c, <1>k, LockSettles DEF LockButton
<1>9. CASE Refresh(t)
  BY <1>9, <1>m, QuietStep DEF Refresh, tabs
<1>10. ASSUME NEW kind \in {"change", "regenerate"}, Renew(t, kind)
       PROVE  Settled(u)'
  BY <1>10, <1>m, QuietStep DEF Renew, tabs
<1>11. CASE Acknowledge(t)
  <2>1. /\ SetState(t, phase[t], calls)
        /\ key' = key
        /\ u # t => codes'[u] = codes[u]
    BY <1>11 DEF Acknowledge, TypeOK
  <2>2. CASE u = t
    <3>1. \A c \in calls : c.kind \in {"login", "status"} => c \in calls'
      BY <2>1, <1>c, CancelKeeps DEF SetState
    <3>2. phase'[t] = phase[t] /\ ~locking'[t]
      BY <2>1 DEF SetState, Restart, TypeOK
    <3> QED BY <2>1, <2>2, <3>1, <3>2 DEF Settled, Mounted, Pending
  <2>3. CASE u # t
    <3>1. \A c \in calls : c.kind \in {"login", "status"} => c \in calls'
      BY <2>1, <1>c, CancelKeeps DEF SetState
    <3>2. UNCHANGED <<key[u], phase[u], codes[u], locking[u]>>
      BY <2>1, <2>3 DEF SetState, Restart, TypeOK
    <3> QED BY <3>1, <3>2, SettledStays
  <2> QED BY <2>2, <2>3
<1>12. CASE Reload(t)
  <2>1. CASE u = t
    <3>1. ~key'[t]
      BY <1>12 DEF Reload, TypeOK
    <3>2. Message(t, "status", 1, cookie) \in calls'
      BY <1>12 DEF Reload
    <3>3. \E c \in calls' : c.tab = t /\ c.kind = "status"
      BY <3>2 DEF Message
    <3> QED BY <2>1, <3>1, <3>3, SettledByStatus
  <2>2. CASE u # t
    <3>1. UNCHANGED <<key[u], phase[u], codes[u], locking[u]>>
      BY <1>12, <2>2 DEF Reload, Restart, TypeOK
    <3>2. \A c \in calls : c.tab = u => c \in calls'
      BY <1>12, <2>2 DEF Reload
    <3> QED BY <3>1, <3>2, SettledStays
  <2> QED BY <2>1, <2>2
<1> QED
  BY <1>1, <1>2, <1>3, <1>4, <1>5, <1>6, <1>7, <1>8, <1>9, <1>10, <1>11,
     <1>12 DEF TabStep

LEMMA AnswerSettles ==
  ASSUME TypeOK, NEW u \in Tab, Settled(u), NEW c \in calls,
         Send(c) \/ Answer(c)
  PROVE  Settled(u)'
<1>c. c \in Call
  BY DEF TypeOK
<1>1. Keeps(calls')
  <2>r. ASSUME NEW d, d.tab = c.tab, d.kind = c.kind,
               calls' = (calls \ {c}) \cup {d}
        PROVE  Keeps(calls')
    BY <2>r DEF Keeps
  <2>1. CASE Send(c)
    <3>1. PICK d : d = [c EXCEPT !.at = "sent", !.cookie = cookie]
      OBVIOUS
    <3>2. d.tab = c.tab /\ d.kind = c.kind
      BY <1>c, <3>1 DEF Call
    <3> QED BY <2>1, <2>r, <3>1, <3>2 DEF Send
  <2>2. ASSUME NEW ok, NEW header, Reply(c, ok, header)
        PROVE  Keeps(calls')
    <3>1. PICK d :
            d = [c EXCEPT !.at = "answered", !.ok = ok, !.cookie = header]
      OBVIOUS
    <3>2. d.tab = c.tab /\ d.kind = c.kind
      BY <1>c, <3>1 DEF Call
    <3> QED BY <2>2, <2>r, <3>1, <3>2 DEF Reply
  <2> QED
    BY <2>1, <2>2
       DEF Answer, AnswerQuestion, AnswerTouch, AnswerLock, AnswerRefused,
           AnswerLogin, AnswerChange, AnswerRegenerate
<1>2. UNCHANGED tabs
  BY DEF Send, Answer, AnswerQuestion, AnswerTouch, AnswerLock,
         AnswerRefused, AnswerLogin, AnswerChange, AnswerRegenerate
<1> QED BY <1>1, <1>2, QuietStep DEF tabs

LEMMA ApplySettles ==
  ASSUME TypeOK, NEW u \in Tab, Settled(u), NEW c \in calls,
         Apply(c) \/ Lose(c)
  PROVE  Settled(u)'
<1> DEFINE t == c.tab
<1>c. /\ c \in Call /\ t \in Tab /\ Rest(c) \in SUBSET Call
      /\ cookie \in Cookie
  BY DEF TypeOK, Call, Rest
<1>a. ASSUME Arrives(c)
      PROVE  cookie' \in Cookie
  BY <1>a, <1>c DEF Arrives, Call
<1>o. \A d \in calls : d.tab # t => d \in Rest(c)
  BY DEF Rest
<1>s. ASSUME HasRoom(t, "status"), NEW jar \in Cookie
      PROVE  /\ Request(t, "status", jar) \in Call
             /\ Request(t, "status", jar).tab = t
             /\ Request(t, "status", jar).kind = "status"
  BY <1>s, <1>c, RequestType DEF Kind
<1>1. CASE ApplyStatus(c)
  <2>1. SetState(t, StatusPhase(t, c.ok), Rest(c)) /\ UNCHANGED <<key, codes>>
    BY <1>1 DEF ApplyStatus
  <2>2. /\ StatusPhase(t, c.ok) = "unlocked" => key'[t]
        /\ StatusPhase(t, c.ok) # "working"
    BY <2>1 DEF StatusPhase
  <2> QED BY <1>c, <1>o, <2>1, <2>2, StateSettles
<1>2. CASE ApplyLogin(c)
  <2>1. SetState(t, "unlocked", Rest(c)) /\ codes' = codes
    BY <1>2 DEF ApplyLogin
  <2>2. key'[t] /\ (u # t => key'[u] = key[u])
    BY <1>2, <1>c DEF ApplyLogin, TypeOK
  <2> QED BY <1>c, <1>o, <2>1, <2>2, StateSettles
<1>3. CASE ApplyRenewal(c)
  <2> DEFINE C == Rest(c) \cup {Request(t, "status", cookie')}
  <2>1. /\ Request(t, "status", cookie') \in Call
        /\ Request(t, "status", cookie').tab = t
        /\ Request(t, "status", cookie').kind = "status"
    BY <1>3, <1>a, <1>s DEF ApplyRenewal
  <2>2. C \in SUBSET Call /\ SetState(t, phase[t], C)
    BY <1>3, <1>c, <2>1 DEF ApplyRenewal
  <2>3. u # t => UNCHANGED <<key[u], codes[u]>>
    BY <1>3, <1>c DEF ApplyRenewal, TypeOK
  <2>4. \E d \in C : d.tab = t /\ d.kind = "status"
    BY <2>1
  <2>5. \A d \in calls : d.tab # t => d \in C
    BY <1>o
  <2> HIDE DEF C
  <2> QED BY <1>c, <2>2, <2>3, <2>4, <2>5, StateSettles
<1>4. CASE ApplyRefusal(c) \/ LoseOperation(c)
  <2>1. PICK jar \in Cookie :
          /\ HasRoom(t, "status")
          /\ calls' = Rest(c) \cup {Request(t, "status", jar)}
    BY <1>4, <1>a, <1>c DEF ApplyRefusal, LoseOperation
  <2>2. UNCHANGED <<key, phase, codes, locking>>
    BY <1>4 DEF ApplyRefusal, LoseOperation, tabs
  <2>3. \E d \in calls' : d.tab = t /\ d.kind = "status"
    BY <2>1, <1>s
  <2>4. CASE u = t
    BY <2>2, <2>3, <2>4 DEF Settled, Mounted, Pending
  <2>5. CASE u # t
    <3>1. \A d \in calls : d.tab = u => d \in calls'
      BY <1>o, <2>1, <2>5
    <3> QED BY <2>2, <3>1, SettledStays
  <2> QED BY <2>4, <2>5
<1>5. CASE ApplyHeartbeat(c)
  <2>1. Keeps(Rest(c))
    BY <1>5, RestKeeps DEF ApplyHeartbeat
  <2>2. CASE TriggerLock(t, Rest(c), cookie')
    BY <1>5, <1>a, <1>c, <2>1, <2>2, TriggerSettles DEF ApplyHeartbeat
  <2>3. CASE calls' = Rest(c) /\ UNCHANGED tabs
    BY <2>1, <2>3, QuietStep DEF tabs
  <2> QED BY <1>5, <2>2, <2>3 DEF ApplyHeartbeat
<1>6. CASE ApplyTouch(c)
  <2>1. Keeps(Rest(c))
    BY <1>6, RestKeeps DEF ApplyTouch
  <2>2. CASE TriggerLock(t, Rest(c), cookie')
    BY <1>6, <1>a, <1>c, <2>1, <2>2, TriggerSettles DEF ApplyTouch
  <2>3. CASE calls' = Rest(c) /\ UNCHANGED tabs
    BY <2>1, <2>3, QuietStep DEF tabs
  <2>4. CASE LockNow(t, Rest(c), cookie') /\ UNCHANGED locking
    BY <1>6, <1>a, <1>c, <2>1, <2>4, LockSettles DEF ApplyTouch
  <2> QED BY <1>6, <2>2, <2>3, <2>4 DEF ApplyTouch
<1>7. CASE ApplyIgnored(c) \/ LoseSilently(c)
  <2>1. Keeps(Rest(c))
    BY <1>7, RestKeeps DEF ApplyIgnored, LoseSilently
  <2> QED BY <1>7, <2>1, QuietStep DEF ApplyIgnored, LoseSilently, tabs
<1>8. CASE LoseStatus(c)
  <2>1. SetState(t, "unavailable", Rest(c)) /\ UNCHANGED <<key, codes>>
    BY <1>8 DEF LoseStatus
  <2> QED BY <1>c, <1>o, <2>1, StateSettles
<1> QED
  BY <1>1, <1>2, <1>3, <1>4, <1>5, <1>6, <1>7, <1>8 DEF Apply, Lose

LEMMA AlwaysSettled == Spec => [](\A t \in Tab : Settled(t))
<1>1. Init => \A t \in Tab : Settled(t)
  BY DEF Init, Settled, Mounted
<1>2. TypeOK /\ (\A t \in Tab : Settled(t)) /\ [Next]_vars
        => (\A t \in Tab : Settled(t))'
  <2> SUFFICES ASSUME TypeOK, \A t \in Tab : Settled(t), [Next]_vars,
                      NEW u \in Tab
               PROVE  Settled(u)'
    OBVIOUS
  <2>q. ASSUME UNCHANGED <<key, phase, codes, locking, calls>>
        PROVE  Settled(u)'
    BY <2>q DEF Settled, Mounted, Pending
  <2>1. CASE Elapse
    BY <2>1, <2>q DEF Elapse
  <2>2. ASSUME NEW t \in Tab, TabStep(t) PROVE Settled(u)'
    BY <2>2, TabSettles
  <2>3. ASSUME NEW c \in calls, CallStep(c) PROVE Settled(u)'
    BY <2>3, AnswerSettles, ApplySettles DEF CallStep
  <2>4. ASSUME NEW s \in live, Expire(s) PROVE Settled(u)'
    BY <2>4, <2>q DEF Expire, tabs
  <2>5. CASE UNCHANGED vars
    BY <2>5, <2>q DEF vars, tabs
  <2> QED BY <2>1, <2>2, <2>3, <2>4, <2>5 DEF Next
<1> QED BY <1>1, <1>2, TabTypesKept, PTL DEF Spec

(* A mounted hook with lockingRef set has no key left to protect, so its   *)
(* early return loses no lock.                                             *)
THEOREM LockingIsOver == Spec => []LockingMeansGone
<1>1. (\A t \in Tab : Settled(t)) => LockingMeansGone
  BY SettledAll
<1> QED BY <1>1, AlwaysSettled, PTL

(* Every screen without the key it needs waits for what replaces it.       *)
THEOREM ScreensFollowKeys == Spec => []ScreenFollowsKey
<1>1. (\A t \in Tab : Settled(t)) => ScreenFollowsKey
  BY SettledAll
<1> QED BY <1>1, AlwaysSettled, PTL

=============================================================================
