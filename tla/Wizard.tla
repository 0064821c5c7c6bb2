------------------------------- MODULE Wizard -------------------------------
(***************************************************************************)
(* The screens of one tab: which route it is on, the phase and the wizard  *)
(* of apps/web/src/vault/VaultProvider.tsx, the guards that send it from   *)
(* one route to another (routes/guards.ts) and the recovery session that   *)
(* outlives a screen (vault/recovery-session.ts).                          *)
(*                                                                         *)
(* An operation of the provider sends a request, writes the answer into    *)
(* the phase, the wizard and the key, and mostly asks for the status once  *)
(* more.  Nothing cancels one whose screen is gone, so that operations     *)
(* overlap, with one another and with locks, which come at any time.       *)
(* What the server makes of them is the business of KeyPage: it knows here *)
(* whether there is a vault and whether the browser has a session.         *)
(***************************************************************************)
EXTENDS Naturals, FiniteSets

CONSTANTS
  Slot,       \* bound: operations under way at a time
  Operations, \* what the user of this instance does
  Quiet       \* a slot without an operation

ASSUME SlotAssumption ==
  IsFiniteSet(Slot) /\ Slot # {} /\ {"screen", "elsewhere"} \cap Slot = {}
ASSUME OperationsAssumption ==
  Operations \subseteq {"setup", "login", "claim", "reset", "change",
                        "regenerate", "cancel", "refresh", "lock", "back"}

Route == {"/", "/settings", "/recovery-codes", "/setup", "/unlock", "/recover"}
Phase == {"loading", "unavailable", "setup_required", "locked", "working",
          "unlocked"}

NoWizard == [kind |-> "none"]
Setup(step) == [kind |-> "setup", step |-> step]
Recovery(step) == [kind |-> "recovery", step |-> step]
Codes(reason) == [kind |-> "codes", reason |-> reason]
Reason == {"setup", "recovery", "password_change", "regen"}
WizardState ==
  {NoWizard, Setup(1), Setup(3), Recovery(1), Recovery(2)}
    \cup {Codes(r) : r \in Reason}

(* A "status" is what every operation may end with; "mint" says that it    *)
(* ends one that issues codes.  "stale" is a reset whose epoch is over.    *)
Call ==
  [op: {"status", "setup", "login", "claim", "reset", "change", "regenerate",
        "cancel"},
   at: {"sent", "ok", "failed"}, says: {"setup", "locked", "live"},
   stale: BOOLEAN, mint: BOOLEAN]

ASSUME QuietAssumption == Quiet \notin Call

Card == {"change", "regenerate"}

VARIABLES
  route,
  phase,   \* state.phase
  wizard,
  key,     \* is there an encryption key in memory?
  held,    \* does the recovery session hold a claim?
  issuing, \* issuingRecoveryCodes
  calls,   \* per slot: an operation under way
  cards,   \* per card of the settings: the operation that keeps it busy
  ready,   \* server: is the vault set up?
  live,    \* server: does the cookie name a live session?
  newest   \* history: where the codes went that the vault has now: to the
           \* answer of a slot, to the screen as the last ones parked, elsewhere

tab == <<phase, wizard, key, held, issuing>>
server == <<ready, live, newest>>
vars == <<route, tab, calls, cards, server>>

TypeOK ==
  /\ route \in Route
  /\ phase \in Phase
  /\ wizard \in WizardState
  /\ {key, held, issuing, ready, live} \subseteq BOOLEAN
  /\ calls \in [Slot -> Call \cup {Quiet}]
  /\ cards \in [Card -> SUBSET Slot]
  /\ newest \in Slot \cup {"screen", "elsewhere"}

-----------------------------------------------------------------------------
(* Routes                                                                  *)

Parked == wizard.kind = "codes"

Render == [kind |-> "render"]
Wait == [kind |-> "wait"]
To(r) == [kind |-> "redirect", to |-> r]

LockedGuard ==
  CASE phase \in {"locked", "working"} /\ wizard.kind = "none" -> Render
    [] wizard.kind = "setup" -> To("/setup")
    [] wizard.kind = "recovery" -> To("/recover")
    [] phase = "unlocked" -> To("/")
    [] OTHER -> To("/setup")

UnlockedGuard ==
  CASE phase = "unlocked" /\ wizard.kind = "none" -> Render
    [] wizard.kind = "setup" -> To("/setup")
    [] wizard.kind = "recovery" -> To("/recover")
    [] phase = "setup_required" -> To("/setup")
    [] OTHER -> To("/unlock")

CodesGuard ==
  CASE wizard = Setup(3) -> To("/setup")
    [] phase = "unlocked" -> To("/settings")
    [] OTHER -> To("/unlock")

SetupGuard ==
  CASE phase = "setup_required" \/ wizard.kind = "setup" -> Render
    [] phase = "unlocked" /\ wizard.kind = "none" -> To("/")
    [] OTHER -> To("/unlock")

RecoveryGuard ==
  CASE phase = "locked" \/ wizard.kind = "recovery" -> Render
    [] phase = "unlocked" /\ wizard.kind = "none" -> To("/")
    [] OTHER -> To("/setup")

ResolveGuard(r) ==
  CASE Parked -> IF r = "/recovery-codes" THEN Render ELSE To("/recovery-codes")
    [] ~Parked /\ phase \in {"loading", "unavailable"} -> Wait
    [] OTHER ->
         CASE r = "/recovery-codes" -> CodesGuard
           [] r \in {"/", "/settings"} -> UnlockedGuard
           [] r = "/setup" -> SetupGuard
           [] r = "/recover" -> RecoveryGuard
           [] r = "/unlock" -> LockedGuard

Shown(r) == route = r /\ ResolveGuard(r) = Render
Settled(r) == ResolveGuard(r).kind # "redirect"

(* Navigate of Guarded.                                                    *)
Redirect ==
  /\ ~Settled(route)
  /\ route' = ResolveGuard(route).to
  /\ UNCHANGED <<tab, calls, server>>

(* Links between screens, and the browser's own back and forward.          *)
Navigate(r) ==
  /\ \/ Shown("/") /\ r = "/settings"
     \/ Shown("/settings") /\ r = "/"
     \/ "back" \in Operations /\ Settled(route) /\ route # r
  /\ route' = r
  /\ UNCHANGED <<tab, calls, server>>

-----------------------------------------------------------------------------
(* The recovery session                                                    *)

Busy(op) == {s \in Slot : calls[s] # Quiet /\ calls[s].op = op}

(* start and clear move the epoch: resets under way lose their claim.      *)
EpochMoves(C) ==
  [s \in Slot |-> IF s \in Busy("reset") THEN [C[s] EXCEPT !.stale = TRUE]
                                         ELSE C[s]]

(* Fault: a lock clears every wizard.                                      *)
WizardReset(w) == NoWizard

RecoveryWizardAfterKeyCleared(w) ==
  IF w.kind = "recovery" THEN NoWizard ELSE w

-----------------------------------------------------------------------------
(* Operations                                                              *)

NewCall(op, mint) ==
  [op |-> op, at |-> "sent", says |-> "locked", stale |-> FALSE, mint |-> mint]

Status(mint) == NewCall("status", mint)

Idle(s) == calls[s] = Quiet

(* An operation that shows its progress instead of the screen's form.      *)
Work(s, op) ==
  /\ op \in Operations
  /\ Idle(s)
  /\ phase # "working"
  /\ phase' = "working"
  /\ UNCHANGED <<route, key, server>>

SubmitSetup(s) ==
  /\ Shown("/setup")
  /\ wizard # Setup(3)
  /\ Work(s, "setup")
  /\ issuing' = TRUE
  /\ calls' = [calls EXCEPT ![s] = NewCall("setup", TRUE)]
  /\ UNCHANGED <<wizard, held>>

Unlock(s) ==
  /\ Shown("/unlock")
  /\ phase = "locked"
  /\ Work(s, "login")
  /\ calls' = [calls EXCEPT ![s] = NewCall("login", FALSE)]
  /\ UNCHANGED <<wizard, held, issuing>>

CodeStep == Shown("/recover") /\ wizard # Recovery(2)
PasswordStep == Shown("/recover") /\ wizard = Recovery(2)

ClaimRecoveryCode(s) ==
  /\ CodeStep
  /\ Work(s, "claim")
  /\ held' = FALSE
  /\ calls' = [EpochMoves(calls) EXCEPT ![s] = NewCall("claim", FALSE)]
  /\ UNCHANGED <<wizard, issuing>>

(* beginComplete takes the claim out of the session.                       *)
CompleteRecovery(s) ==
  /\ PasswordStep
  /\ held
  /\ Work(s, "reset")
  /\ held' = FALSE
  /\ issuing' = TRUE
  /\ calls' = [calls EXCEPT ![s] = NewCall("reset", TRUE)]
  /\ UNCHANGED wizard

(* Its progress label, at any time before the request is served.           *)
ShowProgress ==
  /\ \E s \in Busy("reset") : calls[s].at = "sent"
  /\ phase' = "working"
  /\ UNCHANGED <<route, wizard, key, held, issuing, calls, server>>

(* The cards of the settings, each busy until its operation is over.       *)
ChangeOrRegenerate(s, op) ==
  /\ op \in Operations
  /\ Shown("/settings")
  /\ cards[op] = {}
  /\ Idle(s)
  /\ issuing' = TRUE
  /\ calls' = [calls EXCEPT ![s] = NewCall(op, TRUE)]
  /\ UNCHANGED <<route, phase, wizard, key, held, server>>

(* With the settings goes what their cards knew; the operations go on, and *)
(* the next cards are not busy with them (useRekeyBusy).                   *)
KeepCards ==
  LET Waits(op, s) == s \in cards[op] \/ (Idle(s) /\ calls'[s].op = op)
  IN  cards' = [op \in Card |->
        IF Shown("/settings")' THEN {s \in Slot : calls'[s] # Quiet /\ Waits(op, s)}
                               ELSE {}]

(* Cancel, and "Back to unlock", a link that also works while the form     *)
(* does not.                                                               *)
CancelRecovery(s) ==
  /\ "cancel" \in Operations
  /\ Idle(s)
  /\ \/ CodeStep /\ route' = "/unlock"
     \/ PasswordStep /\ phase # "working" /\ UNCHANGED route
  /\ \/ /\ held
        /\ phase' = "working"
        /\ calls' = [calls EXCEPT ![s] = NewCall("cancel", FALSE)]
        /\ UNCHANGED wizard
     \/ /\ ~held
        /\ wizard' = NoWizard
        /\ calls' = [calls EXCEPT ![s] = Status(FALSE)]
        /\ UNCHANGED phase
  /\ UNCHANGED <<key, held, issuing, server>>

(* lock, lockLocal, and a lock that a sibling tab broadcast: the key goes  *)
(* with what listens to it, the screen follows with the status.            *)
Lock(s) ==
  /\ "lock" \in Operations
  /\ Idle(s)
  /\ key' = FALSE
  /\ held' = FALSE
  /\ wizard' = RecoveryWizardAfterKeyCleared(wizard)
  /\ calls' = [EpochMoves(calls) EXCEPT ![s] = Status(FALSE)]
  /\ UNCHANGED <<route, phase, issuing, server>>

(* A lockout counted down to its end, or the session timeout was saved.    *)
RefreshStatus(s) ==
  /\ "refresh" \in Operations
  /\ \/ phase = "locked" /\ (Shown("/unlock") \/ CodeStep)
     \/ Shown("/settings")
  /\ Idle(s)
  /\ calls' = [calls EXCEPT ![s] = Status(FALSE)]
  /\ UNCHANGED <<route, tab, server>>

-----------------------------------------------------------------------------
(* Steps of the wizard that ask nobody                                     *)

(* The effects of SetupScreen and of RecoverScreen.                        *)
StartSetup ==
  /\ Shown("/setup")
  /\ phase = "setup_required" /\ wizard = NoWizard
  /\ wizard' = Setup(1)
  /\ UNCHANGED <<route, phase, key, held, issuing, calls, server>>

StartRecovery ==
  /\ wizard = NoWizard
  /\ \/ Shown("/recover") /\ phase = "locked"
     \/ "claim" \in Operations /\ Shown("/unlock")
  /\ wizard' = Recovery(1)
  /\ route' = "/recover"
  /\ UNCHANGED <<phase, key, held, issuing, calls, server>>

(* Fault: the wizard of the first set-up goes to the step that the codes   *)
(* stood for.                                                              *)
AfterCodesAgain(reason) == IF reason = "setup" THEN Setup(2) ELSE NoWizard

AfterCodes(reason) == IF reason = "setup" THEN Setup(3) ELSE NoWizard

AcknowledgeRecoveryCodes ==
  /\ Parked
  /\ Shown("/recovery-codes")
  /\ wizard' = AfterCodes(wizard.reason)
  /\ route' = CASE wizard.reason = "setup" -> "/setup"
                [] wizard.reason = "recovery" -> "/"
                [] OTHER -> "/settings"
  /\ UNCHANGED <<phase, key, held, issuing, calls, server>>

FinishWizard ==
  /\ Shown("/setup")
  /\ wizard = Setup(3)
  /\ wizard' = NoWizard
  /\ route' = "/"
  /\ UNCHANGED <<phase, key, held, issuing, calls, server>>

-----------------------------------------------------------------------------
(* Answers                                                                 *)

Fail(s) ==
  /\ calls' = [calls EXCEPT ![s].at = "failed"]

(* Codes that are issued replace those that the vault had.                 *)
Responds(s) ==
  \/ Fail(s) /\ newest' = IF calls[s].mint THEN "elsewhere" ELSE newest
  \/ /\ calls' = [calls EXCEPT ![s].at = "ok"]
     /\ newest' = IF calls[s].mint THEN s ELSE newest

(* The server does what is asked, refuses, or does it and is not heard.    *)
Serve(s) ==
  /\ ~Idle(s)
  /\ calls[s].at = "sent"
  /\ \/ /\ calls[s].op = "status"
        /\ calls' = [calls EXCEPT ![s].at = "ok",
                       ![s].says = IF ~ready THEN "setup"
                                   ELSE IF live THEN "live" ELSE "locked"]
        /\ UNCHANGED server
     \/ /\ calls[s].op = "setup" /\ ~ready
        /\ ready' = TRUE /\ live' = TRUE
        /\ Responds(s)
     \/ /\ calls[s].op # "status" /\ calls[s].op # "setup" /\ ready
        /\ live' = (live \/ calls[s].op \in {"login", "reset", "change"})
        /\ Responds(s)
        /\ UNCHANGED ready
     \/ Fail(s) /\ UNCHANGED server
  /\ UNCHANGED <<route, tab>>

Ends(s) == calls' = [calls EXCEPT ![s] = Quiet]
AsksAgain(s, C) == calls' = [C EXCEPT ![s] = Status(calls[s].mint)]

Answered(s, op) == ~Idle(s) /\ calls[s].op = op /\ calls[s].at = "ok"

(* Whatever was parked before is overwritten.                              *)
ParkRecoveryCodes(s, reason) ==
  /\ wizard' = Codes(reason)
  /\ newest' = CASE newest = s -> "screen"
                 [] newest = "screen" -> "elsewhere"
                 [] OTHER -> newest
  /\ UNCHANGED <<ready, live>>

(* applyStatus, and the finally of an operation that issued codes.         *)
StatusAnswered(s) ==
  /\ Answered(s, "status")
  /\ phase' = CASE calls[s].says = "setup" -> "setup_required"
                [] calls[s].says = "live" /\ key -> "unlocked"
                [] OTHER -> "locked"
  /\ issuing' = (issuing /\ ~calls[s].mint)
  /\ Ends(s)
  /\ UNCHANGED <<route, wizard, key, held, server>>

StatusFailed(s) ==
  /\ ~Idle(s) /\ calls[s].op = "status" /\ calls[s].at = "failed"
  /\ phase' = "unavailable"
  /\ issuing' = (issuing /\ ~calls[s].mint)
  /\ Ends(s)
  /\ UNCHANGED <<route, wizard, key, held, server>>

SetupAnswered(s) ==
  /\ Answered(s, "setup")
  /\ key' = TRUE
  /\ ParkRecoveryCodes(s, "setup")
  /\ phase' = "unlocked"
  /\ issuing' = FALSE
  /\ Ends(s)
  /\ UNCHANGED <<route, held>>

LoginAnswered(s) ==
  /\ Answered(s, "login")
  /\ key' = TRUE
  /\ phase' = "unlocked"
  /\ Ends(s)
  /\ UNCHANGED <<route, wizard, held, issuing, server>>

(* Fault: the claim does not ask for the status again.                     *)
ClaimAnsweredOnce(s) ==
  /\ Answered(s, "claim")
  /\ held' = TRUE
  /\ wizard' = Recovery(2)
  /\ calls' = [EpochMoves(calls) EXCEPT ![s] = Quiet]
  /\ UNCHANGED <<route, phase, key, issuing, server>>

ClaimAnswered(s) ==
  /\ Answered(s, "claim")
  /\ held' = TRUE
  /\ wizard' = Recovery(2)
  /\ AsksAgain(s, EpochMoves(calls))
  /\ UNCHANGED <<route, phase, key, issuing, server>>

(* succeeded: the epoch is still the one that the reset started in.        *)
Succeeded(s) == ~calls[s].stale

ResetAnswered(s) ==
  /\ Answered(s, "reset")
  /\ ParkRecoveryCodes(s, "recovery")
  /\ \/ /\ Succeeded(s)
        /\ key' = TRUE
        /\ phase' = "unlocked"
        /\ issuing' = FALSE
        /\ Ends(s)
        /\ UNCHANGED held
     \/ /\ ~Succeeded(s)
        /\ key' = FALSE
        /\ held' = FALSE
        /\ AsksAgain(s, EpochMoves(calls))
        /\ UNCHANGED <<phase, issuing>>
  /\ UNCHANGED route

ChangeAnswered(s) ==
  /\ Answered(s, "change")
  /\ key' = TRUE
  /\ ParkRecoveryCodes(s, "password_change")
  /\ AsksAgain(s, calls)
  /\ UNCHANGED <<route, phase, held, issuing>>

RegenerateAnswered(s) ==
  /\ Answered(s, "regenerate")
  /\ ParkRecoveryCodes(s, "regen")
  /\ AsksAgain(s, calls)
  /\ UNCHANGED <<route, phase, key, held, issuing>>

CancelAnswered(s) ==
  /\ Answered(s, "cancel")
  /\ held' = FALSE
  /\ wizard' = NoWizard
  /\ AsksAgain(s, EpochMoves(calls))
  /\ UNCHANGED <<route, phase, key, issuing, server>>

(* Fault: the claim of a failed reset is gone.                             *)
RestoreNothing(s) == held

(* failed: the claim comes back unless the epoch moved.                    *)
Restored(s) == held \/ (calls[s].op = "reset" /\ Succeeded(s))

OperationFailed(s) ==
  /\ ~Idle(s) /\ calls[s].op # "status" /\ calls[s].at = "failed"
  /\ held' = Restored(s)
  /\ AsksAgain(s, calls)
  /\ UNCHANGED <<route, phase, wizard, key, issuing, server>>

Deliver(s) ==
  \/ StatusAnswered(s) \/ StatusFailed(s)
  \/ SetupAnswered(s) \/ LoginAnswered(s)
  \/ ClaimAnswered(s) \/ ResetAnswered(s)
  \/ ChangeAnswered(s) \/ RegenerateAnswered(s)
  \/ CancelAnswered(s) \/ OperationFailed(s)

-----------------------------------------------------------------------------
(* The provider asks for the status.                                       *)
Mounting ==
  LET first == CHOOSE s \in Slot : TRUE
  IN  [s \in Slot |-> IF s = first THEN Status(FALSE) ELSE Quiet]

(* A new page; what the old one had sent is the server's to finish.        *)
Reload(r) ==
  /\ route' = r
  /\ phase' = "loading"
  /\ wizard' = NoWizard
  /\ key' = FALSE /\ held' = FALSE /\ issuing' = FALSE
  /\ calls' = Mounting
  /\ newest' = "elsewhere"
  /\ UNCHANGED <<ready, live>>

(* Another browser sets the vault up or issues codes, a sibling tab logs   *)
(* in, or the session ends.                                                *)
Elsewhere ==
  /\ \/ ready' = TRUE /\ UNCHANGED <<live, newest>>
     \/ ready /\ newest' = "elsewhere" /\ UNCHANGED <<ready, live>>
     \/ ready /\ live' \in BOOLEAN /\ UNCHANGED <<ready, newest>>
  /\ UNCHANGED <<route, tab, calls>>

Init ==
  /\ route \in Route
  /\ phase = "loading" /\ wizard = NoWizard
  /\ key = FALSE /\ held = FALSE /\ issuing = FALSE
  /\ calls = Mounting
  /\ cards = [op \in Card |-> {}]
  /\ newest = "elsewhere"
  /\ ready \in BOOLEAN
  /\ live \in IF ready THEN BOOLEAN ELSE {FALSE}

Step ==
  \/ Redirect
  \/ \E r \in Route : Navigate(r) \/ Reload(r)
  \/ \E s \in Slot :
       \/ SubmitSetup(s) \/ Unlock(s)
       \/ ClaimRecoveryCode(s) \/ CompleteRecovery(s) \/ CancelRecovery(s)
       \/ \E op \in Card : ChangeOrRegenerate(s, op)
       \/ Lock(s) \/ RefreshStatus(s)
       \/ Serve(s) \/ Deliver(s)
  \/ ShowProgress
  \/ StartSetup \/ StartRecovery
  \/ AcknowledgeRecoveryCodes \/ FinishWizard
  \/ Elsewhere

Next == Step /\ KeepCards

(* Requests end, with an answer or without one, and React renders.         *)
Fairness ==
  /\ \A s \in Slot : WF_calls(Serve(s)) /\ WF_calls(Deliver(s))
  /\ WF_route(Redirect)

Spec == Init /\ [][Next]_vars /\ Fairness

-----------------------------------------------------------------------------
(* Properties                                                              *)

Follow(r) == IF Settled(r) THEN r ELSE ResolveGuard(r).to
Lands(r) == Follow(Follow(Follow(r)))

(* The guards send a tab from anywhere to a screen and never in a circle;  *)
(* to the codes, while there are any.                                      *)
RoutesSettle ==
  \A r \in Route :
    /\ Settled(Lands(r))
    /\ Parked => Lands(r) = "/recovery-codes"

(* The form for a new password has a claim behind it, or stands aside for  *)
(* the reset that has taken it: through locks, failures and later claims.  *)
StepTwoHasClaim ==
  wizard = Recovery(2) => held \/ \E s \in Busy("reset") : Succeeded(s)

(* No screen is a dead end: redirects come to rest on a screen             *)
(* (resolveGuard), and the last step of a recovery can be completed        *)
(* (beginComplete finds a claim whenever the screen asks for a password).  *)
NoDeadEnd == RoutesSettle /\ StepTwoHasClaim

OnScreen == Parked /\ newest = "screen"

(* A later request replaces the codes at the server: the screen keeps what *)
(* it shows.                                                               *)
ReplacedAtServer == wizard' = wizard /\ (Elsewhere \/ \E s \in Slot : Serve(s))

(* An operation that was served before the codes on the screen were made   *)
(* is answered after them.                                                 *)
Overtaken(s) ==
  /\ newest # s
  /\ SetupAnswered(s) \/ ResetAnswered(s) \/ ChangeAnswered(s) \/ RegenerateAnswered(s)

(* The codes that the vault has, once parked (parkRecoveryCodes), stay on  *)
(* the screen through locks, navigation, failures and new operations.  The *)
(* user's acknowledgement takes them away, and a reload; and, without a    *)
(* word to the user, the late answer to an older operation: a claim or a   *)
(* cancellation, which set the wizard, or one that issued codes, which are *)
(* void by now and take the place of the valid ones.                       *)
CodesStay ==
  [][OnScreen =>
       \/ OnScreen' \/ ReplacedAtServer
       \/ AcknowledgeRecoveryCodes
       \/ \E r \in Route : Reload(r)
       \/ \E s \in Slot : ClaimAnswered(s) \/ CancelAnswered(s) \/ Overtaken(s)]_vars

(* What CONTEXT.md says of the parked codes: "every route redirects to the *)
(* dedicated `/recovery-codes` screen until the user acknowledges them, so *)
(* a lock, a back navigation, or a remount cannot drop the only copy".     *)
(* Late answers refute it (README.md).                                     *)
CodesUntilAcknowledged ==
  [][OnScreen =>
       \/ OnScreen' \/ ReplacedAtServer
       \/ AcknowledgeRecoveryCodes
       \/ \E r \in Route : Reload(r)]_vars

(* A tab does not stay at work: whatever fails, and whatever locks it      *)
(* meanwhile, the phase that replaced the screen's form gives way, in the  *)
(* end by the status that every path of every operation asks for.          *)
WorkingEnds == phase = "working" ~> phase # "working"
=============================================================================
