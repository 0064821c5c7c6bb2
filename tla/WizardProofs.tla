---------------------------- MODULE WizardProofs ----------------------------
(***************************************************************************)
(* Theorems about Wizard, for every number of operations under way at a    *)
(* time and every choice of what the user does: the types, that no screen  *)
(* is a dead end, and that fresh recovery codes stay until they are        *)
(* acknowledged.                                                           *)
(***************************************************************************)
EXTENDS Wizard, TLAPS

-----------------------------------------------------------------------------
(* Calls                                                                   *)

LEMMA NewCallType ==
  ASSUME NEW op \in {"status", "setup", "login", "claim", "reset", "change",
                     "regenerate", "cancel"},
         NEW mint \in BOOLEAN
  PROVE  NewCall(op, mint) \in Call
  BY DEF NewCall, Call

LEMMA StatusType ==
  ASSUME NEW mint \in BOOLEAN
  PROVE  Status(mint) \in Call
  BY NewCallType DEF Status

LEMMA EpochType ==
  ASSUME NEW C \in [Slot -> Call \cup {Quiet}],
         \A s \in Busy("reset") : C[s] \in Call
  PROVE  EpochMoves(C) \in [Slot -> Call \cup {Quiet}]
  <1>1. ASSUME NEW s \in Busy("reset")
        PROVE  [C[s] EXCEPT !.stale = TRUE] \in Call
    BY <1>1 DEF Call
  <1> QED
    BY <1>1 DEF EpochMoves, Busy

LEMMA BusyCalls ==
  ASSUME TypeOK, NEW op
  PROVE  /\ Busy(op) \subseteq Slot
         /\ \A s \in Busy(op) : calls[s] \in Call /\ calls[s].op = op
  BY DEF TypeOK, Busy

LEMMA CallsType ==
  ASSUME TypeOK
  PROVE  /\ calls \in [Slot -> Call \cup {Quiet}]
         /\ EpochMoves(calls) \in [Slot -> Call \cup {Quiet}]
         /\ Status(FALSE) \in Call
         /\ \A s \in Slot : ~Idle(s) => calls[s] \in Call
  BY StatusType, EpochType, BusyCalls DEF TypeOK, Idle

LEMMA AnswersType ==
  ASSUME NEW c \in Call
  PROVE  /\ c.mint \in BOOLEAN /\ c.stale \in BOOLEAN
         /\ Status(c.mint) \in Call
         /\ [c EXCEPT !.at = "ok"] \in Call
         /\ [c EXCEPT !.at = "failed"] \in Call
         /\ \A says \in {"setup", "locked", "live"} :
              [c EXCEPT !.at = "ok", !.says = says] \in Call
  BY StatusType DEF Call

LEMMA MountingType == Mounting \in [Slot -> Call \cup {Quiet}]
  BY StatusType DEF Mounting

LEMMA WizardInit == Init => TypeOK
  BY MountingType DEF Init, TypeOK, Route, Phase, WizardState

LEMMA CardsType ==
  ASSUME KeepCards
  PROVE  cards' \in [Card -> SUBSET Slot]
  BY DEF KeepCards

LEMMA ParkedType ==
  ASSUME TypeOK, NEW s \in Slot, NEW reason \in Reason, ParkRecoveryCodes(s, reason)
  PROVE  /\ wizard' = Codes(reason) /\ wizard' \in WizardState
         /\ newest' \in Slot \cup {"screen", "elsewhere"}
         /\ UNCHANGED <<ready, live>>
  BY DEF ParkRecoveryCodes, WizardState, TypeOK

-----------------------------------------------------------------------------
(* The types                                                               *)

(* The types but for that of the cards, which KeepCards gives.             *)
ProviderType ==
  /\ route \in Route
  /\ phase \in Phase
  /\ wizard \in WizardState
  /\ {key, held, issuing, ready, live} \subseteq BOOLEAN
  /\ calls \in [Slot -> Call \cup {Quiet}]
  /\ newest \in Slot \cup {"screen", "elsewhere"}

LEMMA ProviderStep ==
  ASSUME TypeOK, Step
  PROVE  ProviderType'
  <1> USE DEF ProviderType
  <1>2. CASE Redirect
    <2>1. ResolveGuard(route).to \in Route
      BY <1>2 DEF Redirect, Settled, ResolveGuard, Render, Wait, To, Parked,
         LockedGuard, UnlockedGuard, CodesGuard, SetupGuard, RecoveryGuard,
         TypeOK, Route
    <2> QED
      BY <1>2, <2>1 DEF Redirect, TypeOK, tab, server
  <1>3. ASSUME NEW r \in Route, Navigate(r) \/ Reload(r)
        PROVE  ProviderType'
    BY <1>3, MountingType
    DEF Navigate, Reload, TypeOK, tab, server, Phase, WizardState
  <1>4. CASE \/ ShowProgress \/ StartSetup \/ StartRecovery \/ FinishWizard
             \/ Elsewhere
    BY <1>4
    DEF ShowProgress, StartSetup, StartRecovery, FinishWizard, Elsewhere,
        TypeOK, tab, server, Phase, WizardState, Route
  <1>5. CASE AcknowledgeRecoveryCodes
    BY <1>5
    DEF AcknowledgeRecoveryCodes, AfterCodes, TypeOK, server, WizardState,
        Route
  <1>6. ASSUME NEW s \in Slot,
               \/ SubmitSetup(s) \/ Unlock(s) \/ ClaimRecoveryCode(s)
               \/ CompleteRecovery(s) \/ CancelRecovery(s)
               \/ \E op \in Card : ChangeOrRegenerate(s, op)
               \/ Lock(s) \/ RefreshStatus(s)
        PROVE  ProviderType'
    <2>1. calls' \in [Slot -> Call \cup {Quiet}]
      <3>1. CASE SubmitSetup(s) \/ Unlock(s) \/ CompleteRecovery(s)
        BY <3>1, CallsType, NewCallType
        DEF SubmitSetup, Unlock, CompleteRecovery
      <3>2. CASE ClaimRecoveryCode(s) \/ Lock(s) \/ RefreshStatus(s)
        BY <3>2, CallsType, NewCallType
        DEF ClaimRecoveryCode, Lock, RefreshStatus
      <3>3. CASE CancelRecovery(s)
        BY <3>3, CallsType, NewCallType DEF CancelRecovery
      <3>4. ASSUME NEW op \in Card, ChangeOrRegenerate(s, op)
            PROVE  calls' = [calls EXCEPT ![s] = NewCall(op, TRUE)]
        BY <3>4 DEF ChangeOrRegenerate
      <3> QED
        BY <1>6, <3>1, <3>2, <3>3, <3>4, CallsType, NewCallType DEF Card
    <2>2. route' \in Route /\ phase' \in Phase
      BY <1>6
      DEF SubmitSetup, Unlock, ClaimRecoveryCode, CompleteRecovery, Work,
          CancelRecovery, ChangeOrRegenerate, Lock, RefreshStatus, tab,
          TypeOK, Route, Phase
    <2>3. wizard' \in WizardState
      BY <1>6
      DEF SubmitSetup, Unlock, ClaimRecoveryCode, CompleteRecovery, Work,
          CancelRecovery, ChangeOrRegenerate, Lock, RefreshStatus, tab,
          RecoveryWizardAfterKeyCleared, TypeOK, WizardState
    <2>4. /\ {key', held', issuing', ready', live'} \subseteq BOOLEAN
          /\ newest' \in Slot \cup {"screen", "elsewhere"}
      BY <1>6
      DEF SubmitSetup, Unlock, ClaimRecoveryCode, CompleteRecovery, Work,
          CancelRecovery, ChangeOrRegenerate, Lock, RefreshStatus, tab, server,
          TypeOK
    <2> QED
      BY <2>1, <2>2, <2>3, <2>4 DEF TypeOK
  <1>7. ASSUME NEW s \in Slot, Serve(s)
        PROVE  ProviderType'
    <2>1. /\ ~Idle(s)
          /\ UNCHANGED <<route, tab>>
      BY <1>7 DEF Serve
    <2>2. PICK says \in {"setup", "locked", "live"} :
            \/ calls' = [calls EXCEPT ![s].at = "ok", ![s].says = says]
            \/ calls' = [calls EXCEPT ![s].at = "ok"]
            \/ calls' = [calls EXCEPT ![s].at = "failed"]
      BY <1>7 DEF Serve, Responds, Fail
    <2>3. calls' \in [Slot -> Call \cup {Quiet}]
      <3>1. calls[s] \in Call
        BY <2>1, CallsType
      <3>2. /\ [calls[s] EXCEPT !.at = "ok"] \in Call
            /\ [calls[s] EXCEPT !.at = "failed"] \in Call
            /\ [calls[s] EXCEPT !.at = "ok", !.says = says] \in Call
        BY <3>1, AnswersType
      <3> QED
        BY <2>2, <3>2, CallsType
    <2>4. ready' \in BOOLEAN /\ live' \in BOOLEAN
      BY <1>7 DEF Serve, server, TypeOK
    <2>5. newest' \in Slot \cup {"screen", "elsewhere"}
      BY <1>7 DEF Serve, Responds, server, TypeOK
    <2> QED
      BY <2>1, <2>3, <2>4, <2>5 DEF TypeOK, tab
  <1>8. ASSUME NEW s \in Slot, Deliver(s)
        PROVE  ProviderType'
    <2>1. ~Idle(s)
      BY <1>8
      DEF Deliver, StatusAnswered, StatusFailed, SetupAnswered, LoginAnswered,
          ClaimAnswered, ResetAnswered, ChangeAnswered, RegenerateAnswered,
          CancelAnswered, OperationFailed, Answered
    <2>2. calls[s] \in Call /\ calls[s].mint \in BOOLEAN
          /\ calls[s].stale \in BOOLEAN /\ Status(calls[s].mint) \in Call
      BY <2>1, CallsType, AnswersType
    <2>3. calls' \in [Slot -> Call \cup {Quiet}]
      <3>1. \/ calls' = [calls EXCEPT ![s] = Quiet]
            \/ calls' = [calls EXCEPT ![s] = Status(calls[s].mint)]
            \/ calls' = [EpochMoves(calls) EXCEPT ![s] = Status(calls[s].mint)]
        BY <1>8
        DEF Deliver, StatusAnswered, StatusFailed, SetupAnswered,
            LoginAnswered, ClaimAnswered, ResetAnswered, ChangeAnswered,
            RegenerateAnswered, CancelAnswered, OperationFailed, Ends,
            AsksAgain
      <3> QED
        BY <2>2, <3>1, CallsType
    <2>4. /\ route' \in Route /\ ready' \in BOOLEAN /\ live' \in BOOLEAN
          /\ newest' \in Slot \cup {"screen", "elsewhere"}
      <3>1. CASE \E reason \in Reason : ParkRecoveryCodes(s, reason)
        BY <1>8, <3>1, ParkedType
        DEF Deliver, StatusAnswered, StatusFailed, SetupAnswered, LoginAnswered,
            ClaimAnswered, ResetAnswered, ChangeAnswered, RegenerateAnswered,
            CancelAnswered, OperationFailed, TypeOK
      <3>2. CASE UNCHANGED server
        BY <1>8, <3>2
        DEF Deliver, StatusAnswered, StatusFailed, SetupAnswered, LoginAnswered,
            ClaimAnswered, ResetAnswered, ChangeAnswered, RegenerateAnswered,
            CancelAnswered, OperationFailed, TypeOK, server
      <3>3. (\E reason \in Reason : ParkRecoveryCodes(s, reason)) \/ UNCHANGED server
        BY <1>8
        DEF Deliver, StatusAnswered, StatusFailed, SetupAnswered, LoginAnswered,
            ClaimAnswered, ResetAnswered, ChangeAnswered, RegenerateAnswered,
            CancelAnswered, OperationFailed, Reason
      <3> QED
        BY <3>1, <3>2, <3>3
    <2>5. CASE StatusAnswered(s) \/ StatusFailed(s)
      <3>1. phase' \in Phase
        BY <2>5 DEF StatusAnswered, StatusFailed, Phase
      <3>2. issuing' = (issuing /\ ~calls[s].mint)
        BY <2>5 DEF StatusAnswered, StatusFailed
      <3>3. UNCHANGED <<wizard, key, held>>
        BY <2>5 DEF StatusAnswered, StatusFailed
      <3>4. issuing' \in BOOLEAN
        BY <3>2
      <3> QED
        BY <2>3, <2>4, <3>1, <3>3, <3>4 DEF TypeOK
    <2>6. CASE OperationFailed(s)
      <3>1. held' = Restored(s) /\ UNCHANGED <<phase, wizard, key, issuing>>
        BY <2>6 DEF OperationFailed
      <3>2. held' \in BOOLEAN
        BY <3>1 DEF Restored
      <3> QED
        BY <2>3, <2>4, <3>1, <3>2 DEF TypeOK
    <2>7. CASE \/ SetupAnswered(s) \/ LoginAnswered(s)
               \/ ClaimAnswered(s) \/ ResetAnswered(s)
               \/ ChangeAnswered(s) \/ RegenerateAnswered(s)
               \/ CancelAnswered(s)
      <3>1. phase' \in Phase /\ wizard' \in WizardState
        BY <2>7, ParkedType
        DEF SetupAnswered, LoginAnswered, ClaimAnswered, ResetAnswered,
            ChangeAnswered, RegenerateAnswered, CancelAnswered, TypeOK, Phase,
            WizardState, Reason
      <3>2. {key', held', issuing'} \subseteq BOOLEAN
        BY <2>7
        DEF SetupAnswered, LoginAnswered, ClaimAnswered, ResetAnswered,
            ChangeAnswered, RegenerateAnswered, CancelAnswered, TypeOK
      <3> QED
        BY <2>3, <2>4, <3>1, <3>2 DEF TypeOK
    <2> QED
      BY <1>8, <2>5, <2>6, <2>7 DEF Deliver
  <1> QED
    BY <1>2, <1>3, <1>4, <1>5, <1>6, <1>7, <1>8 DEF Step

LEMMA TypeStep ==
  ASSUME TypeOK, [Next]_vars
  PROVE  TypeOK'
  <1>1. CASE UNCHANGED vars
    BY <1>1 DEF vars, tab, server, TypeOK
  <1>2. CASE Next
    BY <1>2, ProviderStep, CardsType DEF Next, ProviderType, TypeOK
  <1> QED
    BY <1>1, <1>2


(* The provider's state stays of its kind, however operations overlap.     *)
THEOREM WizardTypesKept == Spec => []TypeOK
  <1>1. TypeOK /\ [Next]_vars => TypeOK'
    BY TypeStep
  <1> QED
    BY <1>1, WizardInit, PTL DEF Spec

-----------------------------------------------------------------------------
(* No dead end                                                             *)

LEMMA KindsOf ==
  ASSUME TypeOK
  PROVE  /\ wizard.kind \in {"none", "setup", "recovery", "codes"}
         /\ wizard = Setup(3) => wizard.kind = "setup"
  BY DEF TypeOK, WizardState, NoWizard, Setup, Recovery, Codes

LEMMA Settling ==
  ASSUME TypeOK
  PROVE  RoutesSettle
  <1> SUFFICES ASSUME NEW r \in Route
               PROVE  /\ Settled(Lands(r))
                      /\ Parked => Lands(r) = "/recovery-codes"
    BY DEF RoutesSettle
  <1>1. CASE Parked
    <2>1. \A q : ResolveGuard(q) = IF q = "/recovery-codes"
                                  THEN Render ELSE To("/recovery-codes")
      BY <1>1 DEF ResolveGuard
    <2>2. Settled("/recovery-codes")
      BY <2>1 DEF Settled, Render
    <2>3. Follow(r) = "/recovery-codes"
      <3>1. CASE r = "/recovery-codes"
        BY <2>2, <3>1 DEF Follow
      <3>2. CASE r # "/recovery-codes"
        BY <2>1, <3>2 DEF Follow, Settled, To
      <3> QED
        BY <3>1, <3>2
    <2>4. Lands(r) = "/recovery-codes"
      BY <2>2, <2>3 DEF Lands, Follow
    <2> QED
      BY <2>2, <2>4
  <1>2. CASE ~Parked /\ phase \in {"loading", "unavailable"}
    BY <1>2 DEF Lands, Follow, Settled, ResolveGuard, Render, Wait, To, Route
  <1>3. CASE ~Parked /\ phase \notin {"loading", "unavailable"}
    <2>1. /\ wizard.kind \in {"none", "setup", "recovery"}
          /\ wizard = Setup(3) => wizard.kind = "setup"
          /\ phase \in {"setup_required", "locked", "working", "unlocked"}
      BY <1>3, KindsOf DEF Parked, TypeOK, Phase
    <2>2. /\ ResolveGuard("/") = UnlockedGuard
          /\ ResolveGuard("/settings") = UnlockedGuard
          /\ ResolveGuard("/recovery-codes") = CodesGuard
          /\ ResolveGuard("/setup") = SetupGuard
          /\ ResolveGuard("/recover") = RecoveryGuard
          /\ ResolveGuard("/unlock") = LockedGuard
      BY <1>3 DEF ResolveGuard
    <2>3. ~Parked
      BY <1>3
    <2>4. CASE wizard.kind = "setup"
      BY <2>1, <2>2, <2>3, <2>4
      DEF Lands, Follow, Settled, Render, Wait, To, Route, UnlockedGuard,
          CodesGuard, SetupGuard, RecoveryGuard, LockedGuard
    <2>5. CASE wizard.kind = "recovery"
      BY <2>1, <2>2, <2>3, <2>5
      DEF Lands, Follow, Settled, Render, Wait, To, Route, UnlockedGuard,
          CodesGuard, SetupGuard, RecoveryGuard, LockedGuard
    <2>6. CASE wizard.kind = "none"
      BY <2>1, <2>2, <2>3, <2>6
      DEF Lands, Follow, Settled, Render, Wait, To, Route, UnlockedGuard,
          CodesGuard, SetupGuard, RecoveryGuard, LockedGuard
    <2> QED
      BY <2>1, <2>4, <2>5, <2>6
  <1> QED
    BY <1>1, <1>2, <1>3

(* A step that leaves the wizard alone keeps the claim where it was, or    *)
(* brings it back.                                                         *)
LEMMA ClaimKept ==
  ASSUME StepTwoHasClaim, wizard' = wizard, held => held',
         \A s \in Busy("reset") :
           Succeeded(s) => held' \/ (s \in Busy("reset")' /\ Succeeded(s)')
  PROVE  StepTwoHasClaim'
  <1> SUFFICES ASSUME wizard = Recovery(2)
               PROVE  held' \/ \E s \in Busy("reset")' : Succeeded(s)'
    BY DEF StepTwoHasClaim, Recovery
  <1> QED
    BY DEF StepTwoHasClaim

(* A call that is not a reset comes or goes: the resets stay.              *)
LEMMA ResetsKept ==
  ASSUME TypeOK, NEW s \in Slot, NEW c, s \notin Busy("reset"),
         calls' = [calls EXCEPT ![s] = c]
  PROVE  \A r \in Busy("reset") :
           Succeeded(r) => r \in Busy("reset")' /\ Succeeded(r)'
  BY DEF TypeOK, Busy, Succeeded

LEMMA NotStepTwo ==
  /\ NoWizard # Recovery(2)
  /\ \A n : Setup(n) # Recovery(2)
  /\ \A r : Codes(r) # Recovery(2)
  /\ Recovery(1) # Recovery(2)
  BY DEF NoWizard, Setup, Codes, Recovery

LEMMA ClaimStep ==
  ASSUME TypeOK, StepTwoHasClaim, [Next]_vars
  PROVE  StepTwoHasClaim'
  <1>1. CASE UNCHANGED <<wizard, held, calls>>
    BY <1>1, ClaimKept DEF Busy, Succeeded
  <1>2. CASE UNCHANGED vars \/ Redirect \/ Elsewhere \/ ShowProgress
    BY <1>1, <1>2 DEF vars, tab, Redirect, Elsewhere, ShowProgress
  <1>3. ASSUME NEW r \in Route, Navigate(r) \/ Reload(r)
        PROVE  StepTwoHasClaim'
    <2>1. CASE Navigate(r)
      BY <1>1, <2>1 DEF Navigate, tab
    <2>2. CASE Reload(r)
      BY <2>2, NotStepTwo DEF Reload, StepTwoHasClaim
    <2> QED
      BY <1>3, <2>1, <2>2
  <1>4. CASE StartSetup \/ StartRecovery \/ AcknowledgeRecoveryCodes
             \/ FinishWizard
    BY <1>4, NotStepTwo
    DEF StartSetup, StartRecovery, AcknowledgeRecoveryCodes, FinishWizard,
        AfterCodes, StepTwoHasClaim
  <1>5. ASSUME NEW s \in Slot, Idle(s), UNCHANGED <<wizard, held>>,
               NEW c, calls' = [calls EXCEPT ![s] = c]
        PROVE  StepTwoHasClaim'
    <2>1. s \notin Busy("reset")
      BY <1>5 DEF Idle, Busy
    <2> QED
      BY <1>5, <2>1, ResetsKept, ClaimKept
  <1>6. ASSUME NEW s \in Slot,
               SubmitSetup(s) \/ Unlock(s) \/ RefreshStatus(s)
        PROVE  StepTwoHasClaim'
    BY <1>5, <1>6 DEF SubmitSetup, Unlock, RefreshStatus, Work, tab
  <1>7. ASSUME NEW s \in Slot, NEW op \in Card,
               ChangeOrRegenerate(s, op)
        PROVE  StepTwoHasClaim'
    BY <1>5, <1>7 DEF ChangeOrRegenerate
  <1>8. ASSUME NEW s \in Slot, ClaimRecoveryCode(s)
        PROVE  StepTwoHasClaim'
    BY <1>8 DEF ClaimRecoveryCode, CodeStep, StepTwoHasClaim, Recovery
  <1>9. ASSUME NEW s \in Slot, CompleteRecovery(s)
        PROVE  StepTwoHasClaim'
    <2>1. calls'[s] = NewCall("reset", TRUE)
      BY <1>9 DEF CompleteRecovery, TypeOK
    <2>2. NewCall("reset", TRUE) \in Call
      BY NewCallType
    <2>3. calls'[s] # Quiet
      BY <2>1, <2>2, QuietAssumption
    <2>4. calls'[s].op = "reset" /\ calls'[s].stale = FALSE
      BY <2>1 DEF NewCall
    <2> QED
      BY <2>3, <2>4 DEF StepTwoHasClaim, Busy, Succeeded
  <1>10. ASSUME NEW s \in Slot, CancelRecovery(s)
         PROVE  StepTwoHasClaim'
    <2>1. CASE held
      BY <1>10, <2>1 DEF CancelRecovery, StepTwoHasClaim
    <2>2. CASE ~held
      BY <1>10, <2>2, NotStepTwo DEF CancelRecovery, StepTwoHasClaim
    <2> QED
      BY <2>1, <2>2
  <1>11. ASSUME NEW s \in Slot, Lock(s)
         PROVE  StepTwoHasClaim'
    <2>1. wizard' # Recovery(2)
      BY <1>11, NotStepTwo
      DEF Lock, RecoveryWizardAfterKeyCleared, Recovery
    <2> QED
      BY <2>1 DEF StepTwoHasClaim
  <1>12. ASSUME NEW s \in Slot, Serve(s)
         PROVE  StepTwoHasClaim'
    <2>1. UNCHANGED <<wizard, held>> /\ ~Idle(s)
      BY <1>12 DEF Serve, tab
    <2>2. calls[s] \in Call
      BY <2>1, CallsType
    <2>3. PICK says \in {"setup", "locked", "live"} :
            \/ calls' = [calls EXCEPT ![s].at = "ok", ![s].says = says]
            \/ calls' = [calls EXCEPT ![s].at = "ok"]
            \/ calls' = [calls EXCEPT ![s].at = "failed"]
      BY <1>12 DEF Serve, Responds, Fail
    <2>4. /\ calls'[s] \in Call
          /\ calls'[s].op = calls[s].op /\ calls'[s].stale = calls[s].stale
      BY <2>2, <2>3 DEF Call, TypeOK
    <2>5. \A r \in Slot : r # s => calls'[r] = calls[r]
      BY <2>3 DEF TypeOK
    <2>6. \A r \in Busy("reset") :
            Succeeded(r) => r \in Busy("reset")' /\ Succeeded(r)'
      BY <2>4, <2>5, QuietAssumption DEF Busy, Succeeded
    <2> QED
      BY <2>1, <2>6, ClaimKept
  <1>13. ASSUME NEW s \in Slot, NEW op, NEW c, op # "reset",
                calls[s].op = op, UNCHANGED <<wizard, held>>,
                calls' = [calls EXCEPT ![s] = c]
         PROVE  StepTwoHasClaim'
    <2>1. s \notin Busy("reset")
      BY <1>13 DEF Busy
    <2> QED
      BY <1>13, <2>1, ResetsKept, ClaimKept
  <1>14. ASSUME NEW s \in Slot,
                StatusAnswered(s) \/ StatusFailed(s) \/ LoginAnswered(s)
         PROVE  StepTwoHasClaim'
    BY <1>13, <1>14 DEF StatusAnswered, StatusFailed, LoginAnswered, Answered,
       Ends
  <1>15. ASSUME NEW s \in Slot, ClaimAnswered(s)
         PROVE  StepTwoHasClaim'
    BY <1>15 DEF ClaimAnswered, StepTwoHasClaim
  <1>16. ASSUME NEW s \in Slot,
                \/ SetupAnswered(s) \/ ResetAnswered(s)
                \/ ChangeAnswered(s) \/ RegenerateAnswered(s)
                \/ CancelAnswered(s)
         PROVE  StepTwoHasClaim'
    BY <1>16, NotStepTwo
    DEF ParkRecoveryCodes, SetupAnswered, ResetAnswered, ChangeAnswered, RegenerateAnswered,
        CancelAnswered, StepTwoHasClaim
  <1>17. ASSUME NEW s \in Slot, OperationFailed(s)
         PROVE  StepTwoHasClaim'
    <2>1. /\ wizard' = wizard
          /\ held' = (held \/ (calls[s].op = "reset" /\ Succeeded(s)))
          /\ calls' = [calls EXCEPT ![s] = Status(calls[s].mint)]
      BY <1>17 DEF OperationFailed, Restored, AsksAgain
    <2>2. \A r \in Busy("reset") :
            Succeeded(r) => held' \/ (r \in Busy("reset")' /\ Succeeded(r)')
      BY <2>1 DEF Busy, Succeeded, TypeOK
    <2> QED
      BY <2>1, <2>2, ClaimKept
  <1>18. ASSUME NEW s \in Slot, Deliver(s)
         PROVE  StepTwoHasClaim'
    BY <1>14, <1>15, <1>16, <1>17, <1>18 DEF Deliver
  <1>19. CASE Step
    BY <1>2, <1>3, <1>4, <1>6, <1>7, <1>8, <1>9, <1>10, <1>11, <1>12, <1>18,
       <1>19 DEF Step
  <1> QED
    BY <1>2, <1>19 DEF Next

LEMMA ClaimInit == Init => StepTwoHasClaim
  BY NotStepTwo DEF Init, StepTwoHasClaim

(* Redirects always come to rest on a screen, on the codes while there are *)
(* any, and the form for a new password always has a claim, or a reset     *)
(* that has taken it and would give it back.                               *)
THEOREM NeverADeadEnd == Spec => []NoDeadEnd
  <1> DEFINE IInv == TypeOK /\ StepTwoHasClaim
  <1>1. Init => IInv
    BY WizardInit, ClaimInit
  <1>2. IInv /\ [Next]_vars => IInv'
    BY TypeStep, ClaimStep
  <1>3. IInv => NoDeadEnd
    BY Settling DEF NoDeadEnd
  <1> QED
    BY <1>1, <1>2, <1>3, PTL DEF Spec

-----------------------------------------------------------------------------
(* The codes                                                               *)

(* Once parked, the codes that the vault has stay on the screen through    *)
(* locks, navigation, failures and new operations (parkRecoveryCodes).     *)
(* They leave it by acknowledgement, with the page, or for the late answer *)
(* to an older operation: a claim, a cancellation, or one whose own codes  *)
(* are void by now.                                                        *)
THEOREM CodesAreKept == Spec => CodesStay
  <1> DEFINE Leaves ==
        \/ AcknowledgeRecoveryCodes
        \/ \E r \in Route : Reload(r)
        \/ \E s \in Slot : ClaimAnswered(s) \/ CancelAnswered(s) \/ Overtaken(s)
  <1>1. ASSUME OnScreen, Step, ~Leaves
        PROVE  OnScreen' \/ ReplacedAtServer
    <2>1. Parked /\ newest = "screen"
      BY <1>1 DEF OnScreen
    <2>2. \A r : Shown(r) => r = "/recovery-codes"
      BY <2>1 DEF Shown, ResolveGuard, Render, To
    <2>3. wizard # NoWizard /\ wizard # Setup(3)
      BY <2>1 DEF Parked, NoWizard, Setup
    <2>4. \A s \in Slot : newest # s
      BY <2>1, SlotAssumption
    <2>5. ASSUME wizard' = wizard, newest' = newest PROVE OnScreen'
      BY <2>1, <2>5 DEF OnScreen, Parked
    <2>6. CASE Redirect \/ ShowProgress
      BY <2>5, <2>6 DEF Redirect, ShowProgress, tab, server
    <2>7. CASE Elsewhere
      BY <2>7 DEF Elsewhere, ReplacedAtServer, tab
    <2>8. ASSUME NEW r \in Route, Navigate(r)
          PROVE  OnScreen'
      BY <2>5, <2>8 DEF Navigate, tab, server
    <2>9. CASE StartSetup \/ StartRecovery \/ FinishWizard
      BY <2>3, <2>9 DEF StartSetup, StartRecovery, FinishWizard
    <2>10. ASSUME NEW s \in Slot,
                  \/ SubmitSetup(s) \/ Unlock(s) \/ ClaimRecoveryCode(s)
                  \/ CompleteRecovery(s) \/ RefreshStatus(s)
                  \/ \E op \in Card : ChangeOrRegenerate(s, op)
           PROVE  OnScreen'
      BY <2>5, <2>10
      DEF SubmitSetup, Unlock, ClaimRecoveryCode, CompleteRecovery, Work,
          RefreshStatus, ChangeOrRegenerate, tab, server
    <2>11. ASSUME NEW s \in Slot, CancelRecovery(s)
           PROVE  OnScreen'
      BY <2>2, <2>11 DEF CancelRecovery, CodeStep, PasswordStep
    <2>12. ASSUME NEW s \in Slot, Lock(s)
           PROVE  OnScreen'
      <3>1. newest' = newest /\ wizard' = wizard
        BY <2>1, <2>12 DEF Lock, RecoveryWizardAfterKeyCleared, Parked, server
      <3> QED
        BY <2>5, <3>1
    <2>13. ASSUME NEW s \in Slot, Serve(s)
           PROVE  ReplacedAtServer
      BY <2>13 DEF Serve, ReplacedAtServer, tab
    <2>14. ASSUME NEW s \in Slot, Deliver(s)
           PROVE  OnScreen'
      <3>1. ~(\/ SetupAnswered(s) \/ ResetAnswered(s)
              \/ ChangeAnswered(s) \/ RegenerateAnswered(s))
        BY <1>1, <2>4 DEF Overtaken
      <3>2. CASE \/ StatusAnswered(s) \/ StatusFailed(s)
                 \/ LoginAnswered(s) \/ OperationFailed(s)
        BY <2>5, <3>2
        DEF StatusAnswered, StatusFailed, LoginAnswered, OperationFailed, server
      <3> QED
        BY <1>1, <2>14, <3>1, <3>2 DEF Deliver
    <2> QED
      BY <1>1, <2>6, <2>7, <2>8, <2>9, <2>10, <2>11, <2>12, <2>13, <2>14 DEF Step
  <1>2. [Next]_vars => [OnScreen => OnScreen' \/ ReplacedAtServer \/ Leaves]_vars
    BY <1>1 DEF Next
  <1> QED
    BY <1>2, PTL DEF Spec, CodesStay
=============================================================================
