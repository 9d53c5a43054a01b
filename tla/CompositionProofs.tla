-------------------------- MODULE CompositionProofs --------------------------
(* The services together: each runs beside the others as it does alone, so  *)
(* what is proved of one holds of it in their instance.                     *)
EXTENDS MCServices, AccountProofs, SelectionProofs, ServiceProofs, SettingsProofs, RenderingProofs

\* A step of one service is a stutter of every other.
LEMMA StepsImplement ==
  ASSUME [ServicesNext]_<<part, serviceVars>>
  PROVE  /\ [LimiterNext]_limiterVars /\ [LockNext]_lockVars /\ [SelectionNext]_selection
         /\ [ApplyNext]_allVars /\ [ChecksNext]_checkVars /\ [FraudNext]_fraudVars
         /\ [RenderNext]_renderVars /\ [AccountsNext]_accountVars /\ [TermsNext]_termVars
         /\ [AuthNext]_authVars /\ [ConnectionsNext]_connectionVars
BY DEF ServicesNext, serviceVars

\* What the services do together is a behaviour of each of them: what is proved
\* of one holds of it among the others.
LEMMA ServicesImplement ==
  ServicesSpec => /\ LimiterSpec /\ LockSpec /\ SelectionSpec /\ ApplySpec /\ ChecksSpec
                  /\ FraudSpec /\ RenderSpec /\ AccountsSpec /\ TermsSpec /\ AuthSpec
                  /\ ConnectionsSpec
<1>1. ServicesInit => /\ LimiterInit /\ LockInit /\ SelectionInit /\ ApplyInit /\ ChecksInit
                      /\ FraudInit /\ RenderInit /\ AccountsInit /\ TermsInit /\ AuthInit
                      /\ ConnectionsInit
  BY DEF ServicesInit
<1>. QED
  BY <1>1, StepsImplement, PTL DEF ServicesSpec, LimiterSpec, LockSpec, SelectionSpec, ApplySpec,
     ChecksSpec, FraudSpec, RenderSpec, AccountsSpec, TermsSpec, AuthSpec, ConnectionsSpec

\* The type invariant of all services, by those of each, for any accounts,
\* callers, endpoints, settings, leases and requests whose references to keys are
\* to keys of their own.
THEOREM ServicesTypeCorrect == ASSUME OwnRefs PROVE ServicesSpec => []ServicesTypeOK
<1>1. ApplySpec => []ApplyTypeOK
  BY ApplyTypeCorrect
<1>2. /\ LimiterTypeOK /\ LockTypeOK /\ SelectionTypeOK /\ ApplyTypeOK
      /\ ChecksTypeOK /\ FraudTypeOK /\ AccountsTypeOK /\ TermsTypeOK
      /\ AuthTypeOK /\ ConnectionsTypeOK
      => ServicesTypeOK
  BY DEF ServicesTypeOK
<1>. QED
  BY <1>1, <1>2, ServicesImplement, LimiterTypeCorrect, LockTypeCorrect, SelectionTypeCorrect,
     ChecksTypeCorrect, FraudTypeCorrect, AccountsTypeCorrect, TermsTypeCorrect, AuthTypeCorrect,
     ConnectionsTypeCorrect, PTL

\* The services beside each other keep what each of them promises alone, for
\* the same values of the constants: what the run of all of them checks on one
\* instance, but for what is about time to come.
THEOREM ServicesKeepPromises ==
  ASSUME OwnRefs
  PROVE  ServicesSpec => /\ LimiterIsPool /\ []EarlyLossIsByKeyExpiry /\ []OverlapIsReported
                         /\ PickIsGood /\ []EveryAccountTried /\ PassedOverForCause
                         /\ []RulesResolve /\ []ChangedRoutesDisconnected /\ UnnamedKeysKept
                         /\ RefsFollowNodes /\ []PendingIsAsked /\ []SettledIsApplied
                         /\ []ViewIsOfRoute /\ []LookupsAreCurrent
                         /\ []LeavesByOwnProfile /\ OthersKeepRoute /\ LeaseLineExists
                         /\ []ServedByStoredAccount /\ []SlotCoversLease /\ RestoredAsAcquired
                         /\ AnswersRestOnLogin /\ []OldWayExplained
<1>1. ApplySpec => UnnamedKeysKept
  BY OtherKeysKept
<1>. QED
  BY <1>1, ServicesImplement,
     LimiterImplementsPool, EarlyLossExplained, OverlapNeverSilent, ServedAccountKept,
     ChoiceIsGood, RotationLeavesNoneOut, KeysTriedBeforePassing,
     RulesAlwaysResolve, ChangedUsersDisconnected, ReferencesFollow, NoRequestLost, RunningIsApplied,
     ViewsAreOfRoute, KeptLookupsCurrent, SlotsCoverLeases, LeasesComeBack, AnswersRest,
     OldWaysExplained, OwnProfileOnly, OthersUntouched, LeaseLineRendered, PTL
=============================================================================
