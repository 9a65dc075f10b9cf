-------------------------- MODULE CompositionProofs --------------------------
(***************************************************************************)
(* The components of MCCatalogue side by side: each behaves, among the     *)
(* others, as it does alone, so that what is proved of it alone holds of   *)
(* the whole.                                                              *)
(***************************************************************************)
EXTENDS MCCatalogue, CatalogueProofs, EngineProofs, EnvironmentStoreProofs

\* Every step of the whole is a step of each component, or leaves it alone.
LEMMA StepOfEach ==
    ASSUME [CatalogueNext]_allVars
    PROVE  /\ [StoreNext]_storeVars /\ [Next]_vars /\ [ListingNext]_listingVars
           /\ [StreamNext]_streamVars /\ [PolicyNext]_policyVars /\ [ExecNext]_execVars
           /\ [AvailabilityNext]_availabilityVars /\ [MountsNext]_mountVars /\ [ConfigNext]_configVars
BY DEF CatalogueNext, ListsNext, EngineNext, StartNext, allVars, listVars, engineVars

\* The whole implements each component.
LEMMA EachAmongOthers ==
    CatalogueSpec =>
        /\ StoreSpec /\ Spec /\ ListingSpec
        /\ StreamSpec /\ PolicySpec /\ ExecSpec /\ AvailabilitySpec /\ MountsSpec /\ ConfigSpec
<1>1. CatalogueInit =>
        /\ StoreInit /\ Init /\ ListingInit
        /\ StreamInit /\ PolicyInit /\ ExecInit /\ AvailabilityInit /\ MountsInit /\ ConfigInit
  BY DEF CatalogueInit
<1>q. QED
  BY <1>1, StepOfEach, PTL DEF CatalogueSpec, StoreSpec, Spec, ListingSpec, StreamSpec, PolicySpec,
                               ExecSpec, AvailabilitySpec, MountsSpec, ConfigSpec

\* The types of what the whole keeps, which each component's own theorem rests on.
LEMMA TypesOfEach ==
    /\ ExecSpec => []ExecTypeOK
    /\ AvailabilitySpec => []AvailabilityTypeOK
    /\ StreamSpec => []StreamTypeOK
    /\ Spec => []TypeOK
<1>1. ExecInvariant => ExecTypeOK
  BY DEF ExecInvariant
<1>2. AvailabilityInvariant => AvailabilityTypeOK
  BY DEF AvailabilityInvariant
<1>3. OutputInvariant => StreamTypeOK
  BY DEF OutputInvariant
<1>4. ImagesInvariant => TypeOK
  BY DEF ImagesInvariant
<1>5. ExecSpec => []ExecTypeOK
  BY <1>1, ExecInitially, ExecStepKeeps, PTL DEF ExecSpec
<1>6. AvailabilitySpec => []AvailabilityTypeOK
  BY <1>2, AvailabilityInitially, AvailabilityStepKeeps, PTL DEF AvailabilitySpec
<1>7. StreamSpec => []StreamTypeOK
  BY <1>3, OutputInvariantHolds, PTL
<1>8. Spec => []TypeOK
  BY <1>4, ImagesInvariantHolds, PTL
<1>q. QED
  BY <1>5, <1>6, <1>7, <1>8

\* Every variable of the lists and of the calls of the engine has its type, and
\* pipes, channel and attempts keep to their bounds, whichever component moves.
THEOREM CatalogueTypeCorrect == CatalogueSpec => []CatalogueTypeOK
<1>1. TypeOK /\ StreamTypeOK /\ AvailabilityTypeOK /\ ExecTypeOK => CatalogueTypeOK
  BY DEF CatalogueTypeOK
<1>q. QED
  BY <1>1, EachAmongOthers, TypesOfEach, PTL

\* What is proved of each component holds of the whole: of the environments that
\* are saved and read, of the lists, of the engine's output, rules, mounts and
\* answers, and of the settings.
THEOREM CatalogueSound ==
    CatalogueSpec =>
        /\ [](StoreInvariant /\ MetadataFollowsDockerfile /\ ReadersFind /\ AnsweredIsSaved)
        /\ [](ListComplete /\ ListedOnce)
        /\ [](OutputExact /\ PolicyEnforced /\ ExecAnswersAreTrue /\ AnswersAreTrue /\ MountsSound)
        /\ []ConfigurationSound
        /\ StaysLoadable /\ DiscoveredOnlyUnknown /\ OnlyTightens
<1>1. StoreSpec => /\ [](StoreInvariant /\ MetadataFollowsDockerfile /\ ReadersFind /\ AnsweredIsSaved)
                   /\ StaysLoadable
  BY StoreInductive, ReadersFollowSaves, RequestsFind, SuccessIsSaved, LoadableForGood, PTL
<1>2. ListingSpec => [](ListComplete /\ ListedOnce)
  BY ListCompleteHolds, ListedOnceHolds, PTL
<1>3. StreamSpec /\ PolicySpec /\ ExecSpec /\ AvailabilitySpec /\ MountsSpec =>
        [](OutputExact /\ PolicyEnforced /\ ExecAnswersAreTrue /\ AnswersAreTrue /\ MountsSound)
  BY OutputExactHolds, PolicyEnforcedHolds, ExecAnswersAreTrueHolds, AnswersAreTrueHolds, MountsSoundHolds, PTL
<1>q. QED
  BY <1>1, <1>2, <1>3, EachAmongOthers, ConfigurationSoundHolds, DiscoveredOnlyUnknownHolds,
     OnlyTightensHolds, PTL

=============================================================================
