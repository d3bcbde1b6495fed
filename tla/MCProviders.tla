----------------------------- MODULE MCProviders -----------------------------
(* The components that talk to the two providers, checked side by side:     *)
(* they share no state, so a behaviour moves one of them, its part, and     *)
(* leaves the others where they began.                                      *)
EXTENDS AgilSession, CostamarSession, BrowserTabs, AgilSearch, DateSweep,
        BrandedToken, B2bPage, AgilStorage, TempProfiles

CONSTANT ProviderPart     \* the components this instance moves

VARIABLE part

providerVars == <<part, agilVars, costamarVars, tabVars, agilSearchVars,
                  sweepVars, brandedVars, b2bVars, storageVars, tempVars>>

Only(here, values) == IF part = here THEN values ELSE {CHOOSE v \in values : TRUE}

(* What a part's initial state leaves open is fixed in the other parts. *)
ProvidersInit ==
  /\ part \in ProviderPart
  /\ setup \in Only("site page", [credentials : BOOLEAN, secret : BOOLEAN, terminal : BOOLEAN]) /\ B2bInit
  /\ leads \in Only("agil storage", [1..SourceCount -> Browser \union {NobodyThere}])
  /\ profileFiles \in Only("agil storage", [Profile -> ProfileFiles])
  /\ allowed \in Only("agil storage", [scan : BOOLEAN, launch : BOOLEAN])
  /\ StorageInit
  /\ TempInit
  /\ BrandedInit
  /\ part # "branded token" => tokenFile.token = None /\ environment = None
  /\ AgilInit /\ CostamarInit /\ TabInit /\ AgilSearchInit /\ SweepInit
  /\ part # "agil session" =>
       account = (CHOOSE i \in Identity : TRUE) /\ chrome = NoIdentity /\ file = NoIdentity
  /\ part # "costamar session" => known = NoToken /\ ~credentials
  /\ part # "date sweep" => sweep.provider = "agil-local" /\ sweep.mode = "range"

AgilPart ==
  /\ part = "agil session"
  /\ UNCHANGED <<part, costamarVars, tabVars, agilSearchVars, sweepVars,
                 brandedVars, b2bVars, storageVars, tempVars>>
CostamarPart ==
  /\ part = "costamar session"
  /\ UNCHANGED <<part, agilVars, tabVars, agilSearchVars, sweepVars,
                 brandedVars, b2bVars, storageVars, tempVars>>
TabPart ==
  /\ part = "browser tabs"
  /\ UNCHANGED <<part, agilVars, costamarVars, agilSearchVars, sweepVars,
                 brandedVars, b2bVars, storageVars, tempVars>>
AgilSearchPart ==
  /\ part = "agil search"
  /\ UNCHANGED <<part, agilVars, costamarVars, tabVars, sweepVars,
                 brandedVars, b2bVars, storageVars, tempVars>>
SweepPart ==
  /\ part = "date sweep"
  /\ UNCHANGED <<part, agilVars, costamarVars, tabVars, agilSearchVars,
                 brandedVars, b2bVars, storageVars, tempVars>>
TokenPart ==
  /\ part = "branded token"
  /\ UNCHANGED <<part, agilVars, costamarVars, tabVars, agilSearchVars,
                 sweepVars, b2bVars, storageVars, tempVars>>
PagePart ==
  /\ part = "site page"
  /\ UNCHANGED <<part, agilVars, costamarVars, tabVars, agilSearchVars,
                 sweepVars, brandedVars, storageVars, tempVars>>
StoragePart ==
  /\ part = "agil storage"
  /\ UNCHANGED <<part, agilVars, costamarVars, tabVars, agilSearchVars,
                 sweepVars, brandedVars, b2bVars, tempVars>>
TempPart ==
  /\ part = "temp profiles"
  /\ UNCHANGED <<part, agilVars, costamarVars, tabVars, agilSearchVars,
                 sweepVars, brandedVars, b2bVars, storageVars>>

ProvidersNext ==
  \/ AgilPart /\ AgilNext
  \/ CostamarPart /\ CostamarNext
  \/ TabPart /\ TabNext
  \/ AgilSearchPart /\ AgilSearchNext
  \/ SweepPart /\ SweepNext
  \/ TokenPart /\ BrandedNext
  \/ PagePart /\ B2bNext
  \/ StoragePart /\ StorageNext
  \/ TempPart /\ TempNext

ProvidersSpec == ProvidersInit /\ [][ProvidersNext]_providerVars

(* Requests have deadlines, launches end, prompts are answered or           *)
(* dismissed, and the clock moves; nobody has to stop or to ask.            *)
ProvidersFairness ==
  /\ WF_providerVars(AgilPart /\ LoadStep)
  /\ \A a \in Attempt : WF_providerVars(CostamarPart /\ WarmupStep(a))
  /\ WF_providerVars(CostamarPart /\ CostamarTick)
  /\ \A s \in AgilQuery : WF_providerVars(AgilSearchPart /\ AgilSearchStep(s))
  /\ WF_providerVars(SweepPart /\ SweepStep)

FairProvidersSpec == ProvidersSpec /\ ProvidersFairness

(* Whatever is opened for a provider is closed: the isolated browser of a   *)
(* warm-up (NoBrowserLeft) and the tabs of a worker that stops              *)
(* (KnownTabsAreClosed).                                                    *)
BrowsersAreClosed == NoBrowserLeft /\ KnownTabsAreClosed

(* What a search says of itself is what its requests met: the slots they    *)
(* share (SlotsAreShared), the answer of a date (PartialToldTruly) and of   *)
(* several (SweepToldTruly).                                                *)
AnswersToldTruly ==
  /\ AgilTypeOK /\ CostamarTypeOK /\ TabTypeOK /\ AgilSearchTypeOK /\ SweepTypeOK
  /\ SlotsAreShared /\ PartialToldTruly /\ SweepToldTruly

(* The sessions of the providers: what a person gave is not thrown away     *)
(* (SecretsAreKept), who waits for a session is told what became of it      *)
(* (WaitersToldTruly), and nobody signs in too often (SignInsAreSpaced).    *)
ProviderSessionsAreKept == SecretsAreKept /\ WaitersToldTruly /\ SignInsAreSpaced

(* Whoever asks a provider is answered: who waits for a session             *)
(* (EveryWaiterAnswered) or a warm-up (WarmupAnswers), a search             *)
(* (AgilSearchEnds) and the sweep of its dates (SweepEnds).                 *)
EverybodyIsAnswered ==
  /\ EveryWaiterAnswered /\ WarmupAnswers /\ AgilSearchEnds
  /\ part = "date sweep" => SweepEnds
=============================================================================
