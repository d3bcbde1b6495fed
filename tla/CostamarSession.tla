-------------------------- MODULE CostamarSession --------------------------
(***************************************************************************)
(* The branded token of a Click and Book Plus terminal                     *)
(* (src/src/local-costamar.ts, src/src/provider-context.ts). The process   *)
(* knows a newest token, from the platform's file, the environment,        *)
(* Chrome's sessions or a sign-in of its own; a search that finds it over  *)
(* or close to its end, and one whose token the provider refused, warms    *)
(* the session up: over HTTP, then in a live tab, then in an isolated      *)
(* browser, and at last waiting for someone to renew the token. Searches   *)
(* share the warm-up in progress, and a cooldown spares the provider.      *)
(*                                                                         *)
(* A token is abstracted to its expiry. The steps of a form, the cookies   *)
(* and the places a token is looked for are left out: each way to sign in  *)
(* finds a token or does not.                                              *)
(***************************************************************************)
EXTENDS Integers

CONSTANTS
  CostamarCaller,     \* searches that ask for the token
  Attempt,            \* warm-ups, over and over
  Interactive,        \* an operator at a terminal may be asked for credentials
  BrowserFallback,    \* the browser ways are enabled
  LiveBrowser,        \* the live browser is used
  BrandedLife,        \* how long a token lives
  RefreshWindow,      \* COSTAMAR_TOKEN_REFRESH_WINDOW_MS
  WarmupTimeout, Cooldown,
  MaxTick             \* bound of the clock

NoAttempt == "no attempt"
NoToken == 0
Never == -100

ASSUME CostamarAssumption ==
  /\ NoAttempt \notin Attempt
  /\ {Interactive, BrowserFallback, LiveBrowser} \subseteq BOOLEAN
  /\ {BrandedLife, RefreshWindow, WarmupTimeout, Cooldown, MaxTick} \subseteq Nat
  /\ WarmupTimeout <= Cooldown

VARIABLES
  tick,         \* the clock
  known,        \* expiry of the newest token known for the terminal
  credentials,  \* email and password are known
  pending,      \* pendingCostamarSessionWarmups at the terminal's key
  recent,       \* recentCostamarSessionWarmups: when the last warm-up began
  attempt,      \* where each warm-up stands, and when its waiting ends
  launch,       \* the isolated browser of each warm-up
  profile,      \* warm-ups whose temporary profile is on disk
  asker         \* each search: its step, its warm-up, its token, what was refused

costamarVars == <<tick, known, credentials, pending, recent, attempt, launch, profile, asker>>

Idle == [step |-> "idle", on |-> NoAttempt, token |-> NoToken, retried |-> FALSE]
Rest == [step |-> "rest", until |-> 0]

CostamarTypeOK ==
  /\ tick \in 0..MaxTick
  /\ known \in Nat /\ credentials \in BOOLEAN
  /\ pending \in Attempt \union {NoAttempt}
  /\ attempt \in [Attempt -> [step : {"rest", "prompt", "http", "live", "launch", "isolated", "settle", "poll"}, until : Nat]]
  /\ launch \in [Attempt -> {"none", "launching", "late", "open"}]
  /\ profile \subseteq Attempt
  /\ asker \in [CostamarCaller -> [step : {"idle", "waiting", "resolved", "failed"},
                                   on : Attempt \union {NoAttempt}, token : Nat, retried : BOOLEAN]]

Usable(token) == token > tick
NearExpiry(token) == Usable(token) /\ token <= tick + RefreshWindow
Running == {a \in Attempt : attempt[a].step # "rest"}

CostamarInit ==
  /\ tick = 0
  /\ known \in {NoToken, RefreshWindow, BrandedLife}
  /\ credentials \in BOOLEAN
  /\ pending = NoAttempt
  /\ recent = Never
  /\ attempt = [a \in Attempt |-> Rest]
  /\ launch = [a \in Attempt |-> "none"]
  /\ profile = {}
  /\ asker = [c \in CostamarCaller |-> Idle]

(* Mutant: nobody can join a warm-up. *)
BeginsAlone(a) ==
  /\ a \notin Running
  /\ launch[a] = "none"
  /\ recent' = tick
  /\ attempt' = [attempt EXCEPT ![a] =
       [step |-> IF ~credentials /\ Interactive THEN "prompt" ELSE "http", until |-> 0]]
  /\ UNCHANGED pending

(* A warm-up begins: it is stamped before it asks anything. *)
Begins(a) ==
  /\ a \notin Running
  /\ launch[a] = "none"
  /\ recent' = tick
  /\ pending' = a
  /\ attempt' = [attempt EXCEPT ![a] =
       [step |-> IF ~credentials /\ Interactive THEN "prompt" ELSE "http", until |-> 0]]

(* warmCostamarRedirectContext, for a search or forced by a refusal: the   *)
(* token it has, the warm-up in progress, the newest token while the       *)
(* cooldown lasts, or a warm-up of its own.                                *)
Warm(c, force, retried) ==
  \/ /\ ~force
     /\ Usable(known) /\ ~NearExpiry(known)
     /\ asker' = [asker EXCEPT ![c] = [step |-> "resolved", on |-> NoAttempt, token |-> known, retried |-> retried]]
     /\ UNCHANGED <<pending, recent, attempt>>
  \/ /\ force \/ ~Usable(known) \/ NearExpiry(known)
     /\ \/ /\ pending # NoAttempt
           /\ asker' = [asker EXCEPT ![c].step = "waiting", ![c].on = pending, ![c].retried = retried]
           /\ UNCHANGED <<pending, recent, attempt>>
        \/ /\ pending = NoAttempt
           /\ ~force /\ tick - recent < Cooldown
           /\ asker' = [asker EXCEPT ![c] = [step |-> "resolved", on |-> NoAttempt, token |-> known, retried |-> retried]]
           /\ UNCHANGED <<pending, recent, attempt>>
        \/ /\ pending = NoAttempt
           /\ force \/ tick - recent >= Cooldown
           /\ \E a \in Attempt :
                /\ Begins(a)
                /\ asker' = [asker EXCEPT ![c].step = "waiting", ![c].on = a, ![c].retried = retried]

ResolveContext(c) ==
  /\ asker[c].step = "idle"
  /\ Warm(c, FALSE, FALSE)
  /\ UNCHANGED <<tick, known, credentials, launch, profile>>

(* The provider refused the token with a 401 or a 402: one forced warm-up, *)
(* and the search is asked again only with another token.                  *)
TokenRefused(c) ==
  /\ asker[c].step = "resolved"
  /\ Usable(asker[c].token)
  /\ ~asker[c].retried
  /\ Warm(c, TRUE, TRUE)
  /\ UNCHANGED <<tick, known, credentials, launch, profile>>

(* Without a usable token, or refused twice, the search fails; otherwise   *)
(* it answers.                                                             *)
CostamarSearchEnds(c) ==
  /\ asker[c].step \in {"resolved", "failed"}
  /\ asker' = [asker EXCEPT ![c] = Idle]
  /\ UNCHANGED <<tick, known, credentials, pending, recent, attempt, launch, profile>>

(* The operator answers the prompt, or dismisses it: both are remembered   *)
(* as far as they go, and without credentials the HTTP way finds nothing.  *)
PromptAnswered(a) ==
  /\ attempt[a].step = "prompt"
  /\ credentials' \in {credentials, TRUE}
  /\ attempt' = [attempt EXCEPT ![a].step = "http"]
  /\ UNCHANGED <<tick, known, pending, recent, launch, profile, asker>>

AfterHttp == IF ~BrowserFallback THEN "settle" ELSE IF LiveBrowser THEN "live" ELSE "launch"

(* The warm-up is over: everyone waiting on it gets the newest token, and  *)
(* its own search's finally takes it out of the map.                       *)
Ends(a) ==
  /\ attempt' = [attempt EXCEPT ![a] = Rest]
  /\ asker' = [c \in CostamarCaller |->
       IF asker[c].step = "waiting" /\ asker[c].on = a
       THEN [asker[c] EXCEPT !.step = "resolved", !.on = NoAttempt, !.token = known']
       ELSE asker[c]]
  /\ pending' = NoAttempt

Found == tick + BrandedLife

(* Sign-in over HTTP, with its second factor. *)
SignInHttp(a) ==
  /\ attempt[a].step = "http"
  /\ \/ /\ credentials
        /\ known' = Found
        /\ Ends(a)
     \/ /\ attempt' = [attempt EXCEPT ![a].step = AfterHttp]
        /\ UNCHANGED <<known, pending, asker>>
  /\ UNCHANGED <<tick, credentials, recent, launch, profile>>

(* A tab of the live browser finds a token, or the isolated browser is     *)
(* next. A form that still shows after a sign-in clears the credentials an *)
(* operator typed.                                                         *)
SignInLive(a) ==
  /\ attempt[a].step = "live"
  /\ \/ /\ known' = Found
        /\ Ends(a)
        /\ UNCHANGED credentials
     \/ /\ attempt' = [attempt EXCEPT ![a].step = "launch"]
        /\ credentials' \in IF Interactive THEN {credentials, FALSE} ELSE {credentials}
        /\ UNCHANGED <<known, pending, asker>>
  /\ UNCHANGED <<tick, recent, launch, profile>>

LaunchBrowser(a) ==
  /\ attempt[a].step = "launch"
  /\ launch[a] = "none"
  /\ launch' = [launch EXCEPT ![a] = "launching"]
  /\ profile' = profile \union {a}
  /\ UNCHANGED <<tick, known, credentials, pending, recent, attempt, asker>>

(* The launch succeeds, fails and cleans up after itself, or takes too     *)
(* long and is left behind, to be closed when it arrives.                  *)
BrowserLaunched(a) ==
  /\ launch[a] = "launching"
  /\ \/ /\ launch' = [launch EXCEPT ![a] = "open"]
        /\ attempt' = [attempt EXCEPT ![a].step = "isolated"]
        /\ UNCHANGED profile
     \/ /\ launch' = [launch EXCEPT ![a] = "none"]
        /\ profile' = profile \ {a}
        /\ attempt' = [attempt EXCEPT ![a].step = "settle"]
     \/ /\ launch' = [launch EXCEPT ![a] = "late"]
        /\ attempt' = [attempt EXCEPT ![a].step = "settle"]
        /\ UNCHANGED profile
  /\ UNCHANGED <<tick, known, credentials, pending, recent, asker>>

LateLaunch(a) ==
  /\ launch[a] = "late"
  /\ launch' = [launch EXCEPT ![a] = "none"]
  /\ profile' = profile \ {a}
  /\ UNCHANGED <<tick, known, credentials, pending, recent, attempt, asker>>

(* Mutant: the profile of a closed browser stays. *)
CloseBrowserOnly(a) ==
  /\ launch' = [launch EXCEPT ![a] = "none"]
  /\ UNCHANGED profile

(* The finally of the isolated way: browser and profile go, found or not. *)
CloseIsolated(a) ==
  /\ launch' = [launch EXCEPT ![a] = "none"]
  /\ profile' = profile \ {a}

SignInIsolated(a) ==
  /\ attempt[a].step = "isolated"
  /\ CloseIsolated(a)
  /\ \/ /\ known' = Found
        /\ Ends(a)
     \/ /\ attempt' = [attempt EXCEPT ![a].step = "settle"]
        /\ UNCHANGED <<known, pending, asker>>
  /\ UNCHANGED <<tick, credentials, recent>>

(* No way found a token: the pages are perhaps opened for the operator,    *)
(* and a renewal is awaited until the deadline (or the end of the model's  *)
(* clock).                                                                 *)
AwaitRenewal(a) ==
  /\ attempt[a].step = "settle"
  /\ \E until \in {tick + WarmupTimeout, MaxTick} :
       /\ until <= tick + WarmupTimeout /\ until <= MaxTick
       /\ attempt' = [attempt EXCEPT ![a] = [step |-> "poll", until |-> until]]
  /\ UNCHANGED <<tick, known, credentials, pending, recent, launch, profile, asker>>

(* Mutant: only a token ends the waiting. *)
PollEndedByToken(a) ==
  /\ attempt[a].step = "poll"
  /\ Usable(known)
  /\ UNCHANGED <<tick, known, credentials, recent, launch, profile>>
  /\ Ends(a)

PollEnded(a) ==
  /\ attempt[a].step = "poll"
  /\ Usable(known) \/ tick >= attempt[a].until
  /\ UNCHANGED <<tick, known, credentials, recent, launch, profile>>
  /\ Ends(a)

(* Outside: time, and a renewal by the platform or by an agent's browser. *)
CostamarTick ==
  /\ tick < MaxTick
  /\ tick' = tick + 1
  /\ UNCHANGED <<known, credentials, pending, recent, attempt, launch, profile, asker>>

TokenRenewed ==
  /\ known < Found
  /\ known' = Found
  /\ UNCHANGED <<tick, credentials, pending, recent, attempt, launch, profile, asker>>

WarmupStep(a) ==
  \/ PromptAnswered(a) \/ SignInHttp(a) \/ SignInLive(a) \/ LaunchBrowser(a) \/ BrowserLaunched(a)
  \/ SignInIsolated(a) \/ AwaitRenewal(a) \/ PollEnded(a)

CostamarNext ==
  \/ \E c \in CostamarCaller : ResolveContext(c) \/ TokenRefused(c) \/ CostamarSearchEnds(c)
  \/ \E a \in Attempt : WarmupStep(a) \/ LateLaunch(a)
  \/ CostamarTick \/ TokenRenewed

CostamarSpec == CostamarInit /\ [][CostamarNext]_costamarVars

---------------------------------------------------------------------------
(* The provider is signed in to by one warm-up of a terminal at a time,    *)
(* and unasked for, never twice within the cooldown, whoever waits on it,  *)
(* joins it or leaves (warmCostamarRedirectContext).                       *)
SignInsAreSpaced ==
  [][\A a \in Attempt :
       attempt[a].step = "rest" /\ attempt'[a].step # "rest" =>
         /\ Running = {}
         /\ \/ tick - recent >= Cooldown
            \/ \E c \in CostamarCaller : asker[c].step = "resolved" /\ asker'[c].on = a]_costamarVars

(* An isolated browser and its temporary profile belong to the warm-up at  *)
(* work in it, or to a launch still on its way: none is left behind by a   *)
(* warm-up that found a token, failed, or gave the launch up               *)
(* (launchCostamarBrowserContextWithin).                                   *)
NoBrowserLeft ==
  \A a \in Attempt :
    /\ launch[a] = "open" => attempt[a].step = "isolated"
    /\ launch[a] = "launching" => attempt[a].step = "launch"
    /\ a \in profile => launch[a] # "none"

(* Who waits on a warm-up gets its answer: each way in has a deadline, and *)
(* the operator answers the prompt or dismisses it.                        *)
WarmupAnswers ==
  \A c \in CostamarCaller : asker[c].step = "waiting" ~> asker[c].step # "waiting"
=============================================================================
