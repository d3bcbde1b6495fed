---------------------------- MODULE AgilSession ----------------------------
(***************************************************************************)
(* The session Agil searches share (src/src/local-agil.ts): a bearer token *)
(* minted over HTTP from an identity, which a file keeps and which is      *)
(* first read from the storage of the shared Chrome. One load at a time    *)
(* serves every search that asks while it runs; a search whose token was   *)
(* refused renews the session on its own, beside the load.                 *)
(*                                                                         *)
(* Data is abstracted to what the order of events can confuse: whose       *)
(* identity a token was minted for and when it expires. The candidates the *)
(* browser is looked for in, one after the other, are one reading, which   *)
(* answers with the identity the browser holds or with nothing.            *)
(***************************************************************************)
EXTENDS Integers

CONSTANTS
  AgilCaller,       \* the searches, and the prewarm, that ask for the session
  AgilPrewarm,      \* those of them that are the prewarm: they force a mint
  Identity,         \* the identities an account has had
  TokenLife,        \* how long a minted token lives
  ExpiryBuffer,     \* AGIL_SESSION_EXPIRY_BUFFER_MS
  Revalidate,       \* AGIL_SESSION_REVALIDATE_MS
  MaxLoadTime,      \* bound: the time a load takes; its requests have deadlines
  MaxNow            \* bound of the clock

NoIdentity == "no identity"

ASSUME AgilAssumption ==
  /\ AgilPrewarm \subseteq AgilCaller
  /\ NoIdentity \notin Identity
  /\ {TokenLife, ExpiryBuffer, Revalidate, MaxLoadTime, MaxNow} \subseteq Nat
  /\ MaxLoadTime <= ExpiryBuffer /\ TokenLife > 0

VARIABLES
  clock,        \* Date.now()
  account,      \* the identity the provider accepts
  chrome,       \* the identity in the storage of the shared Chrome
  file,         \* agil-identity.json
  cached,       \* cachedSession
  load,         \* pendingSessionPromise: the load in progress
  caller,       \* what each caller does
  held,         \* the session each caller was given
  stopped       \* callers whose search was stopped

agilVars == <<clock, account, chrome, file, cached, load, caller, held, stopped>>

Session == [identity : Identity, expires : Nat, captured : Nat]
NoSession == [identity |-> NoIdentity, expires |-> 0, captured |-> 0]
NoLoad == [step |-> "none", force |-> FALSE, at |-> 0, identity |-> NoIdentity]

AgilTypeOK ==
  /\ clock \in 0..MaxNow
  /\ account \in Identity /\ chrome \in Identity \union {NoIdentity}
  /\ file \in Identity \union {NoIdentity}
  /\ cached \in Session \union {NoSession}
  /\ load.step \in {"none", "file", "mint", "browser", "refresh"}
  /\ load.at <= clock
  /\ caller \in [AgilCaller -> {"idle", "waiting", "serving", "failed", "cancelled"}]
  /\ held \in [AgilCaller -> Session \union {NoSession}]
  /\ stopped \subseteq AgilCaller

Minted(i) == [identity |-> i, expires |-> clock + TokenLife, captured |-> clock]

(* Reusable without a load: checked now. *)
Reusable(session) ==
  /\ session # NoSession
  /\ session.expires - clock > ExpiryBuffer
  /\ clock - session.captured < Revalidate

(* Mutant: a load keeps a token however old it is. *)
ConfirmsAnyAge(i) == cached.identity = i /\ ~load.force

(* A load keeps the token of an unchanged identity unless it was forced or *)
(* the token is close to its end.                                          *)
Confirms(i) ==
  /\ cached.identity = i
  /\ ~load.force
  /\ cached.expires - load.at > ExpiryBuffer

Waiting == {c \in AgilCaller : caller[c] = "waiting"}

(* The load ends: everyone waiting on it gets the session, or fails. *)
LoadEnds(session, outcome) ==
  /\ load' = NoLoad
  /\ caller' = [c \in AgilCaller |-> IF c \in Waiting THEN outcome ELSE caller[c]]
  /\ held' = [c \in AgilCaller |-> IF c \in Waiting THEN session ELSE held[c]]

AgilInit ==
  /\ clock = 0
  /\ account \in Identity
  /\ chrome \in Identity \union {NoIdentity}
  /\ file \in {NoIdentity, account}
  /\ cached = NoSession
  /\ load = NoLoad
  /\ caller = [c \in AgilCaller |-> "idle"]
  /\ held = [c \in AgilCaller |-> NoSession]
  /\ stopped = {}

Begin(force) ==
  load' = IF load = NoLoad
          THEN [step |-> "file", force |-> force, at |-> clock, identity |-> NoIdentity]
          ELSE load

GetAgilSession(c) ==
  /\ c \notin AgilPrewarm
  /\ caller[c] = "idle"
  /\ \/ /\ Reusable(cached)
        /\ caller' = [caller EXCEPT ![c] = "serving"]
        /\ held' = [held EXCEPT ![c] = cached]
        /\ UNCHANGED load
     \/ /\ ~Reusable(cached)
        /\ caller' = [caller EXCEPT ![c] = "waiting"]
        /\ Begin(FALSE)
        /\ UNCHANGED held
  /\ UNCHANGED <<clock, account, chrome, file, cached, stopped>>

PrewarmSession(c) ==
  /\ c \in AgilPrewarm
  /\ caller[c] = "idle"
  /\ caller' = [caller EXCEPT ![c] = "waiting"]
  /\ Begin(TRUE)
  /\ UNCHANGED <<clock, account, chrome, file, cached, held, stopped>>

(* The file names an identity: the session is confirmed at once, or minted *)
(* from it. Without a file, the browser is asked.                          *)
ReadFile ==
  /\ load.step = "file"
  /\ \/ /\ file # NoIdentity /\ Confirms(file)
        /\ cached' = [cached EXCEPT !.captured = load.at]
        /\ LoadEnds(cached', "serving")
     \/ /\ file # NoIdentity /\ ~Confirms(file)
        /\ load' = [load EXCEPT !.step = "mint", !.identity = file]
        /\ UNCHANGED <<cached, caller, held>>
     \/ /\ file = NoIdentity
        /\ load' = [load EXCEPT !.step = "browser"]
        /\ UNCHANGED <<cached, caller, held>>
  /\ UNCHANGED <<clock, account, chrome, file, stopped>>

(* Mutant: a mint that fails is left where it is. *)
MintOrNothing ==
  /\ load.step = "mint"
  /\ load.identity = account
  /\ cached' = Minted(account)
  /\ LoadEnds(cached', "serving")
  /\ UNCHANGED <<clock, account, chrome, file, stopped>>

(* The provider mints for the identity it accepts. A mint that fails, for  *)
(* whatever reason, leaves the browser to be asked.                        *)
MintFromIdentity ==
  /\ load.step = "mint"
  /\ \/ /\ load.identity = account
        /\ cached' = Minted(account)
        /\ LoadEnds(cached', "serving")
     \/ /\ load' = [load EXCEPT !.step = "browser"]
        /\ UNCHANGED <<cached, caller, held>>
  /\ UNCHANGED <<clock, account, chrome, file, stopped>>

(* The browser is read and its identity kept in the file; a reading that   *)
(* fails ends the load.                                                    *)
ReadBrowser ==
  /\ load.step = "browser"
  /\ \/ /\ chrome # NoIdentity
        /\ file' = chrome
        /\ \/ /\ Confirms(chrome)
              /\ cached' = [cached EXCEPT !.captured = load.at]
              /\ LoadEnds(cached', "serving")
           \/ /\ ~Confirms(chrome)
              /\ load' = [load EXCEPT !.step = "refresh", !.identity = chrome]
              /\ UNCHANGED <<cached, caller, held>>
     \/ /\ LoadEnds(NoSession, "failed")
        /\ UNCHANGED <<file, cached>>
  /\ UNCHANGED <<clock, account, chrome, stopped>>

RefreshAgilToken ==
  /\ load.step = "refresh"
  /\ \/ /\ load.identity = account
        /\ cached' = Minted(account)
        /\ LoadEnds(cached', "serving")
     \/ /\ LoadEnds(NoSession, "failed")
        /\ UNCHANGED cached
  /\ UNCHANGED <<clock, account, chrome, file, stopped>>

(* A search whose token was refused mints from its own session and leaves  *)
(* the result as everyone's, whatever a load does meanwhile.               *)
RenewRefused(c) ==
  /\ caller[c] = "serving"
  /\ c \notin stopped
  /\ \/ held[c].expires <= clock
     \/ held[c].identity # account
  /\ \/ /\ held[c].identity = account
        /\ cached' = Minted(account)
        /\ held' = [held EXCEPT ![c] = cached']
        /\ UNCHANGED caller
     \/ /\ caller' = [caller EXCEPT ![c] = "failed"]
        /\ UNCHANGED <<cached, held>>
  /\ UNCHANGED <<clock, account, chrome, file, load, stopped>>

(* A stop leaves the shared load alone: the search that is stopped waits   *)
(* on, and its first request after the wait is refused.                    *)
StopCaller(c) ==
  /\ caller[c] \in {"waiting", "serving"}
  /\ c \notin stopped \union AgilPrewarm
  /\ stopped' = stopped \union {c}
  /\ UNCHANGED <<clock, account, chrome, file, cached, load, caller, held>>

SeesStop(c) ==
  /\ caller[c] = "serving"
  /\ c \in stopped
  /\ caller' = [caller EXCEPT ![c] = "cancelled"]
  /\ UNCHANGED <<clock, account, chrome, file, cached, load, held, stopped>>

SearchEnds(c) ==
  /\ caller[c] \in {"serving", "failed", "cancelled"}
  /\ caller' = [caller EXCEPT ![c] = "idle"]
  /\ held' = [held EXCEPT ![c] = NoSession]
  /\ stopped' = stopped \ {c}
  /\ UNCHANGED <<clock, account, chrome, file, cached, load>>

(* Outside: time passes, the agency's account changes, and the operator    *)
(* signs the shared Chrome in or out.                                      *)
AgilTick ==
  /\ clock < MaxNow
  /\ load # NoLoad => clock - load.at < MaxLoadTime
  /\ clock' = clock + 1
  /\ UNCHANGED <<account, chrome, file, cached, load, caller, held, stopped>>

AccountChanges ==
  /\ account' \in Identity \ {account}
  /\ chrome' \in {chrome, account', NoIdentity}
  /\ UNCHANGED <<clock, file, cached, load, caller, held, stopped>>

SignIn ==
  /\ chrome # account
  /\ chrome' = account
  /\ UNCHANGED <<clock, account, file, cached, load, caller, held, stopped>>

LoadStep == ReadFile \/ MintFromIdentity \/ ReadBrowser \/ RefreshAgilToken

AgilNext ==
  \/ \E c \in AgilCaller :
       GetAgilSession(c) \/ PrewarmSession(c) \/ RenewRefused(c) \/ StopCaller(c)
       \/ SeesStop(c) \/ SearchEnds(c)
  \/ LoadStep
  \/ AgilTick \/ AccountChanges \/ SignIn

AgilSpec == AgilInit /\ [][AgilNext]_agilVars

---------------------------------------------------------------------------
(* What a waiting search is told is true: the token it is given is not     *)
(* over, however long ago the load it joined decided to keep it            *)
(* (shouldReuseAgilSession, loadAgilSession), and it is told that there is *)
(* no session only by a browser or a provider that refused one, never by   *)
(* the stop of the search that began the load ("no single search's stop    *)
(* aborts it", getAgilSession).                                            *)
WaitersToldTruly ==
  [][\A c \in AgilCaller :
       /\ caller[c] \in {"idle", "waiting"} /\ caller'[c] = "serving" => held'[c].expires > clock
       /\ caller[c] = "waiting" /\ caller'[c] = "failed" =>
            load.step \in {"browser", "refresh"} /\ stopped' = stopped]_agilVars

(* A prewarm and the searches that joined its load are answered.           *)
EveryWaiterAnswered ==
  \A c \in AgilCaller : caller[c] = "waiting" ~> caller[c] # "waiting"
=============================================================================
