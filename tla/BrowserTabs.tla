---------------------------- MODULE BrowserTabs ----------------------------
(***************************************************************************)
(* The tabs a search worker opens in the shared Chrome, which outlives it  *)
(* (src/src/browser-targets.ts): by the Agil reader, one after the other   *)
(* through a DevTools socket of its own, and by the Click and Book Plus    *)
(* sign-in, through a connection it keeps. Asking for a tab has a timeout, *)
(* and the worker may be stopped at any moment.                            *)
(***************************************************************************)
EXTENDS FiniteSets

CONSTANTS
  CdpTab,     \* tabs the Agil reader asks for (Target.createTarget)
  LiveTab     \* tabs the sign-in asks for (newPage)

ASSUME TabAssumption == CdpTab \intersect LiveTab = {}

Tab == CdpTab \union LiveTab

VARIABLES
  tab,          \* Chrome's side: "none", "asked", "open" or "closed"
  reply,        \* tabs whose creation Chrome answered and nobody read yet
  owner,        \* the code that asked: "idle", "asking", "using" or "gone"
  openTargets,  \* how to close them is recorded
  closeSent,    \* Chrome was asked to close them
  socket,       \* the Agil reader's DevTools socket is open
  closing,      \* the worker is stopping
  exited

tabVars == <<tab, reply, owner, openTargets, closeSent, socket, closing, exited>>

TabTypeOK ==
  /\ tab \in [Tab -> {"none", "asked", "open", "closed"}]
  /\ owner \in [Tab -> {"idle", "asking", "using", "gone"}]
  /\ reply \subseteq Tab /\ openTargets \subseteq Tab /\ closeSent \subseteq Tab
  /\ {socket, closing, exited} \subseteq BOOLEAN

TabInit ==
  /\ tab = [t \in Tab |-> "none"]
  /\ reply = {}
  /\ owner = [t \in Tab |-> "idle"]
  /\ openTargets = {} /\ closeSent = {}
  /\ socket = TRUE
  /\ closing = FALSE /\ exited = FALSE

(* The reader reads one origin at a time. *)
AskTab(t) ==
  /\ ~exited
  /\ owner[t] = "idle"
  /\ t \in CdpTab => socket /\ \A u \in CdpTab : owner[u] \in {"idle", "gone"}
  /\ owner' = [owner EXCEPT ![t] = "asking"]
  /\ tab' = [tab EXCEPT ![t] = "asked"]
  /\ UNCHANGED <<reply, openTargets, closeSent, socket, closing, exited>>

ChromeOpens(t) ==
  /\ tab[t] = "asked"
  /\ tab' = [tab EXCEPT ![t] = "open"]
  /\ reply' = IF exited \/ (t \in CdpTab /\ ~socket) THEN reply ELSE reply \union {t}
  /\ UNCHANGED <<owner, openTargets, closeSent, socket, closing, exited>>

(* Mutant: a tab that arrives while the stop closes the others is recorded. *)
TrackedLate(t) ==
  /\ openTargets' = openTargets \union {t}
  /\ UNCHANGED closeSent

(* trackOpenBrowserTarget: recorded, or closed at once while stopping. *)
Tracked(t) ==
  /\ openTargets' = IF closing THEN openTargets ELSE openTargets \union {t}
  /\ closeSent' = IF closing THEN closeSent \union {t} ELSE closeSent

(* The answer reaches the code that asked. If it no longer waits, the      *)
(* DevTools client closes the tab itself; Playwright's late page is        *)
(* nobody's.                                                               *)
TabAnswered(t) ==
  /\ ~exited
  /\ t \in reply
  /\ reply' = reply \ {t}
  /\ \/ /\ owner[t] = "asking"
        /\ owner' = [owner EXCEPT ![t] = "using"]
        /\ Tracked(t)
     \/ /\ owner[t] = "gone"
        /\ closeSent' = IF t \in CdpTab THEN closeSent \union {t} ELSE closeSent
        /\ UNCHANGED <<owner, openTargets>>
  /\ UNCHANGED <<tab, socket, closing, exited>>

AskTimesOut(t) ==
  /\ ~exited
  /\ owner[t] = "asking"
  /\ owner' = [owner EXCEPT ![t] = "gone"]
  /\ UNCHANGED <<tab, reply, openTargets, closeSent, socket, closing, exited>>

(* The finally: forget the tab, and close it. *)
TabUsed(t) ==
  /\ ~exited
  /\ owner[t] = "using"
  /\ owner' = [owner EXCEPT ![t] = "gone"]
  /\ openTargets' = openTargets \ {t}
  /\ closeSent' = closeSent \union {t}
  /\ UNCHANGED <<tab, reply, socket, closing, exited>>

(* The reader is done and closes its socket: answers on their way are lost. *)
ReaderEnds ==
  /\ ~exited
  /\ socket
  /\ \A t \in CdpTab : owner[t] \in {"idle", "gone"}
  /\ \E t \in CdpTab : owner[t] = "gone"
  /\ socket' = FALSE
  /\ reply' = reply \ CdpTab
  /\ UNCHANGED <<tab, owner, openTargets, closeSent, closing, exited>>

ChromeCloses(t) ==
  /\ t \in closeSent
  /\ tab[t] = "open"
  /\ tab' = [tab EXCEPT ![t] = "closed"]
  /\ UNCHANGED <<reply, owner, openTargets, closeSent, socket, closing, exited>>

CloseOpenTargets ==
  /\ ~closing
  /\ closing' = TRUE
  /\ closeSent' = closeSent \union openTargets
  /\ openTargets' = {}
  /\ UNCHANGED <<tab, reply, owner, socket, exited>>

(* Once the closes were answered, or their time is up. *)
WorkerExits ==
  /\ closing
  /\ ~exited
  /\ exited' = TRUE
  /\ reply' = {}
  /\ socket' = FALSE
  /\ UNCHANGED <<tab, owner, openTargets, closeSent, closing>>

TabNext ==
  \/ \E t \in Tab :
       AskTab(t) \/ ChromeOpens(t) \/ TabAnswered(t) \/ AskTimesOut(t) \/ TabUsed(t) \/ ChromeCloses(t)
  \/ ReaderEnds \/ CloseOpenTargets \/ WorkerExits

TabSpec == TabInit /\ [][TabNext]_tabVars

---------------------------------------------------------------------------
(* The stop that comes before the finally still closes every tab the       *)
(* worker knows of, those that arrive during the stop too: a tab its owner *)
(* was given, still open, is in the list the stop closes, and once it      *)
(* began has been asked to close (browser-targets.ts:3-5).                 *)
KnownTabsAreClosed ==
  \A t \in Tab : tab[t] = "open" /\ owner[t] = "using" =>
    t \in IF closing THEN closeSent ELSE openTargets \union closeSent
=============================================================================
