----------------------------- MODULE RunnerProxy ----------------------------
(***************************************************************************)
(* A search a browser asks of the web unit, which hands it to the search   *)
(* runner (src/src/search-service-client.ts, service-auth.ts, and          *)
(* proxySearchServiceRequestCountingUsage of http-router.ts), or runs it    *)
(* itself; and who counts it for the stations' cards. The runner restarts  *)
(* while it is asked, and connections die with or without an answer.       *)
(*                                                                         *)
(* Headers other than the mark and the token, bodies and paths are left    *)
(* out; the runner's own admission is SearchAdmission.                      *)
(***************************************************************************)
EXTENDS LocationUsage

CONSTANTS
  HttpRequest,     \* what browsers send, each once
  HopLimit,        \* resolveProxyTimeoutMsForRequest
  MaxTick          \* bound of the clock

ASSUME ProxyAssumption == HopLimit \in Nat \ {0} /\ MaxTick \in Nat

VARIABLES
  delegates,       \* FLY_DESK_SEARCH_SERVICE_URL is set
  runnerUp,
  calls,           \* what each request has come to
  executed,        \* history: how often the system ran what it asks for
  countedFor       \* history: how often it was counted

proxyVars == <<delegates, runnerUp, calls, executed, countedFor>>
allProxyVars == <<usageVars, proxyVars>>

(* What a request may be: a poll, or a search, which is to be counted or   *)
(* not; a browser may copy the mark of a delegated one, but only a unit    *)
(* that delegates one has the token.                                       *)
Asked(kind, marked, token, counts, from, by) ==
  [kind |-> kind, marked |-> marked, token |-> token, counts |-> counts, from |-> from, by |-> by]
Poll == Asked("poll", FALSE, FALSE, FALSE, 0, 0)
Asks == {Poll, Asked("search", FALSE, FALSE, FALSE, 1, 0), Asked("search", FALSE, FALSE, TRUE, 0, 0),
         Asked("search", TRUE, FALSE, TRUE, 1, 0), Asked("search", TRUE, TRUE, TRUE, 1, 0)}
        \union {Asked("search", FALSE, FALSE, TRUE, u[1], u[2]) : u \in Station \X (Browsing \union {0})}
Unsent == [at |-> "unsent", since |-> 0, asked |-> Poll, again |-> FALSE]
Ended(c, at) == [Unsent EXCEPT !.at = at, !.asked.token = c.asked.token, !.asked.counts = c.asked.counts]
OnItsWay(c) == c.at \in {"sending", "pausing", "answering", "refusing"}

(* Mutant: anybody keeps the mark. *)
KeepsAnyMark(ask) == ask.marked
(* proxyToRouter: only who shows a service token does.                     *)
KeepsMark(ask) == ask.marked /\ ask.token

Put(h, at) == calls' = [calls EXCEPT ![h].at = at]
Ran(h) == executed' = [executed EXCEPT ![h] = @ + 1]

(* recordLocationUsageForSearchRequest, unless the page asked not to.      *)
CountsUsage(h, ask, yes) ==
  IF ask.counts /\ yes
  THEN /\ RecordFromSearch(ask.from, 0, ask.by)
       /\ countedFor' = [countedFor EXCEPT ![h] = @ + 1] /\ UNCHANGED tick
  ELSE UNCHANGED <<usageVars, countedFor>>

(* A search of this very process: counted as it is accepted, unless it is  *)
(* marked (shouldRecordLocationUsageInThisUnit).                            *)
RunsHere(h, ask) ==
  /\ calls' = [calls EXCEPT ![h] = Ended([asked |-> ask], "ok")]
  /\ Ran(h)
  /\ CountsUsage(h, ask, ~KeepsMark(ask))
  /\ UNCHANGED <<delegates, runnerUp>>

(* maybeProxySearchServiceRequest hands over what is not marked.           *)
AskWeb(h) ==
  /\ calls[h].at = "unsent"
  /\ \E ask \in Asks :
       IF delegates /\ ~KeepsMark(ask)
       THEN /\ calls' = [calls EXCEPT ![h] = [Unsent EXCEPT !.at = "sending", !.since = tick, !.asked = ask]]
            /\ UNCHANGED <<usageVars, delegates, runnerUp, executed, countedFor>>
       ELSE RunsHere(h, ask)

(* fetchSearchService: what is refused before it is read is asked once     *)
(* more, if it reads, after a pause.                                        *)
RunnerDown(h) ==
  LET c == calls[h]
  IN /\ c.at = "sending" /\ ~runnerUp
     /\ calls' = [calls EXCEPT ![h] = IF c.asked.kind = "poll" /\ ~c.again
                                      THEN [c EXCEPT !.at = "pausing", !.again = TRUE]
                                      ELSE Ended(c, "failed")]
     /\ UNCHANGED <<usageVars, delegates, runnerUp, executed, countedFor>>
PauseEnds(h) ==
  /\ calls[h].at = "pausing" /\ Put(h, "sending")
  /\ UNCHANGED <<usageVars, delegates, runnerUp, executed, countedFor>>

(* The runner reads the request, marked and with the web unit's token, and  *)
(* runs it without counting it, or refuses it.                              *)
RunnerReads(h) ==
  /\ calls[h].at = "sending" /\ runnerUp
  /\ \/ Put(h, "answering") /\ Ran(h)
     \/ Put(h, "refusing") /\ UNCHANGED executed
  /\ UNCHANGED <<usageVars, delegates, runnerUp, countedFor>>

(* Its answer arrives, and only an accepted search counts.                 *)
AnswerArrives(h) ==
  /\ calls[h].at \in {"answering", "refusing"}
  /\ calls' = [calls EXCEPT ![h] = Ended(@, IF @.at = "answering" THEN "ok" ELSE "refused")]
  /\ CountsUsage(h, calls[h].asked, calls[h].at = "answering")
  /\ UNCHANGED <<delegates, runnerUp, executed>>

(* The connection dies, or the hop's deadline ends it, or the browser      *)
(* leaves a poll: 503, whatever the runner does with it.                    *)
HopEnds(h) ==
  /\ OnItsWay(calls[h])
  /\ \/ tick >= calls[h].since + HopLimit
     \/ calls[h].at \in {"answering", "refusing"}
     \/ calls[h].asked.kind = "poll"
  /\ calls' = [calls EXCEPT ![h] = Ended(@, "failed")]
  /\ UNCHANGED <<usageVars, delegates, runnerUp, executed, countedFor>>

RunnerRestarts ==
  /\ runnerUp' = ~runnerUp /\ delegates
  /\ UNCHANGED <<usageVars, delegates, calls, executed, countedFor>>

TickPasses ==
  /\ tick < MaxTick
  /\ \A h \in HttpRequest : OnItsWay(calls[h]) =>
       tick < calls[h].since + HopLimit
  /\ tick' = tick + 1
  /\ UNCHANGED <<lifetime, daily, recent, proxyVars>>

(* Stations were searched before.                                          *)
ProxyInit ==
  /\ tick = 0 /\ recent = {}
  /\ \E uses \in {1, 2} :
       LET many == {s \in Station : s # 1}
       IN /\ lifetime = [u \in {"origin"} \X many |-> [uses |-> uses, at |-> 0]]
          /\ daily = [d \in {"origin"} \X many \X {0} |-> uses]
  /\ delegates \in BOOLEAN /\ runnerUp = TRUE
  /\ calls = [h \in HttpRequest |-> Unsent]
  /\ executed = [h \in HttpRequest |-> 0] /\ countedFor = [h \in HttpRequest |-> 0]

ProxyNext ==
  \/ \E h \in HttpRequest :
       \/ AskWeb(h) \/ RunnerDown(h) \/ PauseEnds(h) \/ RunnerReads(h)
       \/ AnswerArrives(h) \/ HopEnds(h)
  \/ RunnerRestarts \/ TickPasses
  \/ ReadCards /\ UNCHANGED proxyVars

ProxySpec == ProxyInit /\ [][ProxyNext]_allProxyVars

---------------------------------------------------------------------------
(* Whatever a restart, a dead connection or a copied mark do: no search is  *)
(* run twice; one the browser was told is accepted is counted once, any     *)
(* other not at all; the station searched last is on everybody's cards, a   *)
(* station whose uses all left the window is on none but as the newest, and *)
(* the tables keep their bounds.                                            *)
SearchesCountOnce ==
  /\ \A h \in HttpRequest :
       /\ executed[h] <= 1
       /\ countedFor[h] = IF calls[h].at = "ok" /\ calls[h].asked.counts /\ ~calls[h].asked.token THEN 1 ELSE 0
  /\ LET cards == Cards("origin")
     IN /\ CardLimit >= 2 => Newest("origin") \subseteq cards
        /\ \A s \in cards \ Newest("origin") : \E d \in DOMAIN daily : d[2] = s /\ d[3] >= CutoffDay
        /\ Cardinality(cards) <= CardLimit
  /\ Cardinality(recent) <= MaxRecent
=============================================================================
