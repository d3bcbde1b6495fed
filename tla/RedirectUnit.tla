---------------------------- MODULE RedirectUnit ----------------------------
(***************************************************************************)
(* The unit that opens purchase links (src/src/redirect-service.ts,        *)
(* redirect-index.ts, and resolveCostamarRedirectForRequest of             *)
(* local-costamar.ts). It reads the rows the web unit saves, which may not *)
(* be there yet, and gives the browser to Click and Book Plus with a token *)
(* it can show, renewing and trying it on the site where it must, within a *)
(* deadline of its own; a renewal is shared and outlives who waits for it. *)
(*                                                                         *)
(* Who may ask, texts, pages and the parts of a URL are left out.          *)
(***************************************************************************)
EXTENDS Integers, FiniteSets

CONSTANTS
  Redirect,        \* requests of a browser
  LookupLimit,     \* FLY_DESK_REDIRECT_CACHE_LOOKUP_TIMEOUT_MS
  TotalLimit,      \* CBPLUS_REDIRECT_TOTAL_TIMEOUT_MS
  LinkTTL,         \* COMPLETED_SEARCH_SESSION_TTL_MS
  TrustUsable,     \* CBPLUS_REDIRECT_TRUST_USABLE_TOKEN
  DrainLimit, ExitLimit,   \* SHUTDOWN_DRAIN_MS, SHUTDOWN_DEADLINE_MS
  MaxMoment        \* bound of the clock

ASSUME RedirectAssumption ==
  /\ {LookupLimit, TotalLimit, LinkTTL, DrainLimit, ExitLimit, MaxMoment} \subseteq Nat
  /\ TrustUsable \in BOOLEAN
  /\ DrainLimit <= ExitLimit

VARIABLES
  moment,
  link,            \* the row of the link that is asked for, as it is saved
  shown,           \* the token the unit would use now
  warmUp,          \* whether a renewal is pending
  redirects,       \* what each request has come to
  unitStop         \* when the unit was told to stop, and whether it has

redirectVars == <<moment, link, shown, warmUp, redirects, unitStop>>

(* A link is saved with its path; "nobody" when its job is not (any more). *)
NoLink == [job |-> "nobody", kind |-> "empty", url |-> "unreadable", exact |-> FALSE, idle |-> 0]

NoToken == [kind |-> "none", until |-> 0]
Shows(t) == t.kind = "opaque" \/ (t.kind = "dated" /\ t.until > moment)
NearEnd(t) == t.kind = "dated" /\ t.until = moment + 1

Idle == [at |-> "idle", since |-> 0, row |-> NoLink, token |-> NoToken,
         renewed |-> FALSE, code |-> 0, sent |-> "nowhere"]
Told(r, c) == [Idle EXCEPT !.at = "told", !.code = c]
(* A browser is sent on, with the token if it can still be shown: one that *)
(* ends while the site tries it is left out.                               *)
Sent(r, accepted) ==
  [Told(r, 302) EXCEPT !.sent =
     IF r.row.kind # "costamar" THEN "elsewhere"
     ELSE IF r.row.url # "ours" THEN "foreign"
     ELSE IF Shows(r.token) THEN "in" ELSE IF accepted THEN "bare" ELSE "unproved"]
Waits(r, where) == [r EXCEPT !.at = where]
Pending(q) == redirects[q].at \in {"looking", "warming", "trying"}

IsUp == unitStop.stopped = FALSE

(* isExpiredRedirectRecord; the unit only reads, so following a link keeps *)
(* no search alive.                                                        *)
LinkExpired(row) == row.idle > 0 /\ LinkTTL > 0 /\ moment - row.idle > LinkTTL

(* costamarRedirectRequestFromUrl: from the URL, or from the exact search  *)
(* it was saved with.                                                      *)
Rebuilt(row) == row.url # "unreadable" \/ row.exact
(* isAllowedCostamarBrandedSearchLocation *)
Allowed(row) == row.url = "ours"

(* verifyCostamarRedirectCandidate: only a token that can be shown is      *)
(* tried. resolveCostamarRedirectForRequest renews what cannot be used or  *)
(* is near its end, and tries what it then has.                            *)
AwaitsToken(r) == [Waits(r, "warming") EXCEPT !.renewed = TRUE, !.token = NoToken]
Tries(r) == IF Shows(r.token) THEN Waits(r, "trying") ELSE Told(r, 409)
Resolves(r) ==
  IF ~Shows(r.token) \/ NearEnd(r.token) THEN AwaitsToken(r)
  ELSE Tries(r)

(* What is resolved is the search of the row: when it was last in use, and *)
(* by which job, no longer matters.                                        *)
Target(row) == [NoLink EXCEPT !.kind = row.kind, !.url = row.url]

(* Mutant: a token that can be shown is enough. *)
DecidedByToken(r) ==
  IF TrustUsable /\ Shows(r.token) THEN Sent(r, FALSE)
  ELSE IF ~Rebuilt(r.row) \/ ~Allowed(r.row) THEN Told(r, 409)
  ELSE Resolves([r EXCEPT !.since = moment, !.row = Target(r.row)])

(* resolveRedirectResponse, of a Click and Book Plus search.               *)
Decided(r) ==
  IF ~Rebuilt(r.row) \/ ~Allowed(r.row) THEN Told(r, 409)
  ELSE IF TrustUsable /\ Shows(r.token) THEN Sent(r, FALSE)
  ELSE Resolves([r EXCEPT !.since = moment, !.row = Target(r.row)])

Followed(r) ==
  IF LinkExpired(r.row) THEN Told(r, 404)
  ELSE CASE r.row.kind = "costamar" -> Decided([r EXCEPT !.token = shown])
         [] r.row.kind = "other" -> Sent(r, FALSE)
         [] r.row.kind = "text" -> Told(r, 200)
         [] OTHER -> Told(r, 410)

(* A renewal begins with whoever needs one, unless one is pending.         *)
Moved(q, r) ==
  /\ redirects' = [redirects EXCEPT ![q] = r]
  /\ warmUp' = (warmUp \/ r.at = "warming")

Arrive(q) ==
  /\ redirects[q].at = "idle" /\ unitStop.at = 0
  /\ redirects' = [redirects EXCEPT ![q] = [Waits(@, "looking") EXCEPT !.since = moment]]
  /\ UNCHANGED <<moment, link, shown, warmUp, unitStop>>

(* readStoredRedirectRecord, again and again until the deadline.           *)
LookUp(q) ==
  /\ redirects[q].at = "looking" /\ IsUp
  /\ \/ link.job # "nobody" /\ Moved(q, Followed([redirects[q] EXCEPT !.row = link]))
     \/ link.job = "nobody" /\ moment >= redirects[q].since + LookupLimit /\ Moved(q, Told(redirects[q], 404))
     \/ Moved(q, Told(redirects[q], 503))        \* the file cannot be read
  /\ UNCHANGED <<moment, link, shown, unitStop>>

(* warmCostamarRedirectContext, modelled in CostamarSession: it ends with  *)
(* the latest token there is, a new one or not, for all who wait.          *)
Warmed(token) ==
  [q \in Redirect |->
     IF redirects[q].at # "warming" THEN redirects[q]
     ELSE Tries([redirects[q] EXCEPT !.token = token])]
WarmUpEnds ==
  /\ warmUp /\ IsUp
  /\ \E token \in {shown, [kind |-> "dated", until |-> moment + 2]} :
       shown' = token /\ redirects' = Warmed(token)
  /\ warmUp' = FALSE
  /\ UNCHANGED <<moment, link, unitStop>>

(* The site accepts the token, refuses it or does not answer; one that was *)
(* not renewed yet is renewed and tried again.                             *)
SiteAnswers(q, accepted) ==
  LET r == redirects[q]
  IN /\ r.at = "trying" /\ IsUp
     /\ Moved(q, IF accepted THEN Sent(r, TRUE)
                 ELSE IF r.renewed THEN Told(r, 409)
                 ELSE AwaitsToken(r))
     /\ UNCHANGED <<moment, link, shown, unitStop>>

(* withCostamarRedirectTotalTimeout: who waits is told, what runs goes on. *)
TotalEnds(q) ==
  /\ redirects[q].at \in {"warming", "trying"} /\ moment >= redirects[q].since + TotalLimit
  /\ Moved(q, Told(redirects[q], 409))
  /\ UNCHANGED <<moment, link, shown, unitStop>>

(* The web unit saves, keeps in use and deletes the row and its job.       *)
SaveLink ==
  /\ link = NoLink
  /\ \E row \in [job : {"search", "nobody"}, kind : {"costamar"}, url : {"ours", "foreign", "unreadable"},
                 exact : {FALSE}, idle : {moment}]
              \union [job : {"matrix"}, kind : {"costamar", "other", "text", "empty"}, url : {"unreadable"},
                      exact : {TRUE}, idle : {moment}] : link' = row
  /\ UNCHANGED <<moment, shown, warmUp, redirects, unitStop>>
DeleteLink ==
  /\ link # NoLink /\ link' = NoLink
  /\ UNCHANGED <<moment, shown, warmUp, redirects, unitStop>>

(* recoverCachedCostamarPurchasePaths: a search that is asked again keeps  *)
(* the links of its offers, and builds those they lack.                    *)
ReuseLink ==
  /\ link # NoLink
  /\ link' = [link EXCEPT !.idle = moment, !.job = "search",
                          !.kind = IF @ = "empty" THEN "costamar" ELSE @]
  /\ link' # link
  /\ UNCHANGED <<moment, shown, warmUp, redirects, unitStop>>

(* Another process gets a token, this one's browsers lose theirs.          *)
TokenChanges ==
  /\ \E token \in {[kind |-> "foreign", until |-> 0], [kind |-> "opaque", until |-> 0],
                   [kind |-> "dated", until |-> moment + 1]} : shown' = token
  /\ shown' # shown
  /\ UNCHANGED <<moment, link, warmUp, redirects, unitStop>>

(* redirect-index.ts: no connection is accepted any more; those that are   *)
(* open have a while, and then, or by the deadline, the process exits.     *)
SignalUnit ==
  /\ unitStop.at = 0 /\ moment > 0
  /\ unitStop' = [unitStop EXCEPT !.at = moment]
  /\ UNCHANGED <<moment, link, shown, warmUp, redirects>>
UnitExits ==
  /\ unitStop.at > 0 /\ IsUp
  /\ moment >= unitStop.at + DrainLimit \/ \A q \in Redirect : ~Pending(q)
  /\ unitStop' = [unitStop EXCEPT !.stopped = TRUE]
  /\ redirects' = [q \in Redirect |-> IF Pending(q) THEN Told(redirects[q], 0) ELSE redirects[q]]
  /\ UNCHANGED <<moment, link, shown, warmUp>>

(* Timers fire before time goes on.                                        *)
TimerIsDue ==
  \/ \E q \in Redirect :
       \/ redirects[q].at = "looking" /\ moment >= redirects[q].since + LookupLimit
       \/ redirects[q].at # "looking" /\ Pending(q) /\ moment >= redirects[q].since + TotalLimit
  \/ unitStop.at > 0 /\ IsUp /\ moment >= unitStop.at + ExitLimit
MomentPasses ==
  /\ moment < MaxMoment /\ ~TimerIsDue
  /\ moment' = moment + 1
  /\ UNCHANGED <<link, shown, warmUp, redirects, unitStop>>

RedirectInit ==
  /\ moment = 0 /\ link = NoLink /\ shown = NoToken /\ warmUp = FALSE
  /\ redirects = [q \in Redirect |-> Idle]
  /\ unitStop = [at |-> 0, stopped |-> FALSE]

RedirectNext ==
  \/ \E q \in Redirect :
       \/ Arrive(q) \/ LookUp(q) \/ TotalEnds(q)
       \/ \E accepted \in BOOLEAN : SiteAnswers(q, accepted)
  \/ WarmUpEnds \/ SaveLink \/ DeleteLink \/ ReuseLink \/ TokenChanges
  \/ SignalUnit \/ UnitExits \/ MomentPasses

RedirectSpec == RedirectInit /\ [][RedirectNext]_redirectVars

---------------------------------------------------------------------------
(* A browser is only given to a search of ours, and with a token that was  *)
(* good when it was chosen or that the site accepted meanwhile; and nobody *)
(* waits longer than the lookup and the total deadline, whatever a sign-in *)
(* or the site do.                                                         *)
LinksOpenOurSearch ==
  \A q \in Redirect :
    LET r == redirects[q]
    IN /\ r.sent \in {"nowhere", "elsewhere", "in", "bare"}
       /\ Pending(q) => moment <= r.since + (IF r.at = "looking" THEN LookupLimit ELSE TotalLimit)
=============================================================================
