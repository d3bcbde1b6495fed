----------------------------- MODULE DeskProofs -----------------------------
(***************************************************************************)
(* What the units promise between a request and a page: who is signed in   *)
(* is so by a sign-in and by work (WebSession), who was told to wait waits *)
(* (LoginAdmission), purchase links open our own searches in time          *)
(* (RedirectUnit), a quote is a price its provider said of late            *)
(* (Quotation), what is loaded once for several is whole and recent        *)
(* (LocationCache, AirlineMarks), a cell of the board never gets worse     *)
(* (MatrixBoard), a search is counted once, with the cards of whoever asks *)
(* (RunnerProxy over LocationUsage), and what a flexible search asks the   *)
(* providers for is what was posted and validated (FlexibleDates). Each    *)
(* has an inductive invariant of its own, for any requests, times and      *)
(* limits; those of the page are in PageProofs. The last theorem is that a *)
(* step of the desk is, for each of its parts, a step of its own or none,  *)
(* so what is proved of each holds of the desk that the run checks.        *)
(***************************************************************************)
EXTENDS PageProofs

-----------------------------------------------------------------------------
(* WHO IS SIGNED IN                                                        *)

CookieRecord == [issued : Int, expires : Int]
SetsRecord == [writes : SUBSET {"session", "link"}, jar : CookieRecord, link : Int]
WebRequestRecord ==
  [kind : Kind \cup {"none"}, stage : {"none", "sent", "answered"}, cookie : CookieRecord, sets : SetsRecord]

(* A cookie of a sign-in, within its cap and within a window of the work.  *)
CookieIsRight(cookie, ins, worked) ==
  cookie # NoCookie =>
    /\ cookie.issued \in ins
    /\ cookie.expires <= cookie.issued + MaxLifetime
    /\ cookie.expires <= worked + SessionTTL

(* That of the links, within a window of the work and by some cap.          *)
LinkIsRight(ends, ins, worked) ==
  /\ ends <= worked + SessionTTL
  /\ ends # 0 => \E s \in ins : ends <= s + Longer(SessionTTL, MaxLifetime)

SetsAreRight(sets, ins, worked) ==
  /\ "session" \in sets.writes => CookieIsRight(sets.jar, ins, worked)
  /\ "link" \in sets.writes => LinkIsRight(sets.link, ins, worked)

WebIInv ==
  /\ time \in Nat /\ workedAt \in Nat /\ workedAt <= time
  /\ signIns \in SUBSET Int
  /\ jar \in CookieRecord /\ linkJar \in Int
  /\ request \in [WebRequest -> WebRequestRecord]
  /\ CookieIsRight(jar, signIns, workedAt) /\ LinkIsRight(linkJar, signIns, workedAt)
  /\ \A r \in WebRequest :
       /\ CookieIsRight(request[r].cookie, signIns, workedAt)
       /\ SetsAreRight(request[r].sets, signIns, workedAt)

(* Nothing is set by what sets nothing, and no cookie is right. *)
LEMMA NothingIsRight ==
  ASSUME NEW ins, NEW worked \in Nat
  PROVE  /\ NoCookie \in CookieRecord /\ SetsNothing \in SetsRecord /\ SignedOut \in SetsRecord
         /\ NoRequest \in WebRequestRecord /\ NoRequest.cookie = NoCookie /\ NoRequest.sets = SetsNothing
         /\ CookieIsRight(NoCookie, ins, worked) /\ LinkIsRight(0, ins, worked)
         /\ SetsAreRight(SetsNothing, ins, worked) /\ SetsAreRight(SignedOut, ins, worked)
<1>1. NoCookie \in CookieRecord
  BY DEF NoCookie, CookieRecord
<1>2. SetsNothing \in SetsRecord /\ SetsNothing.writes = {}
  BY <1>1 DEF SetsNothing, Sets, SetsRecord
<1>3. SignedOut \in SetsRecord /\ SignedOut.jar = NoCookie /\ SignedOut.link = 0
  BY <1>1 DEF SignedOut, Sets, SetsRecord
<1>4. NoRequest \in WebRequestRecord /\ NoRequest.cookie = NoCookie /\ NoRequest.sets = SetsNothing
  BY <1>1, <1>2 DEF NoRequest, WebRequestRecord
<1>5. CookieIsRight(NoCookie, ins, worked)
  BY DEF CookieIsRight
<1>6. LinkIsRight(0, ins, worked)
  BY WebSessionAssumption DEF LinkIsRight
<1> QED
  BY <1>1, <1>2, <1>3, <1>4, <1>5, <1>6 DEF SetsAreRight

(* What was right stays so after more sign-ins and later work. *)
LEMMA RightStaysRight ==
  ASSUME NEW ins \in SUBSET Int, NEW later \in SUBSET Int, ins \subseteq later,
         NEW worked \in Nat, NEW again \in Nat, worked <= again
  PROVE  /\ \A cookie \in CookieRecord : CookieIsRight(cookie, ins, worked) => CookieIsRight(cookie, later, again)
         /\ \A ends \in Int : LinkIsRight(ends, ins, worked) => LinkIsRight(ends, later, again)
         /\ \A sets \in SetsRecord : SetsAreRight(sets, ins, worked) => SetsAreRight(sets, later, again)
<1>1. ASSUME NEW cookie \in CookieRecord, CookieIsRight(cookie, ins, worked)
      PROVE  CookieIsRight(cookie, later, again)
  BY <1>1, WebSessionAssumption DEF CookieIsRight, CookieRecord
<1>3. ASSUME NEW ends \in Int, LinkIsRight(ends, ins, worked)
      PROVE  LinkIsRight(ends, later, again)
  <2>1. ends <= again + SessionTTL
    BY <1>3, WebSessionAssumption DEF LinkIsRight
  <2> QED
    BY <1>3, <2>1 DEF LinkIsRight
<1>2. ASSUME NEW sets \in SetsRecord, SetsAreRight(sets, ins, worked)
      PROVE  SetsAreRight(sets, later, again)
  <2>1. sets.jar \in CookieRecord /\ sets.link \in Int
    BY DEF SetsRecord
  <2>2. "session" \in sets.writes => CookieIsRight(sets.jar, later, again)
    BY <1>1, <1>2, <2>1 DEF SetsAreRight
  <2>3. "link" \in sets.writes => LinkIsRight(sets.link, later, again)
    BY <1>2, <1>3, <2>1 DEF SetsAreRight
  <2> QED
    BY <2>2, <2>3 DEF SetsAreRight
<1> QED
  BY <1>1, <1>2, <1>3

(* The invariant is kept when one request is replaced by another that is   *)
(* right, with the sign-ins and the work as they are then.                 *)
LEMMA OneWebRequestChanges ==
  ASSUME WebIInv, NEW r \in WebRequest, NEW other \in WebRequestRecord,
         request' = [request EXCEPT ![r] = other],
         signIns' \in SUBSET Int, signIns \subseteq signIns',
         workedAt' \in Nat, workedAt <= workedAt', workedAt' <= time, time' = time,
         jar' \in CookieRecord, CookieIsRight(jar', signIns', workedAt'),
         linkJar' \in Int, LinkIsRight(linkJar', signIns', workedAt'),
         CookieIsRight(other.cookie, signIns', workedAt'),
         SetsAreRight(other.sets, signIns', workedAt')
  PROVE  WebIInv'
<1> USE DEF WebIInv
<1>1. /\ request' \in [WebRequest -> WebRequestRecord]
      /\ \A q \in WebRequest : request'[q] = IF q = r THEN other ELSE request[q]
  OBVIOUS
<1>2. ASSUME NEW q \in WebRequest
      PROVE  /\ CookieIsRight(request'[q].cookie, signIns', workedAt')
             /\ SetsAreRight(request'[q].sets, signIns', workedAt')
  <2>1. CASE q = r
    BY <1>1, <2>1
  <2>2. CASE q # r
    <3>1. request[q].cookie \in CookieRecord /\ request[q].sets \in SetsRecord
      BY DEF WebRequestRecord
    <3>2. /\ \A cookie \in CookieRecord :
               CookieIsRight(cookie, signIns, workedAt) => CookieIsRight(cookie, signIns', workedAt')
          /\ \A sets \in SetsRecord :
               SetsAreRight(sets, signIns, workedAt) => SetsAreRight(sets, signIns', workedAt')
      BY RightStaysRight
    <3> QED
      BY <1>1, <2>2, <3>1, <3>2
  <2> QED
    BY <2>1, <2>2
<1> QED
  BY <1>1, <1>2

(* A response: what it sets is right of the work it was answered for. *)
LEMMA RespondIsRight ==
  ASSUME WebIInv, NEW r \in WebRequest, NEW sets \in SetsRecord, Respond(r, sets),
         signIns' \in SUBSET Int, signIns \subseteq signIns',
         workedAt' \in Nat, workedAt <= workedAt', workedAt' <= time,
         UNCHANGED <<time, jar, linkJar>>, SetsAreRight(sets, signIns', workedAt')
  PROVE  WebIInv'
<1> USE DEF WebIInv
<1> DEFINE other == [request[r] EXCEPT !.stage = "answered", !.sets = sets]
<1>1. other \in WebRequestRecord /\ other.cookie = request[r].cookie /\ other.sets = sets
  BY DEF WebRequestRecord
<1>2. request' = [request EXCEPT ![r] = other]
  BY DEF Respond
<1> HIDE DEF other
<1>3. request[r].cookie \in CookieRecord
  BY DEF WebRequestRecord
<1>4. /\ CookieIsRight(request[r].cookie, signIns', workedAt') /\ CookieIsRight(jar', signIns', workedAt')
      /\ LinkIsRight(linkJar', signIns', workedAt')
  BY <1>3, RightStaysRight
<1> QED
  BY <1>1, <1>2, <1>4, OneWebRequestChanges

(* A browser with no cookie and nothing asked is right.                    *)
LEMMA WebInitOK == WebInit => WebIInv
<1> SUFFICES ASSUME WebInit PROVE WebIInv
  OBVIOUS
<1>1. \A r \in WebRequest : request[r] = NoRequest
  BY DEF WebInit
<1>2. time \in Nat /\ workedAt \in Nat /\ workedAt <= time /\ signIns \in SUBSET Int
      /\ jar = NoCookie /\ linkJar = 0 /\ request \in [WebRequest -> WebRequestRecord]
  BY <1>1, NothingIsRight DEF WebInit
<1>3. /\ jar \in CookieRecord /\ linkJar \in Int
      /\ CookieIsRight(jar, signIns, workedAt) /\ LinkIsRight(linkJar, signIns, workedAt)
  BY <1>2, NothingIsRight
<1>4. \A r \in WebRequest :
        /\ CookieIsRight(request[r].cookie, signIns, workedAt)
        /\ SetsAreRight(request[r].sets, signIns, workedAt)
  BY <1>1, <1>2, NothingIsRight
<1> QED
  BY <1>2, <1>3, <1>4, Zenon DEF WebIInv

(* A request takes the cookie of the browser with it (fetch).              *)
LEMMA SendStep == ASSUME WebIInv, NEW r \in WebRequest, Send(r) PROVE WebIInv'
<1> USE DEF WebIInv
<1>1. PICK kind \in Kind :
        request' = [request EXCEPT ![r] = [NoRequest EXCEPT !.kind = kind, !.stage = "sent", !.cookie = jar]]
  BY DEF Send
<1> DEFINE other == [NoRequest EXCEPT !.kind = kind, !.stage = "sent", !.cookie = jar]
<1>2. other \in WebRequestRecord /\ other.cookie = jar /\ other.sets = SetsNothing
  BY NothingIsRight DEF WebRequestRecord
<1>3. request' = [request EXCEPT ![r] = other] /\ UNCHANGED <<time, jar, linkJar, signIns, workedAt>>
  BY <1>1 DEF Send
<1> HIDE DEF other
<1> QED
  BY <1>2, <1>3, NothingIsRight, OneWebRequestChanges

(* A sign-in, or its refusal (handleLogin): a new cookie is of this        *)
(* moment.                                                                 *)
LEMMA AnswerLoginStep == ASSUME WebIInv, NEW r \in WebRequest, AnswerLogin(r) PROVE WebIInv'
<1> USE DEF WebIInv
<1>1. UNCHANGED <<time, jar, linkJar>>
  BY DEF AnswerLogin
<1>2. CASE Respond(r, SignedIn) /\ signIns' = signIns \union {time} /\ workedAt' = time
  <2>1. SlidingExpiry(time) \in Int /\ SlidingExpiry(time) <= time + SessionTTL
        /\ SlidingExpiry(time) <= time + MaxLifetime
    BY WebSessionAssumption DEF SlidingExpiry, Sooner
  <2>1a. LinkIsRight(time + SessionTTL, signIns', workedAt')
    BY <1>2, WebSessionAssumption DEF LinkIsRight, Longer
  <2> DEFINE cookie == [issued |-> time, expires |-> SlidingExpiry(time)]
  <2>2. cookie \in CookieRecord /\ CookieIsRight(cookie, signIns', workedAt')
    BY <1>2, <2>1 DEF CookieRecord, CookieIsRight
  <2>3. SignedIn = Sets({"session", "link"}, cookie, time + SessionTTL)
    BY DEF SignedIn
  <2> HIDE DEF cookie
  <2>4. SignedIn \in SetsRecord /\ SetsAreRight(SignedIn, signIns', workedAt')
    BY <2>1a, <2>2, <2>3, WebSessionAssumption DEF Sets, SetsRecord, SetsAreRight
  <2>5. /\ signIns' \in SUBSET Int /\ signIns \subseteq signIns'
        /\ workedAt' \in Nat /\ workedAt <= workedAt' /\ workedAt' <= time
    BY <1>2
  <2> QED
    BY <1>1, <1>2, <2>4, <2>5, RespondIsRight
<1>3. CASE Respond(r, SetsNothing) /\ UNCHANGED <<signIns, workedAt>>
  BY <1>1, <1>3, NothingIsRight, RespondIsRight
<1> QED
  BY <1>2, <1>3 DEF AnswerLogin

(* A logout clears cookies and sets none.                                  *)
LEMMA AnswerLogoutStep == ASSUME WebIInv, NEW r \in WebRequest, AnswerLogout(r) PROVE WebIInv'
BY NothingIsRight, RespondIsRight DEF AnswerLogout, WebIInv

(* A request of somebody signed in renews the cookie it came with, within  *)
(* the cap of its sign-in; with a bad one it sets none.                    *)
LEMMA AnswerRequestStep == ASSUME WebIInv, NEW r \in WebRequest, AnswerRequest(r) PROVE WebIInv'
<1> USE DEF WebIInv
<1> DEFINE cookie == request[r].cookie
           kind == request[r].kind
<1>1. /\ cookie \in CookieRecord /\ CookieIsRight(cookie, signIns, workedAt)
      /\ UNCHANGED <<time, jar, linkJar, signIns>> /\ Respond(r, AnsweredWith(kind, cookie))
      /\ workedAt' = IF kind # "passive" /\ Signed(cookie) THEN time ELSE workedAt
  BY DEF AnswerRequest, WebRequestRecord
<1> HIDE DEF cookie, kind
<1>2. workedAt' \in Nat /\ workedAt <= workedAt' /\ workedAt' <= time
  BY <1>1
<1>3. CASE kind # "passive" /\ Renews(cookie)
  <2>1. /\ Signed(cookie) /\ workedAt' = time /\ AnsweredWith(kind, cookie) = Renewal(cookie)
        /\ cookie # NoCookie
    BY <1>1, <1>3 DEF Renews, AnsweredWith, Signed, NoCookie
  <2>2. /\ SlidingExpiry(cookie.issued) \in Int /\ SlidingExpiry(cookie.issued) <= time + SessionTTL
        /\ SlidingExpiry(cookie.issued) <= cookie.issued + MaxLifetime
    BY <1>1, WebSessionAssumption DEF SlidingExpiry, Sooner, CookieRecord
  <2> DEFINE expires == SlidingExpiry(cookie.issued)
             renewed == [cookie EXCEPT !.expires = expires]
  <2>3. renewed \in CookieRecord /\ renewed.issued = cookie.issued /\ renewed.expires = expires
    BY <1>1, <2>2 DEF CookieRecord
  <2>4. CookieIsRight(renewed, signIns, workedAt')
    BY <1>1, <2>1, <2>2, <2>3 DEF CookieIsRight
  <2>5. Renewal(cookie) = Sets({"session", "link"}, renewed, expires) /\ expires <= workedAt' + SessionTTL
    BY <2>1, <2>2 DEF Renewal
  <2>5a. LinkIsRight(expires, signIns, workedAt')
    <3>1. cookie.issued \in signIns /\ cookie.issued \in Int
      BY <1>1, <2>1 DEF CookieIsRight, CookieRecord
    <3>2. expires <= cookie.issued + Longer(SessionTTL, MaxLifetime)
      BY <2>2, <3>1, WebSessionAssumption DEF Longer
    <3> QED
      BY <2>5, <3>1, <3>2 DEF LinkIsRight
  <2> HIDE DEF renewed, expires
  <2>6. Renewal(cookie) \in SetsRecord /\ SetsAreRight(Renewal(cookie), signIns, workedAt')
    BY <2>2, <2>3, <2>4, <2>5, <2>5a DEF Sets, SetsRecord, SetsAreRight, expires
  <2> QED
    BY <1>1, <1>2, <2>1, <2>6, RespondIsRight
<1>4. CASE ~(kind # "passive" /\ Renews(cookie)) /\ kind = "session" /\ Signed(cookie)
  <2>1. AnsweredWith(kind, cookie) = Sets({"link"}, NoCookie, cookie.expires) /\ cookie # NoCookie
    BY <1>4 DEF AnsweredWith, Signed, NoCookie
  <2>2. cookie.expires \in Int /\ LinkIsRight(cookie.expires, signIns, workedAt')
    <3>1. /\ cookie.issued \in signIns /\ cookie.issued \in Int /\ cookie.expires \in Int
          /\ cookie.expires <= cookie.issued + MaxLifetime /\ cookie.expires <= workedAt + SessionTTL
      BY <1>1, <2>1 DEF CookieIsRight, CookieRecord
    <3>2. cookie.expires <= cookie.issued + Longer(SessionTTL, MaxLifetime)
      BY <3>1, WebSessionAssumption DEF Longer
    <3>3. cookie.expires <= workedAt' + SessionTTL
      BY <1>2, <3>1, WebSessionAssumption
    <3> QED
      BY <3>1, <3>2, <3>3 DEF LinkIsRight
  <2>3. /\ AnsweredWith(kind, cookie) \in SetsRecord
        /\ SetsAreRight(AnsweredWith(kind, cookie), signIns, workedAt')
    BY <2>1, <2>2, NothingIsRight DEF Sets, SetsRecord, SetsAreRight
  <2> QED
    BY <1>1, <1>2, <2>3, RespondIsRight
<1>5. CASE ~(kind # "passive" /\ Renews(cookie)) /\ ~(kind = "session" /\ Signed(cookie))
  <2>1. AnsweredWith(kind, cookie) = SetsNothing
    BY <1>5 DEF AnsweredWith
  <2> QED
    BY <1>1, <1>2, <2>1, NothingIsRight, RespondIsRight
<1> QED
  BY <1>3, <1>4, <1>5

(* The browser takes what an answer sets, or never receives it.            *)
LEMMA ResponseStep ==
  ASSUME WebIInv, NEW r \in WebRequest, ResponseArrives(r) \/ ResponseLost(r)
  PROVE  WebIInv'
<1> USE DEF WebIInv
<1>1. request[r].sets \in SetsRecord /\ SetsAreRight(request[r].sets, signIns, workedAt)
  BY DEF WebRequestRecord
<1>2. /\ jar' \in CookieRecord /\ CookieIsRight(jar', signIns, workedAt)
      /\ linkJar' \in Int /\ LinkIsRight(linkJar', signIns, workedAt)
  BY <1>1 DEF ResponseArrives, ResponseLost, SetsRecord, SetsAreRight
<1>3. request' = [request EXCEPT ![r] = NoRequest] /\ UNCHANGED <<time, signIns, workedAt>>
  BY DEF ResponseArrives, ResponseLost
<1> QED
  BY <1>2, <1>3, NothingIsRight, OneWebRequestChanges

(* Every step of the browser and the web unit keeps its invariant.         *)
LEMMA WebStep == ASSUME WebIInv, [WebNext]_webVars PROVE WebIInv'
<1>1. CASE UNCHANGED webVars
  BY <1>1 DEF webVars, WebIInv
<1>2. CASE TimePasses
  BY <1>2 DEF TimePasses, WebIInv
<1>3. ASSUME NEW r \in WebRequest,
             Send(r) \/ AnswerLogin(r) \/ AnswerLogout(r) \/ AnswerRequest(r) \/ ResponseArrives(r) \/ ResponseLost(r)
      PROVE  WebIInv'
  BY <1>3, SendStep, AnswerLoginStep, AnswerLogoutStep, AnswerRequestStep, ResponseStep
<1> QED
  BY <1>1, <1>2, <1>3 DEF WebNext

(* A browser's session cookie is of a sign-in and ends at its cap and a     *)
(* window after the last work; that of the links ends a window after the    *)
(* last work and by a cap, or a window, of some sign-in: in whatever order  *)
(* responses reach the browser (web-auth.ts).                               *)
THEOREM SessionsEndInTime == WebSpec => []SessionsEnd
<1>1. WebIInv /\ [WebNext]_webVars => WebIInv'
  BY WebStep
<1>2. WebIInv => SessionsEnd
  BY DEF WebIInv, CookieIsRight, LinkIsRight, SessionsEnd
<1> QED
  BY <1>1, <1>2, WebInitOK, PTL DEF WebSpec

-----------------------------------------------------------------------------
(* PURCHASE LINKS                                                          *)

LinkRecord ==
  [job : {"search", "matrix", "nobody"}, kind : {"costamar", "other", "text", "empty"},
   url : {"ours", "foreign", "unreadable"}, exact : BOOLEAN, idle : Int]
TokenRecord == [kind : {"none", "foreign", "opaque", "dated"}, until : Int]
RedirectRecord ==
  [at : {"idle", "looking", "warming", "trying", "told"}, since : Int, row : LinkRecord,
   token : TokenRecord, renewed : BOOLEAN, code : Int,
   sent : {"nowhere", "elsewhere", "in", "bare"}]

(* A request that waits is in time, and one that tries a token, or waits   *)
(* for one, is for a search of ours.                                       *)
RedirectIsRight(r, now) ==
  /\ r \in RedirectRecord
  /\ r.at = "looking" => now <= r.since + LookupLimit
  /\ r.at \in {"warming", "trying"} =>
       now <= r.since + TotalLimit /\ r.row.kind = "costamar" /\ r.row.url = "ours"

RedirectIInv ==
  /\ moment \in Nat /\ link \in LinkRecord /\ shown \in TokenRecord
  /\ \A q \in Redirect : RedirectIsRight(redirects[q], moment)
  /\ redirects = [q \in Redirect |-> redirects[q]]

(* What is told, or sent on, is right at any time. *)
LEMMA ToldIsRight ==
  ASSUME NEW r, NEW c \in Int, NEW now
  PROVE  /\ RedirectIsRight(Told(r, c), now)
         /\ Told(r, c) \in RedirectRecord /\ Told(r, c).at = "told"
<1>1. NoLink \in LinkRecord /\ NoToken \in TokenRecord
  BY DEF NoLink, LinkRecord, NoToken, TokenRecord
<1>2. Idle \in RedirectRecord
  BY <1>1 DEF Idle, RedirectRecord
<1>3. Told(r, c) \in RedirectRecord /\ Told(r, c).at = "told"
  BY <1>2 DEF Told, RedirectRecord
<1> QED
  BY <1>3 DEF RedirectIsRight

(* A request that is sent on goes to our search, with a token only if it   *)
(* can be shown or was accepted.                                           *)
LEMMA SentIsRight ==
  ASSUME NEW r \in RedirectRecord, NEW accepted \in BOOLEAN, NEW now,
         r.row.kind = "costamar" => r.row.url = "ours" /\ (accepted \/ Shows(r.token))
  PROVE  RedirectIsRight(Sent(r, accepted), now)
<1> DEFINE where == IF r.row.kind # "costamar" THEN "elsewhere"
                    ELSE IF Shows(r.token) THEN "in" ELSE "bare"
<1>1. Told(r, 302) \in RedirectRecord /\ RedirectIsRight(Told(r, 302), now) /\ Told(r, 302).at = "told"
  BY ToldIsRight
<1>2. Sent(r, accepted) = [Told(r, 302) EXCEPT !.sent = where]
  BY DEF Sent
<1>3. where \in {"nowhere", "elsewhere", "in", "bare"}
  OBVIOUS
<1> HIDE DEF where
<1>4. Sent(r, accepted) \in RedirectRecord /\ Sent(r, accepted).at = "told"
  BY <1>1, <1>2, <1>3 DEF RedirectRecord
<1> QED
  BY <1>4 DEF RedirectIsRight

(* A request that looked its link up, with the token that is shown then.   *)
LEMMA TriesIsRight ==
  ASSUME NEW r \in RedirectRecord, NEW now \in Int,
         r.row.kind = "costamar", r.row.url = "ours", now <= r.since + TotalLimit
  PROVE  RedirectIsRight(Tries(r), now)
<1>1. CASE Shows(r.token)
  <2>1. Tries(r) = [r EXCEPT !.at = "trying"]
    BY <1>1 DEF Tries, Waits
  <2>2. Tries(r) \in RedirectRecord /\ Tries(r).row = r.row /\ Tries(r).since = r.since
        /\ Tries(r).at = "trying"
    BY <2>1 DEF RedirectRecord
  <2> QED
    BY <2>2 DEF RedirectIsRight
<1>2. CASE ~Shows(r.token)
  BY <1>2, ToldIsRight DEF Tries
<1> QED
  BY <1>1, <1>2

(* A request that waits for a new token is of a row that was found, and in *)
(* time.                                                                   *)
LEMMA WarmsIsRight ==
  ASSUME NEW r \in RedirectRecord, NEW now \in Int,
         r.row.kind = "costamar", r.row.url = "ours", now <= r.since + TotalLimit
  PROVE  RedirectIsRight(AwaitsToken(r), now)
<1> DEFINE one == AwaitsToken(r)
<1>0. NoToken \in TokenRecord
  BY DEF NoToken, TokenRecord
<1>1. one = [r EXCEPT !.at = "warming", !.renewed = TRUE, !.token = NoToken]
  BY DEF AwaitsToken, Waits, RedirectRecord
<1>2. one \in RedirectRecord /\ one.row = r.row /\ one.since = r.since /\ one.at = "warming"
  BY <1>0, <1>1 DEF RedirectRecord
<1> QED
  BY <1>2 DEF RedirectIsRight

(* What follows the lookup of a row: told, sent on, warming or trying.     *)
LEMMA FollowedIsRight ==
  ASSUME RedirectIInv, NEW r \in RedirectRecord
  PROVE  RedirectIsRight(Followed(r), moment)
<1> USE DEF RedirectIInv
<1>1. CASE LinkExpired(r.row)
  BY <1>1, ToldIsRight DEF Followed
<1>2. CASE ~LinkExpired(r.row) /\ r.row.kind = "costamar"
  <2> DEFINE one == [r EXCEPT !.token = shown]
             atNow == [one EXCEPT !.since = moment, !.row = Target(one.row)]
  <2>1. one \in RedirectRecord /\ one.row = r.row
    BY DEF RedirectRecord
  <2>i. moment \in Int
    OBVIOUS
  <2>2. atNow \in RedirectRecord /\ atNow.since = moment
        /\ atNow.row.kind = one.row.kind /\ atNow.row.url = one.row.url
    <3> HIDE DEF one
    <3>1. one.row \in LinkRecord
      BY <2>1 DEF RedirectRecord
    <3>0. NoLink \in LinkRecord
      BY DEF NoLink, LinkRecord
    <3>2. Target(one.row) \in LinkRecord
      BY <3>0, <3>1 DEF Target, LinkRecord
    <3>3. Target(one.row).kind = one.row.kind /\ Target(one.row).url = one.row.url
      BY <3>0 DEF Target, LinkRecord
    <3> QED
      BY <2>1, <2>i, <3>2, <3>3 DEF RedirectRecord
  <2>3. Followed(r) = Decided(one)
    BY <1>2 DEF Followed
  <2> HIDE DEF one
  <2>t. RedirectIsRight(Told(one, 409), moment)
    BY ToldIsRight
  <2>4. CASE ~Rebuilt(one.row) \/ ~Allowed(one.row)
    BY <2>t, <2>3, <2>4 DEF Decided
  <2>5. CASE Rebuilt(one.row) /\ Allowed(one.row) /\ TrustUsable /\ Shows(one.token)
    <3>1. Followed(r) = Sent(one, FALSE)
      BY <2>3, <2>5 DEF Decided
    <3> QED
      BY <2>1, <2>5, <3>1, SentIsRight DEF Allowed
  <2>6. CASE Rebuilt(one.row) /\ Allowed(one.row) /\ ~(TrustUsable /\ Shows(one.token))
    <3>1. Followed(r) = Resolves(atNow)
      BY <2>3, <2>6 DEF Decided
    <3>3. moment <= atNow.since + TotalLimit
      BY <2>2, <2>i, RedirectAssumption
    <3>2. atNow.row.kind = "costamar" /\ atNow.row.url = "ours"
      BY <1>2, <2>1, <2>2, <2>6 DEF Allowed
    <3> HIDE DEF atNow
    <3> QED
      BY <2>2, <2>i, <3>1, <3>2, <3>3, TriesIsRight, WarmsIsRight DEF Resolves
  <2> QED
    BY <2>4, <2>5, <2>6
<1>3. CASE ~LinkExpired(r.row) /\ r.row.kind = "other"
  BY <1>3, SentIsRight DEF Followed
<1>4. CASE ~LinkExpired(r.row) /\ r.row.kind = "text"
  <2>1. Followed(r) = Told(r, 200)
    BY <1>4 DEF Followed
  <2> QED
    BY <2>1, ToldIsRight
<1>5. CASE ~LinkExpired(r.row) /\ r.row.kind = "empty"
  <2>1. Followed(r) = Told(r, 410)
    BY <1>5 DEF Followed
  <2> QED
    BY <2>1, ToldIsRight
<1> QED
  BY <1>1, <1>2, <1>3, <1>4, <1>5 DEF RedirectRecord, LinkRecord

(* The invariant is kept when one request is replaced by another. *)
LEMMA OneRedirectChanges ==
  ASSUME RedirectIInv, NEW q \in Redirect, NEW r, redirects' = [redirects EXCEPT ![q] = r],
         RedirectIsRight(r, moment), UNCHANGED <<moment, link, shown>>
  PROVE  RedirectIInv'
BY DEF RedirectIInv

(* With nothing asked, the invariant holds.                                *)
LEMMA RedirectInitOK == RedirectInit => RedirectIInv
<1>1. NoLink \in LinkRecord /\ NoToken \in TokenRecord
  BY DEF NoLink, LinkRecord, NoToken, TokenRecord
<1>2. Idle \in RedirectRecord /\ Idle.at = "idle"
  BY <1>1 DEF Idle, RedirectRecord
<1> QED
  BY <1>1, <1>2 DEF RedirectInit, RedirectIInv, RedirectIsRight

(* A request arrives and its time begins.                                  *)
LEMMA ArriveStep == ASSUME RedirectIInv, NEW q \in Redirect, Arrive(q) PROVE RedirectIInv'
<1> DEFINE r == [Waits(redirects[q], "looking") EXCEPT !.since = moment]
<1>1. redirects[q] \in RedirectRecord /\ moment \in Int
  BY DEF RedirectIInv, RedirectIsRight
<1>e. r = [redirects[q] EXCEPT !.at = "looking", !.since = moment]
  BY <1>1 DEF Waits, RedirectRecord
<1>h. {"looking"} \subseteq {"idle", "looking", "warming", "trying", "told"}
  OBVIOUS
<1> HIDE DEF r
<1>2. r \in RedirectRecord /\ r.at = "looking" /\ r.since = moment
  BY <1>1, <1>e, <1>h DEF RedirectRecord
<1>3. redirects' = [redirects EXCEPT ![q] = r] /\ UNCHANGED <<moment, link, shown>>
  BY DEF Arrive, RedirectIInv, r
<1>4. RedirectIsRight(r, moment)
  BY <1>1, <1>2, RedirectAssumption DEF RedirectIsRight
<1> QED
  BY <1>3, <1>4, OneRedirectChanges

(* The row is looked for (lookupRedirect); one that is not there yet       *)
(* waits.                                                                  *)
LEMMA LookUpStep == ASSUME RedirectIInv, NEW q \in Redirect, LookUp(q) PROVE RedirectIInv'
<1>1. redirects[q] \in RedirectRecord /\ link \in LinkRecord
  BY DEF RedirectIInv, RedirectIsRight
<1>2. [redirects[q] EXCEPT !.row = link] \in RedirectRecord
  BY <1>1 DEF RedirectRecord
<1>3. RedirectIsRight(Followed([redirects[q] EXCEPT !.row = link]), moment)
  BY <1>2, FollowedIsRight
<1>4. \A c \in Int : RedirectIsRight(Told(redirects[q], c), moment)
  BY ToldIsRight
<1> QED
  BY <1>3, <1>4, OneRedirectChanges DEF LookUp, Moved

(* The refresh of the token ends, with one or without, for all that wait   *)
(* for it.                                                                 *)
LEMMA WarmUpEndsStep == ASSUME RedirectIInv, WarmUpEnds PROVE RedirectIInv'
<1> USE DEF RedirectIInv
<1>1. PICK token \in {shown, [kind |-> "dated", until |-> moment + 2]} :
        shown' = token /\ redirects' = Warmed(token)
  BY DEF WarmUpEnds
<1>2. token \in TokenRecord /\ moment' = moment /\ link' = link
  BY DEF WarmUpEnds, TokenRecord
<1>3. ASSUME NEW q \in Redirect PROVE RedirectIsRight(redirects'[q], moment)
  <2>1. RedirectIsRight(redirects[q], moment) /\ redirects[q] \in RedirectRecord
    BY DEF RedirectIsRight
  <2>2. CASE redirects[q].at # "warming"
    BY <1>1, <2>1, <2>2 DEF Warmed
  <2>3. CASE redirects[q].at = "warming"
    <3> DEFINE r == [redirects[q] EXCEPT !.token = token]
    <3>1. /\ r \in RedirectRecord /\ r.row = redirects[q].row /\ r.since = redirects[q].since
      BY <1>2, <2>1 DEF RedirectRecord
    <3>2. redirects'[q] = Tries(r)
      BY <1>1, <2>3 DEF Warmed
    <3> HIDE DEF r
    <3>3. RedirectIsRight(Tries(r), moment)
      BY <2>1, <2>3, <3>1, TriesIsRight DEF RedirectIsRight
    <3> QED
      BY <3>2, <3>3
  <2> QED
    BY <2>2, <2>3
<1>4. redirects' = [q \in Redirect |-> redirects'[q]]
  BY <1>1 DEF Warmed
<1> QED
  BY <1>1, <1>2, <1>3, <1>4

(* The site accepts the token it is shown, or refuses it, and one that was *)
(* not renewed yet is.                                                     *)
LEMMA SiteAnswersStep ==
  ASSUME RedirectIInv, NEW q \in Redirect, NEW accepted \in BOOLEAN, SiteAnswers(q, accepted)
  PROVE  RedirectIInv'
<1> DEFINE r == redirects[q]
<1>1. /\ r \in RedirectRecord /\ r.at = "trying" /\ RedirectIsRight(r, moment) /\ moment \in Nat
      /\ moment <= r.since + TotalLimit /\ r.row.kind = "costamar" /\ r.row.url = "ours"
  BY DEF SiteAnswers, RedirectIInv, RedirectIsRight
<1>2. /\ UNCHANGED <<moment, link, shown>>
      /\ Moved(q, IF accepted THEN Sent(r, TRUE)
                  ELSE IF r.renewed THEN Told(r, 409)
                  ELSE AwaitsToken(r))
  BY DEF SiteAnswers
<1> HIDE DEF r
<1>3. RedirectIsRight(Sent(r, TRUE), moment)
  BY <1>1, SentIsRight
<1>4. RedirectIsRight(Told(r, 409), moment)
  BY ToldIsRight
<1>5. RedirectIsRight(AwaitsToken(r), moment)
  BY <1>1, WarmsIsRight
<1> QED
  BY <1>2, <1>3, <1>4, <1>5, OneRedirectChanges, ZenonT(60) DEF Moved

(* The total deadline of a request ends it.                                *)
LEMMA TotalEndsStep == ASSUME RedirectIInv, NEW q \in Redirect, TotalEnds(q) PROVE RedirectIInv'
<1>1. RedirectIsRight(Told(redirects[q], 409), moment)
  BY ToldIsRight
<1> QED
  BY <1>1, OneRedirectChanges DEF TotalEnds, Moved

(* The rows, the token and the unit change under the requests. *)
LEMMA RowsStep ==
  ASSUME RedirectIInv, SaveLink \/ DeleteLink \/ ReuseLink \/ TokenChanges
  PROVE  RedirectIInv'
<1> USE DEF RedirectIInv
<1>1. NoLink \in LinkRecord
  BY DEF NoLink, LinkRecord
<1>2. CASE SaveLink
  <2>1. PICK row \in [job : {"search", "nobody"}, kind : {"costamar"}, url : {"ours", "foreign", "unreadable"},
                      exact : {FALSE}, idle : {moment}]
                   \union [job : {"matrix"}, kind : {"costamar", "other", "text", "empty"}, url : {"unreadable"},
                           exact : {TRUE}, idle : {moment}] : link' = row
    BY <1>2 DEF SaveLink
  <2>2. row \in LinkRecord
    <3> moment \in Int
      OBVIOUS
    <3>1. CASE row \in [job : {"search", "nobody"}, kind : {"costamar"}, url : {"ours", "foreign", "unreadable"},
                        exact : {FALSE}, idle : {moment}]
      BY <3>1 DEF LinkRecord
    <3>2. CASE row \in [job : {"matrix"}, kind : {"costamar", "other", "text", "empty"}, url : {"unreadable"},
                        exact : {TRUE}, idle : {moment}]
      BY <3>2 DEF LinkRecord
    <3> QED
      BY <2>1, <3>1, <3>2
  <2> QED
    BY <1>2, <2>1, <2>2 DEF SaveLink
<1>3. CASE DeleteLink
  BY <1>1, <1>3 DEF DeleteLink
<1>4. CASE ReuseLink
  <2> DEFINE kind == IF link.kind = "empty" THEN "costamar" ELSE link.kind
  <2>1. kind \in {"costamar", "other", "text", "empty"}
    BY DEF LinkRecord
  <2>2. link' = [link EXCEPT !.idle = moment, !.job = "search", !.kind = kind]
    BY <1>4 DEF ReuseLink
  <2> HIDE DEF kind
  <2>3. link \in LinkRecord /\ moment \in Int
    OBVIOUS
  <2>4. link' \in LinkRecord
    BY <2>1, <2>2, <2>3 DEF LinkRecord
  <2> QED
    BY <1>4, <2>4 DEF ReuseLink
<1>5. CASE TokenChanges
  <2>1. shown' \in TokenRecord
    BY <1>5 DEF TokenChanges, TokenRecord
  <2> QED
    BY <1>5, <2>1 DEF TokenChanges
<1> QED
  BY <1>2, <1>3, <1>4, <1>5

(* The unit exits, and whoever waits is told so.                           *)
LEMMA UnitExitsStep == ASSUME RedirectIInv, UnitExits PROVE RedirectIInv'
<1> USE DEF RedirectIInv
<1>1. ASSUME NEW q \in Redirect PROVE RedirectIsRight(redirects'[q], moment)
  BY ToldIsRight DEF UnitExits
<1>2. redirects' = [q \in Redirect |-> redirects'[q]]
  BY DEF UnitExits
<1> QED
  BY <1>1, <1>2 DEF UnitExits

(* Time passes only while no deadline is due.                              *)
LEMMA MomentPassesStep == ASSUME RedirectIInv, MomentPasses PROVE RedirectIInv'
<1> USE DEF RedirectIInv
<1>1. ASSUME NEW q \in Redirect PROVE RedirectIsRight(redirects[q], moment + 1)
  <2>1. RedirectIsRight(redirects[q], moment) /\ redirects[q].since \in Int
    BY DEF RedirectIsRight, RedirectRecord
  <2>2. redirects[q].at = "looking" => ~(moment >= redirects[q].since + LookupLimit)
    BY DEF MomentPasses, TimerIsDue
  <2>3. redirects[q].at \in {"warming", "trying"} => ~(moment >= redirects[q].since + TotalLimit)
    BY DEF MomentPasses, TimerIsDue, Pending
  <2> QED
    BY <2>1, <2>2, <2>3, RedirectAssumption DEF RedirectIsRight
<1> QED
  BY <1>1 DEF MomentPasses

(* Every step of the redirect unit keeps its invariant.                    *)
LEMMA RedirectStep == ASSUME RedirectIInv, [RedirectNext]_redirectVars PROVE RedirectIInv'
<1>1. CASE UNCHANGED redirectVars
  BY <1>1 DEF redirectVars, RedirectIInv
<1>2. ASSUME NEW q \in Redirect,
             Arrive(q) \/ LookUp(q) \/ TotalEnds(q) \/ \E accepted \in BOOLEAN : SiteAnswers(q, accepted)
      PROVE  RedirectIInv'
  BY <1>2, ArriveStep, LookUpStep, TotalEndsStep, SiteAnswersStep
<1>3. CASE WarmUpEnds \/ UnitExits \/ MomentPasses
  BY <1>3, WarmUpEndsStep, UnitExitsStep, MomentPassesStep
<1>4. CASE SaveLink \/ DeleteLink \/ ReuseLink \/ TokenChanges
  BY <1>4, RowsStep
<1>5. CASE SignalUnit
  BY <1>5 DEF SignalUnit, RedirectIInv
<1> QED
  BY <1>1, <1>2, <1>3, <1>4, <1>5 DEF RedirectNext

(* Whatever tokens, renewals, the site and the rows do, a browser is only   *)
(* given to a search of ours with a token that was good or accepted, and is *)
(* answered in time (redirect-service.ts, local-costamar.ts).               *)
THEOREM LinksAreOurs == RedirectSpec => []LinksOpenOurSearch
<1>1. RedirectIInv /\ [RedirectNext]_redirectVars => RedirectIInv'
  BY RedirectStep
<1>2. RedirectIInv => LinksOpenOurSearch
  BY DEF RedirectIInv, RedirectIsRight, RedirectRecord, LinksOpenOurSearch, Pending
<1> QED
  BY <1>1, <1>2, RedirectInitOK, PTL DEF RedirectSpec

-----------------------------------------------------------------------------
(* AIRLINE MARKS                                                           *)

(* A mark is never seen half written, and a process that asks for one does  *)
(* not know of a refusal within the window.                                 *)
MarksIInv ==
  /\ markTime \in Nat /\ mark \in {"none", "whole"} /\ served \subseteq {"whole"}
  /\ missingUntil \in [Server -> Nat] /\ refusedAt \in [Server -> Nat]
  /\ harvest \in [Server -> {"none", "looking", "asking", "writing", "written"}]
  /\ \A v \in Server :
       refusedAt[v] > 0 =>
         /\ missingUntil[v] = refusedAt[v] + NegativeTTL
         /\ harvest[v] = "asking" => markTime >= missingUntil[v]

(* With no file and nobody asking, the invariant holds.                    *)
LEMMA MarkInitOK == MarkInit => MarksIInv
BY DEF MarkInit, MarksIInv

(* The steps of one process (ensureAirlineMark, harvestAirlineMark). *)
LEMMA ServerStep ==
  ASSUME MarksIInv, NEW v \in Server,
         \/ Wants(v) \/ LooksForFile(v) \/ FindsNothing(v) \/ FindsImage(v)
         \/ Writes(v) \/ Renames(v) \/ ServerDies(v)
  PROVE  MarksIInv'
<1> USE MarkAssumption DEF MarksIInv, HarvestIs
<1>1. CASE Wants(v)
  BY <1>1 DEF Wants
<1>2. CASE LooksForFile(v)
  <2>1. CASE mark # "none"
    BY <1>2, <2>1 DEF LooksForFile
  <2>2. CASE mark = "none"
    <3> DEFINE next == IF missingUntil[v] > markTime THEN "none" ELSE "asking"
    <3>1. harvest' = [harvest EXCEPT ![v] = next]
      BY <1>2, <2>2 DEF LooksForFile
    <3>2. next \in {"none", "asking"} /\ (next = "asking" => markTime >= missingUntil[v])
      OBVIOUS
    <3>3. UNCHANGED <<markTime, mark, missingUntil, refusedAt, served>>
      BY <1>2, <2>2 DEF LooksForFile
    <3> HIDE DEF next
    <3> QED
      BY <3>1, <3>2, <3>3
  <2> QED
    BY <2>1, <2>2
<1>3. CASE FindsNothing(v)
  BY <1>3 DEF FindsNothing
<1>4. CASE FindsImage(v)
  BY <1>4 DEF FindsImage
<1>5. CASE Writes(v)
  BY <1>5 DEF Writes, Aside
<1>6. CASE Renames(v)
  BY <1>6 DEF Renames
<1>7. CASE ServerDies(v)
  BY <1>7 DEF ServerDies
<1> QED
  BY <1>1, <1>2, <1>3, <1>4, <1>5, <1>6, <1>7

(* Every step of the marks keeps their invariant.                          *)
LEMMA MarkStep == ASSUME MarksIInv, [MarkNext]_markVars PROVE MarksIInv'
<1>1. CASE UNCHANGED markVars
  BY <1>1 DEF markVars, MarksIInv
<1>2. CASE MarkTimePasses
  BY <1>2 DEF MarkTimePasses, MarksIInv
<1>3. CASE MarkNext /\ ~MarkTimePasses
  BY <1>3, ServerStep DEF MarkNext
<1> QED
  BY <1>1, <1>2, <1>3

(* No card is given half a mark, and a refusal is remembered for the window *)
(* (airline-mark-store.ts), whichever processes serve and die.              *)
THEOREM MarksStayWhole == MarkSpec => []MarksAreWhole
<1>1. MarksIInv /\ [MarkNext]_markVars => MarksIInv'
  BY MarkStep
<1>2. MarksIInv => MarksAreWhole
  BY DEF MarksIInv, MarksAreWhole
<1> QED
  BY <1>1, <1>2, MarkInitOK, PTL DEF MarkSpec

-----------------------------------------------------------------------------
(* STATION SUGGESTIONS                                                     *)

EntryRecord == [expires : Nat, touched : Nat, loaded : Nat]

(* Entries, or rows: what is there ends a TTL after it was loaded, and      *)
(* there are finitely many.                                                 *)
Sound(held) ==
  /\ held \in [Lookup -> EntryRecord] /\ IsFiniteSet(HeldKeys(held))
  /\ \A k \in Lookup : held[k] # NoEntry => held[k].expires = held[k].loaded + CacheTTL
Bounded(held) ==
  /\ Cardinality(HeldKeys(held)) <= InAll
  /\ \A k \in Lookup : Cardinality(OfSession(held, SessionOf[k])) <= PerSession

CacheIInv ==
  /\ cacheTime \in Nat /\ Sound(stationRows)
  /\ entries \in [Unit -> [Lookup -> EntryRecord]] /\ inflight \in [Unit -> SUBSET Lookup]
  /\ untrimmed \in [Unit -> SUBSET Lookup]
  /\ \A u \in Unit :
       /\ Sound(entries[u]) /\ Bounded(WithoutKeys(entries[u], untrimmed[u]))
       /\ \A k \in inflight[u] : entries[u][k] = NoEntry

(* What is trimmed to a limit keeps no more than the limit (trimSession,    *)
(* trimGlobal, loadSqlitePayload).                                          *)
LEMMA TrimBounds ==
  ASSUME NEW held, NEW keys, IsFiniteSet(keys), NEW limit \in Nat, NEW gone \in Oldest(held, keys, limit)
  PROVE  gone \subseteq keys /\ Cardinality(keys \ gone) <= limit
<1>1. CASE Cardinality(keys) <= limit
  <2>1. gone = {} /\ keys \ gone = keys
    BY <1>1 DEF Oldest
  <2> QED
    BY <1>1, <2>1
<1>2. CASE ~(Cardinality(keys) <= limit)
  <2>1. gone \subseteq keys /\ Cardinality(gone) = Cardinality(keys) - limit
    BY <1>2 DEF Oldest, kSubset
  <2>2. Cardinality(keys \ gone) = Cardinality(keys) - Cardinality(keys \cap gone)
    BY FS_Difference
  <2>3. keys \cap gone = gone /\ Cardinality(keys) \in Nat
    BY <2>1, FS_CardinalityType
  <2>4. Cardinality(keys \cap gone) = Cardinality(keys) - limit
    BY <2>1, <2>3
  <2>5. Cardinality(keys \ gone) = Cardinality(keys) - (Cardinality(keys) - limit)
    BY <2>2, <2>4
  <2>6. Cardinality(keys \ gone) <= limit
    BY <2>3, <2>5
  <2> QED
    BY <2>1, <2>6
<1> QED
  BY <1>1, <1>2

(* The absent entry is an entry.                                           *)
LEMMA NoEntryIsSound == NoEntry \in EntryRecord
BY DEF NoEntry, EntryRecord

(* deleteKey keeps the others as they were. *)
LEMMA DeletingIsSound ==
  ASSUME NEW held, Sound(held), NEW keys
  PROVE  /\ Sound(WithoutKeys(held, keys))
         /\ HeldKeys(WithoutKeys(held, keys)) = HeldKeys(held) \ keys
         /\ \A s : OfSession(WithoutKeys(held, keys), s) = OfSession(held, s) \ keys
         /\ \A k \in Lookup : held[k] = NoEntry => WithoutKeys(held, keys)[k] = NoEntry
<1> DEFINE left == WithoutKeys(held, keys)
<1>1. left \in [Lookup -> EntryRecord]
  BY NoEntryIsSound DEF WithoutKeys, Sound
<1>2. \A k \in Lookup : left[k] = IF k \in keys THEN NoEntry ELSE held[k]
  BY DEF WithoutKeys
<1>3. HeldKeys(left) = HeldKeys(held) \ keys
  BY <1>2 DEF HeldKeys
<1>4. \A s : OfSession(left, s) = OfSession(held, s) \ keys
  BY <1>3 DEF OfSession
<1>5. IsFiniteSet(HeldKeys(left))
  BY <1>3, FS_Subset DEF Sound
<1> HIDE DEF left
<1>6. Sound(left) /\ \A k \in Lookup : held[k] = NoEntry => left[k] = NoEntry
  BY <1>1, <1>2, <1>5 DEF Sound
<1> QED
  BY <1>3, <1>4, <1>6 DEF left

(* Fewer entries are no more than the limits. *)
LEMMA FewerAreBounded ==
  ASSUME NEW held, Sound(held), Bounded(held), NEW left, Sound(left), HeldKeys(left) \subseteq HeldKeys(held)
  PROVE  Bounded(left)
<1>1. IsFiniteSet(HeldKeys(held)) /\ IsFiniteSet(HeldKeys(left))
  BY DEF Sound
<1>2. \A s : /\ OfSession(held, s) \subseteq HeldKeys(held) /\ OfSession(left, s) \subseteq HeldKeys(left)
             /\ OfSession(left, s) \subseteq OfSession(held, s)
  BY DEF OfSession
<1>3. \A s : IsFiniteSet(OfSession(held, s)) /\ IsFiniteSet(OfSession(left, s))
  BY <1>1, <1>2, FS_Subset
<1>4. /\ Cardinality(HeldKeys(left)) <= Cardinality(HeldKeys(held))
      /\ \A s : Cardinality(OfSession(left, s)) <= Cardinality(OfSession(held, s))
  BY <1>1, <1>2, <1>3, FS_Subset
<1>5. /\ Cardinality(HeldKeys(held)) \in Nat /\ Cardinality(HeldKeys(left)) \in Nat
      /\ \A s : Cardinality(OfSession(held, s)) \in Nat /\ Cardinality(OfSession(left, s)) \in Nat
  BY <1>1, <1>3, FS_CardinalityType
<1> QED
  BY <1>4, <1>5, CacheAssumption DEF Bounded

(* So it is for a unit that keeps no more keys than it had, save for those *)
(* of loads that were refused.                                             *)
LEMMA UnitKeepsLimits ==
  ASSUME CacheIInv, NEW u \in Unit, NEW held, Sound(held), NEW spare,
         HeldKeys(held) \ spare \subseteq HeldKeys(entries[u]) \ untrimmed[u]
  PROVE  Bounded(WithoutKeys(held, spare))
<1>1. Sound(entries[u]) /\ Bounded(WithoutKeys(entries[u], untrimmed[u]))
  BY DEF CacheIInv
<1>2. /\ Sound(WithoutKeys(entries[u], untrimmed[u])) /\ Sound(WithoutKeys(held, spare))
      /\ HeldKeys(WithoutKeys(entries[u], untrimmed[u])) = HeldKeys(entries[u]) \ untrimmed[u]
      /\ HeldKeys(WithoutKeys(held, spare)) = HeldKeys(held) \ spare
  BY <1>1, DeletingIsSound
<1> QED
  BY <1>1, <1>2, FewerAreBounded

(* An answer that was just loaded expires a TTL later.                     *)
LEMMA LoadedIsSound ==
  ASSUME cacheTime \in Nat
  PROVE  Loaded \in EntryRecord /\ Loaded.expires = Loaded.loaded + CacheTTL
BY CacheAssumption DEF Loaded, EntryRecord

(* An entry that takes the place of another. *)
LEMMA ReplacingIsSound ==
  ASSUME NEW held, Sound(held), NEW k \in Lookup, NEW e \in EntryRecord,
         e # NoEntry => e.expires = e.loaded + CacheTTL
  PROVE  /\ Sound([held EXCEPT ![k] = e])
         /\ HeldKeys([held EXCEPT ![k] = e]) \subseteq HeldKeys(held) \cup {k}
<1> DEFINE next == [held EXCEPT ![k] = e]
<1>1. next \in [Lookup -> EntryRecord] /\ \A j \in Lookup : next[j] = IF j = k THEN e ELSE held[j]
  BY DEF Sound
<1> HIDE DEF next
<1>2. HeldKeys(next) \subseteq HeldKeys(held) \cup {k}
  BY <1>1 DEF HeldKeys
<1>3. IsFiniteSet(HeldKeys(held) \cup {k})
  BY FS_AddElement DEF Sound
<1>4. IsFiniteSet(HeldKeys(next))
  BY <1>2, <1>3, FS_Subset
<1>5. Sound(next)
  BY <1>1, <1>4 DEF Sound
<1> QED
  BY <1>2, <1>5 DEF next

(* The invariant is kept when the entries and the loads of one unit, and    *)
(* the rows, are replaced.                                                  *)
LEMMA OneUnitChanges ==
  ASSUME CacheIInv, NEW u \in Unit, NEW held, NEW loads \in SUBSET Lookup, NEW spare \in SUBSET Lookup,
         entries' = [entries EXCEPT ![u] = held], inflight' = [inflight EXCEPT ![u] = loads],
         untrimmed' = [untrimmed EXCEPT ![u] = spare],
         Sound(held), Bounded(WithoutKeys(held, spare)), \A k \in loads : held[k] = NoEntry,
         Sound(stationRows'), cacheTime' = cacheTime
  PROVE  CacheIInv'
<1> USE DEF CacheIInv
<1>1. held \in [Lookup -> EntryRecord]
  BY DEF Sound
<1>2. /\ entries' \in [Unit -> [Lookup -> EntryRecord]] /\ inflight' \in [Unit -> SUBSET Lookup]
      /\ untrimmed' \in [Unit -> SUBSET Lookup] /\ cacheTime' \in Nat
  BY <1>1
<1>3. ASSUME NEW v \in Unit
      PROVE  /\ Sound(entries'[v]) /\ Bounded(WithoutKeys(entries'[v], untrimmed'[v]))
             /\ \A k \in inflight'[v] : entries'[v][k] = NoEntry
  <2>1. CASE v = u
    <3>1. entries'[v] = held /\ inflight'[v] = loads /\ untrimmed'[v] = spare
      BY <2>1
    <3> QED
      BY <3>1
  <2>2. CASE v # u
    <3>1. entries'[v] = entries[v] /\ inflight'[v] = inflight[v] /\ untrimmed'[v] = untrimmed[v]
      BY <2>2
    <3> QED
      BY <3>1
  <2> QED
    BY <2>1, <2>2
<1> QED
  BY <1>2, <1>3 DEF Sound, Bounded, HeldKeys, OfSession, WithoutKeys

(* The empty caches are sound and within their limits.                     *)
LEMMA CacheInitOK == CacheInit => CacheIInv
<1> SUFFICES ASSUME CacheInit PROVE CacheIInv
  OBVIOUS
<1> DEFINE held == [k \in Lookup |-> NoEntry]
<1>1. held \in [Lookup -> EntryRecord]
  BY NoEntryIsSound
<1>2. HeldKeys(held) = {} /\ \A s : OfSession(held, s) = {}
  BY DEF HeldKeys, OfSession
<1>3. Sound(held)
  BY <1>1, <1>2, FS_EmptySet DEF Sound
<1>4. Bounded(held) /\ WithoutKeys(held, {}) = held
  BY <1>2, FS_EmptySet, CacheAssumption DEF Bounded, WithoutKeys
<1> HIDE DEF held
<1>5. /\ stationRows = held /\ cacheTime = 1 /\ \A u \in Unit : entries[u] = held
      /\ inflight = [u \in Unit |-> {}] /\ untrimmed = [u \in Unit |-> {}] /\ entries = [u \in Unit |-> held]
  BY DEF CacheInit, held
<1> QED
  BY <1>1, <1>3, <1>4, <1>5 DEF CacheIInv

(* A hit leaves the keys of its cache as they are, and its entry sound, also *)
(* when its row is refused.                                                  *)
LEMMA HitsStep ==
  ASSUME CacheIInv, NEW u \in Unit, NEW k \in Lookup, Hits(u, k) \/ HitRefused(u, k)
  PROVE  CacheIInv'
<1> USE DEF CacheIInv
<1> DEFINE old == entries[u]
           hit == Hit(old[k])
           held == [old EXCEPT ![k] = hit]
<1>1. old[k] \in EntryRecord /\ old[k].expires > cacheTime /\ Sound(old)
  BY DEF Hits, HitRefused, NotExpired
<1>2. hit \in EntryRecord /\ hit.expires = old[k].expires /\ hit.loaded = old[k].loaded
  BY <1>1 DEF Hit, EntryRecord
<1>3. old[k] # NoEntry
  BY <1>1 DEF NoEntry
<1>4. hit.expires = hit.loaded + CacheTTL
  BY <1>1, <1>2, <1>3 DEF Sound
<1>5. /\ entries' = [entries EXCEPT ![u] = held] /\ inflight' = [inflight EXCEPT ![u] = inflight[u]]
      /\ untrimmed' = [untrimmed EXCEPT ![u] = untrimmed[u]]
  BY DEF Hits, HitRefused
<1>6. stationRows' \in {stationRows, [stationRows EXCEPT ![k] = hit]} /\ cacheTime' = cacheTime
  BY DEF Hits, HitRefused
<1> HIDE DEF hit
<1>7. Sound(held) /\ Sound([stationRows EXCEPT ![k] = hit])
  BY <1>1, <1>2, <1>4, ReplacingIsSound
<1>7a. Sound(stationRows')
  <2>1. CASE stationRows' = stationRows
    BY <2>1
  <2>2. CASE stationRows' = [stationRows EXCEPT ![k] = hit]
    BY <1>7, <2>2
  <2> QED
    BY <1>6, <2>1, <2>2
<1>8. HeldKeys(held) = HeldKeys(old)
  <2>1. hit # NoEntry
    BY <1>1, <1>2 DEF NoEntry
  <2> QED
    BY <1>1, <1>3, <2>1 DEF HeldKeys, Sound
<1>10. inflight[u] \in SUBSET Lookup /\ untrimmed[u] \in SUBSET Lookup /\ \A j \in inflight[u] : held[j] = NoEntry
  <2>1. inflight[u] \in SUBSET Lookup /\ untrimmed[u] \in SUBSET Lookup /\ \A j \in inflight[u] : old[j] = NoEntry
    OBVIOUS
  <2>2. k \notin inflight[u]
    BY <1>3, <2>1
  <2>3. \A j \in Lookup \ {k} : held[j] = old[j]
    BY <1>1 DEF Sound
  <2> QED
    BY <2>1, <2>2, <2>3
<1> HIDE DEF held
<1>9. Bounded(WithoutKeys(held, untrimmed[u]))
  BY <1>7, <1>8, UnitKeepsLimits
<1>11. Sound(held) /\ cacheTime' = cacheTime
  BY <1>6, <1>7
<1> QED
  BY <1>5, <1>7a, <1>9, <1>10, <1>11, OneUnitChanges

(* A miss deletes the entry that expired, and begins a load unless its row  *)
(* could not be deleted.                                                    *)
LEMMA MissesStep ==
  ASSUME CacheIInv, NEW u \in Unit, NEW k \in Lookup, Misses(u, k) \/ MissRefused(u, k)
  PROVE  CacheIInv'
<1> USE DEF CacheIInv
<1> DEFINE held == [entries[u] EXCEPT ![k] = NoEntry]
           loads == IF inflight' = inflight THEN inflight[u] ELSE inflight[u] \cup {k}
<1>1. Sound(entries[u]) /\ Sound(stationRows)
  OBVIOUS
<1>2. /\ entries' = [entries EXCEPT ![u] = held] /\ inflight' = [inflight EXCEPT ![u] = loads]
      /\ untrimmed' = [untrimmed EXCEPT ![u] = untrimmed[u]]
  BY DEF Misses, MissRefused
<1>3. cacheTime' = cacheTime /\ stationRows' \in {stationRows, [stationRows EXCEPT ![k] = NoEntry]}
  BY DEF Misses, MissRefused
<1>4. Sound(held) /\ Sound([stationRows EXCEPT ![k] = NoEntry])
  BY <1>1, NoEntryIsSound, ReplacingIsSound
<1>5. Sound(stationRows')
  <2>1. CASE stationRows' = stationRows
    BY <1>1, <2>1
  <2>2. CASE stationRows' = [stationRows EXCEPT ![k] = NoEntry]
    BY <1>4, <2>2
  <2> QED
    BY <1>3, <2>1, <2>2
<1>6. HeldKeys(held) \subseteq HeldKeys(entries[u])
  BY <1>1 DEF HeldKeys, Sound
<1>7. /\ loads \in SUBSET Lookup /\ untrimmed[u] \in SUBSET Lookup
      /\ \A j \in loads : held[j] = NoEntry
  BY <1>1 DEF Sound
<1> HIDE DEF held, loads
<1>8. Bounded(WithoutKeys(held, untrimmed[u]))
  BY <1>4, <1>6, UnitKeepsLimits
<1> QED
  BY <1>2, <1>3, <1>4, <1>5, <1>7, <1>8, OneUnitChanges

(* A load that failed leaves the cache as it was.                          *)
LEMMA LoadFailsStep == ASSUME CacheIInv, NEW u \in Unit, NEW k \in Lookup, LoadFails(u, k) PROVE CacheIInv'
<1> USE DEF CacheIInv
<1>1. /\ entries' = [entries EXCEPT ![u] = entries[u]] /\ inflight' = [inflight EXCEPT ![u] = inflight[u] \ {k}]
      /\ untrimmed' = [untrimmed EXCEPT ![u] = untrimmed[u]]
      /\ cacheTime' = cacheTime /\ stationRows' = stationRows
  BY DEF LoadFails, LoadEnded
<1>2. /\ Sound(entries[u]) /\ Bounded(WithoutKeys(entries[u], untrimmed[u]))
      /\ inflight[u] \ {k} \in SUBSET Lookup /\ untrimmed[u] \in SUBSET Lookup
  OBVIOUS
<1>3. \A j \in inflight[u] \ {k} : entries[u][j] = NoEntry
  OBVIOUS
<1>4. Sound(stationRows')
  BY <1>1
<1> QED
  BY <1>1, <1>2, <1>3, <1>4, OneUnitChanges

(* Nor does one whose statements are refused add to what counts: its entry  *)
(* stays, and some that were to leave for it do.                            *)
LEMMA RefusedLoadStep ==
  ASSUME CacheIInv, NEW u \in Unit, NEW k \in Lookup, RowRefused(u, k) \/ TrimRefused(u, k)
  PROVE  CacheIInv'
<1> USE DEF CacheIInv
<1> DEFINE held == [entries[u] EXCEPT ![k] = Loaded]
           rows == [stationRows EXCEPT ![k] = Loaded]
           whose == SessionOf[k]
           spare == untrimmed[u] \cup {k}
<1>1. /\ inflight' = [inflight EXCEPT ![u] = inflight[u] \ {k}] /\ cacheTime' = cacheTime
      /\ untrimmed' = [untrimmed EXCEPT ![u] = spare]
  BY DEF RowRefused, TrimRefused, LoadEnded
<1>2. /\ Sound(held) /\ HeldKeys(held) \subseteq HeldKeys(entries[u]) \cup {k}
      /\ Sound(rows) /\ Sound(stationRows)
  BY LoadedIsSound, ReplacingIsSound
<1>3. \A j \in inflight[u] \ {k} : held[j] = NoEntry
  BY DEF Sound
<1>4. inflight[u] \ {k} \in SUBSET Lookup /\ spare \in SUBSET Lookup
  OBVIOUS
<1>5. ASSUME NEW left, Sound(left), HeldKeys(left) \subseteq HeldKeys(held),
             \A j \in Lookup : held[j] = NoEntry => left[j] = NoEntry,
             entries' = [entries EXCEPT ![u] = left], Sound(stationRows')
      PROVE  CacheIInv'
  <2>1. HeldKeys(left) \ spare \subseteq HeldKeys(entries[u]) \ untrimmed[u]
    BY <1>2, <1>5
  <2>2. \A j \in inflight[u] \ {k} : left[j] = NoEntry
    BY <1>3, <1>4, <1>5
  <2> HIDE DEF held, rows, spare
  <2>3. Bounded(WithoutKeys(left, spare))
    BY <1>5, <2>1, UnitKeepsLimits
  <2> QED
    BY <1>1, <1>4, <1>5, <2>2, <2>3, OneUnitChanges
<1>6. CASE RowRefused(u, k)
  BY <1>2, <1>5, <1>6 DEF RowRefused
<1>7. ASSUME NEW cut, entries' = [entries EXCEPT ![u] = WithoutKeys(held, cut.gone)],
             stationRows' = WithoutKeys(rows, cut.gone \ {cut.last})
      PROVE  CacheIInv'
  <2> HIDE DEF held, rows
  <2>1. Sound(stationRows')
    BY <1>2, <1>7, DeletingIsSound
  <2>2. /\ Sound(WithoutKeys(held, cut.gone)) /\ HeldKeys(WithoutKeys(held, cut.gone)) \subseteq HeldKeys(held)
        /\ \A j \in Lookup : held[j] = NoEntry => WithoutKeys(held, cut.gone)[j] = NoEntry
    BY <1>2, DeletingIsSound
  <2> QED
    BY <1>5, <1>7, <2>1, <2>2
<1>8. ASSUME NEW own, NEW cut, entries' = [entries EXCEPT ![u] = WithoutKeys(WithoutKeys(held, own), cut.gone)],
             stationRows' = WithoutKeys(rows, own \cup (cut.gone \ {cut.last}))
      PROVE  CacheIInv'
  <2> HIDE DEF held, rows
  <2>1. Sound(stationRows')
    BY <1>2, <1>8, DeletingIsSound
  <2> DEFINE trimmed == WithoutKeys(held, own)
  <2>2. /\ Sound(trimmed) /\ HeldKeys(trimmed) \subseteq HeldKeys(held)
        /\ \A j \in Lookup : held[j] = NoEntry => trimmed[j] = NoEntry
    BY <1>2, DeletingIsSound
  <2>3. entries' = [entries EXCEPT ![u] = WithoutKeys(trimmed, cut.gone)]
    BY <1>8
  <2> HIDE DEF trimmed
  <2>4. /\ Sound(WithoutKeys(trimmed, cut.gone)) /\ HeldKeys(WithoutKeys(trimmed, cut.gone)) \subseteq HeldKeys(trimmed)
        /\ \A j \in Lookup : trimmed[j] = NoEntry => WithoutKeys(trimmed, cut.gone)[j] = NoEntry
    BY <2>2, DeletingIsSound
  <2>5. /\ HeldKeys(WithoutKeys(trimmed, cut.gone)) \subseteq HeldKeys(held)
        /\ \A j \in Lookup : held[j] = NoEntry => WithoutKeys(trimmed, cut.gone)[j] = NoEntry
    BY <2>2, <2>4
  <2> QED
    BY <1>5, <2>1, <2>3, <2>4, <2>5
<1>9. CASE TrimRefused(u, k)
  <2>1. \/ \E cut \in CutTrims(held, OfSession(held, whose), PerSession) :
             /\ entries' = [entries EXCEPT ![u] = WithoutKeys(held, cut.gone)]
             /\ stationRows' = WithoutKeys(rows, cut.gone \ {cut.last})
        \/ \E own \in Oldest(held, OfSession(held, whose), PerSession) :
             \E cut \in CutTrims(WithoutKeys(held, own), HeldKeys(WithoutKeys(held, own)), InAll) :
                  /\ entries' = [entries EXCEPT ![u] = WithoutKeys(WithoutKeys(held, own), cut.gone)]
                  /\ stationRows' = WithoutKeys(rows, own \cup (cut.gone \ {cut.last}))
    BY <1>9 DEF TrimRefused
  <2> QED
    BY <1>7, <1>8, <2>1
<1> QED
  BY <1>6, <1>9

(* The one entry that is added, and what leaves for it. *)
LEMMA LoadEndsStep == ASSUME CacheIInv, NEW u \in Unit, NEW k \in Lookup, LoadEnds(u, k) PROVE CacheIInv'
<1> USE DEF CacheIInv
<1> DEFINE held == [entries[u] EXCEPT ![k] = Loaded]
           whose == SessionOf[k]
<1>1. PICK own \in Oldest(held, OfSession(held, whose), PerSession) :
        \E gone \in Oldest(WithoutKeys(held, own), HeldKeys(WithoutKeys(held, own)), InAll) :
          /\ entries' = [entries EXCEPT ![u] = WithoutKeys(WithoutKeys(held, own), gone)]
          /\ stationRows' = WithoutKeys([stationRows EXCEPT ![k] = Loaded], own \cup gone)
  BY DEF LoadEnds
<1> DEFINE trimmed == WithoutKeys(held, own)
<1>2. PICK gone \in Oldest(trimmed, HeldKeys(trimmed), InAll) :
          /\ entries' = [entries EXCEPT ![u] = WithoutKeys(trimmed, gone)]
          /\ stationRows' = WithoutKeys([stationRows EXCEPT ![k] = Loaded], own \cup gone)
  BY <1>1
<1> DEFINE left == WithoutKeys(trimmed, gone)
<1> DEFINE spare == {j \in untrimmed[u] : SessionOf[j] # whose}
           counted == WithoutKeys(entries[u], untrimmed[u])
<1>3. Sound(entries[u]) /\ Bounded(counted) /\ Sound(stationRows)
  OBVIOUS
<1>3a. /\ Sound(counted)
       /\ \A s : OfSession(counted, s) = OfSession(entries[u], s) \ untrimmed[u]
  BY <1>3, DeletingIsSound
<1> HIDE DEF counted
<1>4. Sound(held) /\ HeldKeys(held) \subseteq HeldKeys(entries[u]) \cup {k}
  BY <1>3, LoadedIsSound, ReplacingIsSound
<1>5. Sound(stationRows')
  <2>1. Sound([stationRows EXCEPT ![k] = Loaded])
    BY <1>3, LoadedIsSound, ReplacingIsSound
  <2> QED
    BY <1>2, <2>1, DeletingIsSound
<1>6. \A j \in Lookup : j # k => held[j] = entries[u][j]
  BY DEF Sound
<1>7. \A s : s # whose => OfSession(held, s) = OfSession(entries[u], s)
  BY <1>3, <1>6 DEF OfSession, HeldKeys, Sound
<1> HIDE DEF held
<1>8. /\ Sound(trimmed) /\ HeldKeys(trimmed) = HeldKeys(held) \ own
      /\ \A s : OfSession(trimmed, s) = OfSession(held, s) \ own
      /\ \A j \in Lookup : held[j] = NoEntry => trimmed[j] = NoEntry
  BY <1>4, DeletingIsSound
<1> HIDE DEF trimmed
<1>9. /\ Sound(left) /\ HeldKeys(left) = HeldKeys(trimmed) \ gone
      /\ \A s : OfSession(left, s) = OfSession(trimmed, s) \ gone
      /\ \A j \in Lookup : trimmed[j] = NoEntry => left[j] = NoEntry
  BY <1>8, DeletingIsSound
<1> HIDE DEF left
<1>10. \A s : OfSession(held, s) \subseteq HeldKeys(held) /\ OfSession(trimmed, s) \subseteq HeldKeys(trimmed)
  BY DEF OfSession
<1>11. /\ IsFiniteSet(HeldKeys(held)) /\ IsFiniteSet(HeldKeys(trimmed))
       /\ \A s : IsFiniteSet(OfSession(held, s)) /\ IsFiniteSet(OfSession(trimmed, s))
  BY <1>4, <1>8, <1>10, FS_Subset DEF Sound
<1>12. Cardinality(OfSession(held, whose) \ own) <= PerSession
  BY <1>11, TrimBounds, CacheAssumption
<1>13. Cardinality(HeldKeys(trimmed) \ gone) <= InAll
  BY <1>2, <1>11, TrimBounds, CacheAssumption
<1>14. /\ Sound(WithoutKeys(left, spare)) /\ HeldKeys(WithoutKeys(left, spare)) = HeldKeys(left) \ spare
       /\ \A s : OfSession(WithoutKeys(left, spare), s) = OfSession(left, s) \ spare
  BY <1>9, DeletingIsSound
<1>15. ASSUME NEW j \in Lookup PROVE Cardinality(OfSession(WithoutKeys(left, spare), SessionOf[j])) <= PerSession
  <2> DEFINE mine == OfSession(WithoutKeys(left, spare), SessionOf[j])
  <2>1. CASE SessionOf[j] = whose
    <3>1. mine \subseteq OfSession(held, whose) \ own /\ IsFiniteSet(OfSession(held, whose) \ own)
      BY <1>8, <1>9, <1>11, <1>14, <2>1, FS_Subset
    <3>2. /\ Cardinality(mine) <= Cardinality(OfSession(held, whose) \ own)
          /\ Cardinality(mine) \in Nat /\ Cardinality(OfSession(held, whose) \ own) \in Nat
      BY <3>1, FS_Subset, FS_CardinalityType
    <3> HIDE DEF mine
    <3>3. Cardinality(mine) <= PerSession
      BY <1>12, <3>2, CacheAssumption
    <3> QED
      BY <3>3 DEF mine
  <2>2. CASE SessionOf[j] # whose
    <3>1. mine \subseteq OfSession(counted, SessionOf[j])
      <4>1. mine \subseteq OfSession(entries[u], SessionOf[j]) \ spare
        BY <1>7, <1>8, <1>9, <1>14, <2>2
      <4>2. \A l \in OfSession(entries[u], SessionOf[j]) : SessionOf[l] # whose
        BY <2>2 DEF OfSession
      <4> QED
        BY <1>3a, <4>1, <4>2
    <3>2. IsFiniteSet(OfSession(counted, SessionOf[j]))
      BY <1>3a, FS_Subset DEF Sound, OfSession
    <3>3. /\ Cardinality(mine) <= Cardinality(OfSession(counted, SessionOf[j]))
          /\ Cardinality(mine) \in Nat /\ Cardinality(OfSession(counted, SessionOf[j])) \in Nat
      BY <3>1, <3>2, FS_Subset, FS_CardinalityType
    <3>4. Cardinality(OfSession(counted, SessionOf[j])) <= PerSession
      BY <1>3 DEF Bounded
    <3> HIDE DEF mine
    <3>5. Cardinality(mine) <= PerSession
      BY <3>3, <3>4, CacheAssumption
    <3> QED
      BY <3>5 DEF mine
  <2> QED
    BY <2>1, <2>2
<1>16. Cardinality(HeldKeys(WithoutKeys(left, spare))) <= InAll
  <2>1. HeldKeys(WithoutKeys(left, spare)) \subseteq HeldKeys(trimmed) \ gone /\ IsFiniteSet(HeldKeys(trimmed) \ gone)
    BY <1>9, <1>11, <1>14, FS_Subset
  <2>2. /\ Cardinality(HeldKeys(WithoutKeys(left, spare))) <= Cardinality(HeldKeys(trimmed) \ gone)
        /\ Cardinality(HeldKeys(WithoutKeys(left, spare))) \in Nat /\ Cardinality(HeldKeys(trimmed) \ gone) \in Nat
    BY <2>1, FS_Subset, FS_CardinalityType
  <2> QED
    BY <1>13, <2>2, CacheAssumption
<1>16a. Bounded(WithoutKeys(left, spare))
  BY <1>15, <1>16 DEF Bounded
<1>17. /\ inflight[u] \ {k} \in SUBSET Lookup /\ spare \in SUBSET Lookup
       /\ \A j \in inflight[u] \ {k} : left[j] = NoEntry
  BY <1>6, <1>8, <1>9
<1>18. /\ entries' = [entries EXCEPT ![u] = left] /\ inflight' = [inflight EXCEPT ![u] = inflight[u] \ {k}]
       /\ untrimmed' = [untrimmed EXCEPT ![u] = spare] /\ cacheTime' = cacheTime
  BY <1>2 DEF LoadEnds, LoadEnded, left
<1> HIDE DEF spare
<1> QED
  BY <1>5, <1>9, <1>16a, <1>17, <1>18, OneUnitChanges

(* The purge deletes what expired from the memory of its unit and from the *)
(* shared rows, or some of it.                                             *)
LEMMA PurgeStationsStep ==
  ASSUME CacheIInv, NEW u \in Unit, PurgeStations(u) \/ PurgeRefused(u)
  PROVE  CacheIInv'
<1> USE DEF CacheIInv
<1>1. PICK out, others : /\ entries' = [entries EXCEPT ![u] = WithoutKeys(entries[u], out)]
                         /\ stationRows' = WithoutKeys(stationRows, others)
  <2>1. CASE PurgeStations(u)
    BY <2>1 DEF PurgeStations
  <2>2. CASE PurgeRefused(u)
    BY <2>2 DEF PurgeRefused
  <2> QED
    BY <2>1, <2>2
<1> DEFINE held == WithoutKeys(entries[u], out)
<1>2. /\ inflight' = [inflight EXCEPT ![u] = inflight[u]] /\ cacheTime' = cacheTime
      /\ untrimmed' = [untrimmed EXCEPT ![u] = untrimmed[u]]
  BY DEF PurgeStations, PurgeRefused
<1>3. Sound(entries[u]) /\ Sound(stationRows)
  OBVIOUS
<1>4. /\ Sound(held) /\ HeldKeys(held) \subseteq HeldKeys(entries[u])
      /\ \A k \in Lookup : entries[u][k] = NoEntry => held[k] = NoEntry
  BY <1>3, DeletingIsSound
<1>5. Sound(stationRows')
  BY <1>1, <1>3, DeletingIsSound
<1>6. /\ inflight[u] \in SUBSET Lookup /\ untrimmed[u] \in SUBSET Lookup
      /\ \A k \in inflight[u] : held[k] = NoEntry
  BY <1>4
<1>7. entries' = [entries EXCEPT ![u] = held]
  BY <1>1
<1> HIDE DEF held
<1>8. Bounded(WithoutKeys(held, untrimmed[u]))
  BY <1>4, UnitKeepsLimits
<1> QED
  BY <1>2, <1>4, <1>5, <1>6, <1>7, <1>8, OneUnitChanges

(* A unit that restarts takes the rows as they are now, within its limits   *)
(* (loadSqlitePayload).                                                     *)
LEMMA UnitRestartsStep == ASSUME CacheIInv, NEW u \in Unit, UnitRestarts(u) PROVE CacheIInv'
<1> USE DEF CacheIInv
<1> DEFINE rows == WithoutKeys(stationRows, Expired(stationRows))
<1>1. PICK gone \in Oldest(rows, HeldKeys(rows), InAll) :
        \E over \in [SessionsOf(HeldKeys(WithoutKeys(rows, gone))) -> SUBSET HeldKeys(WithoutKeys(rows, gone))] :
          /\ \A s \in DOMAIN over :
               over[s] \in Oldest(WithoutKeys(rows, gone), OfSession(WithoutKeys(rows, gone), s), PerSession)
          /\ stationRows' = WithoutKeys(WithoutKeys(rows, gone), UNION {over[s] : s \in DOMAIN over})
  BY DEF UnitRestarts
<1> DEFINE latest == WithoutKeys(rows, gone)
<1>2. PICK over \in [SessionsOf(HeldKeys(latest)) -> SUBSET HeldKeys(latest)] :
          /\ \A s \in DOMAIN over : over[s] \in Oldest(latest, OfSession(latest, s), PerSession)
          /\ stationRows' = WithoutKeys(latest, UNION {over[s] : s \in DOMAIN over})
  BY <1>1
<1> DEFINE all == UNION {over[s] : s \in DOMAIN over}
           next == WithoutKeys(latest, all)
<1>3. Sound(rows)
  BY DeletingIsSound
<1> HIDE DEF rows
<1>4. Sound(latest) /\ HeldKeys(latest) = HeldKeys(rows) \ gone
  BY <1>3, DeletingIsSound
<1> HIDE DEF latest
<1> HIDE DEF all
<1>5. /\ Sound(next) /\ HeldKeys(next) = HeldKeys(latest) \ all
      /\ \A s : OfSession(next, s) = OfSession(latest, s) \ all
  BY <1>4, DeletingIsSound
<1> HIDE DEF next
<1> USE DEF all
<1>6. /\ IsFiniteSet(HeldKeys(rows)) /\ IsFiniteSet(HeldKeys(latest))
      /\ \A s : OfSession(latest, s) \subseteq HeldKeys(latest)
  BY <1>3, <1>4 DEF Sound, OfSession
<1>7. \A s : IsFiniteSet(OfSession(latest, s))
  BY <1>6, FS_Subset
<1>8. Cardinality(HeldKeys(latest)) <= InAll
  BY <1>4, <1>6, TrimBounds, CacheAssumption
<1>9. Cardinality(HeldKeys(next)) <= InAll
  <2>1. HeldKeys(next) \subseteq HeldKeys(latest)
    BY <1>5
  <2>2. /\ Cardinality(HeldKeys(next)) <= Cardinality(HeldKeys(latest))
        /\ Cardinality(HeldKeys(next)) \in Nat /\ Cardinality(HeldKeys(latest)) \in Nat
    BY <1>6, <2>1, FS_Subset, FS_CardinalityType
  <2> QED
    BY <1>8, <2>2, CacheAssumption
<1>10. ASSUME NEW j \in Lookup PROVE Cardinality(OfSession(next, SessionOf[j])) <= PerSession
  <2> DEFINE s == SessionOf[j]
             own == OfSession(latest, s)
  <2>1. CASE s \in SessionsOf(HeldKeys(latest))
    <3>1. over[s] \in Oldest(latest, own, PerSession) /\ over[s] \subseteq all
      BY <1>2, <2>1
    <3>2. IsFiniteSet(own) /\ IsFiniteSet(own \ over[s])
      BY <1>7, FS_Difference
    <3>3. Cardinality(own \ over[s]) <= PerSession
      BY <3>1, <3>2, TrimBounds, CacheAssumption
    <3>4. OfSession(next, s) \subseteq own \ over[s]
      BY <1>5, <3>1
    <3> HIDE DEF own, s
    <3>5. /\ Cardinality(OfSession(next, s)) <= Cardinality(own \ over[s])
          /\ Cardinality(OfSession(next, s)) \in Nat /\ Cardinality(own \ over[s]) \in Nat
      BY <3>2, <3>4, FS_Subset, FS_CardinalityType
    <3>6. Cardinality(OfSession(next, s)) <= PerSession
      BY <3>3, <3>5, CacheAssumption
    <3> QED
      BY <3>6 DEF s
  <2>2. CASE s \notin SessionsOf(HeldKeys(latest))
    <3>1. own = {}
      BY <2>2 DEF SessionsOf, OfSession
    <3>2. OfSession(next, s) = {}
      BY <1>5, <3>1
    <3>3. Cardinality(OfSession(next, s)) = 0
      BY <3>2, FS_EmptySet
    <3> QED
      BY <3>3, CacheAssumption
  <2> QED
    BY <2>1, <2>2
<1>11. Bounded(next)
  BY <1>9, <1>10 DEF Bounded
<1>11a. Bounded(WithoutKeys(next, {}))
  <2>1. Sound(WithoutKeys(next, {})) /\ HeldKeys(WithoutKeys(next, {})) \subseteq HeldKeys(next)
    BY <1>5, DeletingIsSound
  <2> QED
    BY <1>5, <1>11, <2>1, FewerAreBounded
<1>12. /\ entries' = [entries EXCEPT ![u] = next] /\ inflight' = [inflight EXCEPT ![u] = {}]
       /\ untrimmed' = [untrimmed EXCEPT ![u] = {}] /\ cacheTime' = cacheTime /\ stationRows' = next
  BY <1>2 DEF UnitRestarts, next
<1>13. {} \in SUBSET Lookup /\ \A k \in {} : next[k] = NoEntry
  OBVIOUS
<1>14. Sound(stationRows')
  BY <1>5, <1>12
<1> QED
  BY <1>5, <1>11a, <1>12, <1>13, <1>14, OneUnitChanges

(* Every step of the units keeps their caches sound and within their       *)
(* limits.                                                                 *)
LEMMA CacheStep == ASSUME CacheIInv, [CacheNext]_cacheVars PROVE CacheIInv'
<1>1. ASSUME UNCHANGED <<entries, inflight, stationRows, untrimmed>>, cacheTime' \in Nat PROVE CacheIInv'
  <2>1. /\ Sound(stationRows') /\ entries' \in [Unit -> [Lookup -> EntryRecord]]
        /\ inflight' \in [Unit -> SUBSET Lookup] /\ untrimmed' \in [Unit -> SUBSET Lookup]
        /\ \A u \in Unit :
             /\ Sound(entries'[u]) /\ Bounded(WithoutKeys(entries'[u], untrimmed'[u]))
             /\ \A k \in inflight'[u] : entries'[u][k] = NoEntry
    BY <1>1 DEF CacheIInv
  <2> QED
    BY <1>1, <2>1 DEF CacheIInv, Sound, Bounded, HeldKeys, OfSession, WithoutKeys
<1>2. CASE CacheTimePasses \/ UNCHANGED cacheVars
  BY <1>1, <1>2 DEF CacheTimePasses, cacheVars, CacheIInv
<1>3. ASSUME NEW u \in Unit, NEW k \in Lookup,
             \/ Hits(u, k) \/ HitRefused(u, k) \/ Misses(u, k) \/ MissRefused(u, k)
             \/ LoadEnds(u, k) \/ LoadFails(u, k) \/ RowRefused(u, k) \/ TrimRefused(u, k)
      PROVE  CacheIInv'
  BY <1>3, HitsStep, MissesStep, LoadEndsStep, LoadFailsStep, RefusedLoadStep
<1>4. ASSUME NEW u \in Unit, PurgeStations(u) \/ PurgeRefused(u) \/ UnitRestarts(u) PROVE CacheIInv'
  BY <1>4, PurgeStationsStep, UnitRestartsStep
<1> QED
  BY <1>2, <1>3, <1>4 DEF CacheNext

(* What a unit answers from its cache is no older than the TTL, and no unit *)
(* keeps more than the limits, save for what it kept of loads that were     *)
(* refused, whatever the units and the table they share do to each other    *)
(* and whichever statements fail (location-suggestion-cache.ts).            *)
THEOREM StationsStayFresh == CacheSpec => []StationsAreFresh
<1>1. CacheIInv /\ [CacheNext]_cacheVars => CacheIInv'
  BY CacheStep
<1>2. ASSUME CacheIInv PROVE StationsAreFresh
  <2> SUFFICES ASSUME NEW u \in Unit
               PROVE  /\ \A k \in HeldKeys(entries[u]) :
                           NotExpired(entries[u][k]) =>
                             cacheTime - entries[u][k].loaded < CacheTTL /\ k \notin inflight[u]
                      /\ Bounded(WithoutKeys(entries[u], untrimmed[u]))
    BY DEF StationsAreFresh, Bounded
  <2>1. Bounded(WithoutKeys(entries[u], untrimmed[u]))
    BY <1>2 DEF CacheIInv
  <2>2. ASSUME NEW k \in HeldKeys(entries[u]), NotExpired(entries[u][k])
        PROVE  cacheTime - entries[u][k].loaded < CacheTTL /\ k \notin inflight[u]
    <3>1. k \in Lookup /\ entries[u][k] # NoEntry
      BY <2>2 DEF HeldKeys
    <3>2. entries[u][k].expires = entries[u][k].loaded + CacheTTL /\ k \notin inflight[u]
      BY <1>2, <3>1 DEF CacheIInv, Sound
    <3>3. cacheTime \in Nat /\ entries[u][k].loaded \in Nat /\ entries[u][k].expires > cacheTime
      BY <1>2, <2>2, <3>1 DEF CacheIInv, EntryRecord, NotExpired
    <3> QED
      BY <3>2, <3>3, CacheAssumption
  <2> QED
    BY <2>1, <2>2
<1> QED
  BY <1>1, <1>2, CacheInitOK, PTL DEF CacheSpec

(* What several share is right: a station that was picked is not changed by *)
(* what was asked before (LateAnswersAreIgnored), the stations of a text    *)
(* are recent and within the limits but for what refused loads kept         *)
(* (StationsAreFresh), and a mark is served whole (MarksAreWhole).          *)
THEOREM AnswersAreRight == FieldSpec /\ CacheSpec /\ MarkSpec => []SharedAnswersAreRight
BY FieldKeepsItsPick, StationsStayFresh, MarksStayWhole, PTL DEF SharedAnswersAreRight

-----------------------------------------------------------------------------
(* QUOTES                                                                  *)

FareRecord ==
  [price : Int, prepared : Int, verified : Int, rate : Int, needs : BOOLEAN, links : {"raw", "handles"}]
ClickRecord ==
  [at : {"idle", "validating", "rating", "told"}, since : Int, source : FareRecord,
   offer : FareRecord, code : Int]

(* An offer that is stored: prepared while its search went on, verified     *)
(* when its price was said, its links rewritten.                            *)
StoredIsRight(o) ==
  /\ o \in FareRecord /\ o.links = "handles" /\ o.price \in Nat
  /\ o.prepared # No => o.prepared - o.price <= SearchLasts
  /\ o.verified # No => o.verified = o.price

FoundIsRight(o, now) ==
  /\ o \in FareRecord /\ o.price \in Nat /\ now <= o.price + SearchLasts
  /\ o.prepared = No /\ o.verified = No

(* What is quoted was said within the freshness of the end of its search.   *)
FreshAt(o, then) ==
  /\ o \in FareRecord /\ o.links = "handles"
  /\ then - o.price <= Freshness + SearchLasts
  /\ o.verified # No => then - o.price <= Freshness

ClickIsRight(c, flight, now) ==
  /\ c \in ClickRecord
  /\ c.at = "told" /\ c.code = 200 =>
       /\ c.since - c.offer.price <= Freshness + SearchLasts + RateLimit
       /\ c.offer.verified # No => c.since - c.offer.price <= Freshness + RateLimit
       /\ c.offer.links = "handles"
  /\ c.at = "rating" => FreshAt(c.offer, c.since) /\ now <= c.since + RateLimit
  /\ c.at = "validating" => flight # No /\ flight <= c.since

QuoteIInv ==
  /\ quoteTime \in Nat /\ inFlight \in Int
  /\ inFlight # No => inFlight <= quoteTime /\ quoteTime <= inFlight + ValidationLimit
  /\ session \in {"running", "memory", "disk", "gone"}
  /\ offer = NoOffer \/ StoredIsRight(offer)
  /\ found = NoOffer \/ (session = "running" /\ FoundIsRight(found, quoteTime))
  /\ prefetch \in [at : {"none", "looking", "answered"}, rate : Int, tries : 0..2]
  /\ dayRate \in [day : Int, rate : Int]
  /\ clicks = [k \in Clicks |-> clicks[k]]
  /\ \A k \in Clicks : ClickIsRight(clicks[k], inFlight, quoteTime)

(* Rates and days are integers.                                            *)
LEMMA RateIsRight ==
  ASSUME QuoteIInv
  PROVE  /\ RateToday \in Int /\ No \in Int
         /\ \A o \in FareRecord : KnownRate(o) \in Int /\ RateAfter(o) \in [day : Int, rate : Int]
         /\ \A rate \in Int : RemembersRate(rate) \in [day : Int, rate : Int]
<1>1. RateToday \in Int /\ No \in Int
  BY QuotationAssumption DEF QuoteIInv, RateToday, No
<1>2. \A rate \in Int : RemembersRate(rate) \in [day : Int, rate : Int]
  BY <1>1 DEF QuoteIInv, RemembersRate
<1>3. ASSUME NEW o \in FareRecord PROVE KnownRate(o) \in Int /\ RateAfter(o) \in [day : Int, rate : Int]
  <2>1. KnownRate(o) \in Int
    BY <1>1 DEF KnownRate, FareRecord, QuoteIInv
  <2>2. RateAfter(o) \in [day : Int, rate : Int]
    BY <1>2, <2>1 DEF RateAfter, QuoteIInv
  <2> QED
    BY <2>1, <2>2
<1> QED
  BY <1>1, <1>2, <1>3

(* A fare that was just found has no price that was prepared or verified.  *)
LEMMA QuoteFareIsRight ==
  ASSUME NEW price \in Int, NEW rate \in Int, NEW needs \in BOOLEAN
  PROVE  /\ QuoteFare(price, rate, needs) \in FareRecord
         /\ QuoteFare(price, rate, needs).price = price
         /\ QuoteFare(price, rate, needs).prepared = No
         /\ QuoteFare(price, rate, needs).verified = No
         /\ QuoteFare(price, rate, needs).needs = needs
BY DEF QuoteFare, FareRecord, No

(* prepareOffersForQuotation changes the rate and the mark. *)
LEMMA PreparedIsRight ==
  ASSUME QuoteIInv, NEW o \in FareRecord, NEW rate \in Int
  PROVE  /\ Prepared(o, rate) \in FareRecord
         /\ Prepared(o, rate).price = o.price /\ Prepared(o, rate).verified = o.verified
         /\ Prepared(o, rate).prepared \in {No, o.prepared, quoteTime}
<1> DEFINE r == IF o.rate # No THEN o.rate ELSE rate
           markedAt == IF o.needs /\ r = No THEN No ELSE IF o.prepared # No THEN o.prepared ELSE quoteTime
<1>1. Prepared(o, rate) = [o EXCEPT !.rate = r, !.prepared = markedAt]
  BY DEF Prepared, FareRecord
<1>2. r \in Int /\ markedAt \in {No, o.prepared, quoteTime}
  BY DEF FareRecord
<1>3. markedAt \in Int
  BY <1>2 DEF QuoteIInv, FareRecord, No
<1> HIDE DEF r, markedAt
<1> QED
  BY <1>1, <1>2, <1>3 DEF FareRecord

(* What a search has found is right as it is stored (SearchSync). *)
LEMMA FoundIsStored ==
  ASSUME QuoteIInv, NEW o, FoundIsRight(o, quoteTime), NEW rate \in Int
  PROVE  StoredIsRight(Stored(Prepared(o, rate)))
<1> DEFINE p == Prepared(o, rate)
<1>1. /\ p \in FareRecord /\ p.price = o.price /\ p.verified = No /\ p.prepared \in {No, quoteTime}
  BY PreparedIsRight DEF FoundIsRight
<1> HIDE DEF p
<1>2. /\ Stored(p) \in FareRecord /\ Stored(p).links = "handles" /\ Stored(p).price = p.price
      /\ Stored(p).verified = p.verified /\ Stored(p).prepared = p.prepared
  BY <1>1 DEF Stored, FareRecord
<1>3. p.prepared # No => p.prepared - p.price <= SearchLasts
  BY <1>1, QuotationAssumption DEF FoundIsRight, QuoteIInv
<1> QED
  BY <1>1, <1>2, <1>3 DEF StoredIsRight, FoundIsRight, p

(* An offer the provider confirms is right, and as fresh as can be. *)
LEMMA ConfirmedIsRight ==
  ASSUME QuoteIInv, NEW o \in FareRecord, NEW own \in Int
  PROVE  /\ StoredIsRight(Saved(Confirmed(o, quoteTime, own)))
         /\ FreshAt(Saved(Confirmed(o, quoteTime, own)), quoteTime)
<1> DEFINE fare == QuoteFare(quoteTime, own, o.needs)
           p == Prepared(fare, o.rate)
           sure == [p EXCEPT !.verified = quoteTime]
           handled == [sure EXCEPT !.links = "handles"]
<1>0. quoteTime \in Nat /\ quoteTime \in Int
  BY DEF QuoteIInv
<1>1. fare \in FareRecord /\ fare.price = quoteTime /\ fare.prepared = No
  BY <1>0, QuoteFareIsRight DEF FareRecord
<1> HIDE DEF fare
<1>2. p \in FareRecord /\ p.price = quoteTime /\ p.prepared \in {No, quoteTime}
  <2>1. o.rate \in Int
    BY DEF FareRecord
  <2>2. /\ Prepared(fare, o.rate) \in FareRecord /\ Prepared(fare, o.rate).price = fare.price
        /\ Prepared(fare, o.rate).prepared \in {No, fare.prepared, quoteTime}
    BY <1>1, <2>1, PreparedIsRight
  <2> QED
    BY <1>1, <2>2
<1> HIDE DEF p
<1>3. sure \in FareRecord /\ sure.price = quoteTime /\ sure.verified = quoteTime /\ sure.prepared = p.prepared
  BY <1>0, <1>2 DEF FareRecord
<1> HIDE DEF sure
<1>4. /\ handled \in FareRecord /\ handled.price = quoteTime /\ handled.verified = quoteTime
      /\ handled.prepared = p.prepared /\ handled.links = "handles"
  BY <1>3 DEF FareRecord
<1> HIDE DEF handled
<1>5. Saved(Confirmed(o, quoteTime, own)) = handled
  BY DEF Saved, Stored, Confirmed, handled, sure, p, fare
<1>6. StoredIsRight(handled)
  BY <1>0, <1>2, <1>4, QuotationAssumption DEF StoredIsRight
<1>7. FreshAt(handled, quoteTime)
  BY <1>0, <1>4, QuotationAssumption DEF FreshAt
<1> QED
  BY <1>5, <1>6, <1>7

(* What is quotable as it is is fresh (isOfferQuotableAsIs). *)
LEMMA QuotableIsFresh ==
  ASSUME QuoteIInv, NEW o, StoredIsRight(o), QuotableAsIs(o)
  PROVE  FreshAt(o, quoteTime)
<1>1. /\ o.price \in Int /\ o.verified \in Int /\ o.prepared \in Int /\ quoteTime \in Nat
  BY DEF StoredIsRight, FareRecord, QuoteIInv
<1>2. CASE o.verified # No
  BY <1>1, <1>2, QuotationAssumption DEF StoredIsRight, FreshAt, QuotableAsIs, InWindow
<1>3. CASE o.verified = No
  BY <1>1, <1>3, QuotationAssumption DEF StoredIsRight, FreshAt, QuotableAsIs, InWindow
<1> QED
  BY <1>2, <1>3

(* Quoting a fresh offer, with the rate it needs or waiting for it. *)
LEMMA QuotedIsRight ==
  ASSUME QuoteIInv, NEW c \in ClickRecord, NEW o, FreshAt(o, quoteTime), NEW flight
  PROVE  ClickIsRight(Quoted(c, o), flight, quoteTime)
<1>0. o \in FareRecord /\ quoteTime \in Int /\ quoteTime <= quoteTime + RateLimit
  BY QuotationAssumption DEF FreshAt, QuoteIInv
<1>1. CASE o.needs /\ KnownRate(o) = No
  <2> DEFINE next == [c EXCEPT !.at = "rating", !.since = quoteTime, !.offer = o]
  <2>1. next \in ClickRecord /\ next.at = "rating" /\ next.since = quoteTime /\ next.offer = o
    BY <1>0 DEF ClickRecord
  <2>2. Quoted(c, o) = next
    BY <1>1 DEF Quoted
  <2> HIDE DEF next
  <2> QED
    BY <1>0, <2>1, <2>2 DEF ClickIsRight
<1>2. CASE ~(o.needs /\ KnownRate(o) = No)
  <2> DEFINE rated == [o EXCEPT !.rate = IF o.needs THEN KnownRate(o) ELSE o.rate]
             next == [c EXCEPT !.at = "told", !.code = 200, !.since = quoteTime, !.offer = rated]
  <2>1. KnownRate(o) \in Int
    BY <1>0, RateIsRight
  <2>2. /\ rated \in FareRecord /\ rated.price = o.price /\ rated.verified = o.verified
        /\ rated.links = o.links
    BY <1>0, <2>1 DEF FareRecord
  <2>3. Quoted(c, o) = next
    BY <1>0, <1>2 DEF Quoted, FareRecord
  <2> HIDE DEF rated
  <2>r. rated \in FareRecord
    BY <2>2
  <2>4. next \in ClickRecord /\ next.at = "told" /\ next.since = quoteTime /\ next.offer = rated
    <3> DEFINE one == [c EXCEPT !.at = "told", !.code = 200]
    <3>1. one \in ClickRecord /\ one.at = "told"
      <4>1. \A n \in Int : LET some == [c EXCEPT !.at = "told", !.code = n]
                           IN some \in ClickRecord /\ some.at = "told"
        BY DEF ClickRecord
      <4>2. 200 \in Int
        OBVIOUS
      <4> QED
        BY <4>1, <4>2
    <3>2. next = [one EXCEPT !.since = quoteTime, !.offer = rated]
      BY DEF ClickRecord
    <3> HIDE DEF one, next
    <3> QED
      BY <1>0, <2>r, <3>1, <3>2 DEF ClickRecord
  <2> HIDE DEF next
  <2>5. /\ quoteTime - o.price <= Freshness + SearchLasts
        /\ o.verified # No => quoteTime - o.price <= Freshness
        /\ o.links = "handles" /\ o.price \in Int
    BY DEF FreshAt, FareRecord
  <2>6. /\ quoteTime - o.price <= Freshness + SearchLasts + RateLimit
        /\ o.verified # No => quoteTime - o.price <= Freshness + RateLimit
    BY <1>0, <2>5, QuotationAssumption
  <2> QED
    BY <2>2, <2>3, <2>4, <2>5, <2>6 DEF ClickIsRight
<1> QED
  BY <1>1, <1>2

(* The absent offer and the idle click are right at any time.              *)
LEMMA NoQuoteIsRight ==
  /\ NoOffer \in FareRecord /\ NoQuote \in ClickRecord
  /\ \A flight, now : ClickIsRight(NoQuote, flight, now)
<1>0. No \in Int /\ FALSE \in BOOLEAN
  BY DEF No
<1>1. NoOffer \in FareRecord
  BY <1>0, QuoteFareIsRight DEF NoOffer
<1>2. NoQuote \in ClickRecord /\ NoQuote.at = "idle"
  BY <1>1 DEF NoQuote, ClickRecord
<1> QED
  BY <1>1, <1>2 DEF ClickIsRight

(* A click that is refused is told so. *)
LEMMA RefusedIsRight ==
  ASSUME NEW n \in Int, n # 200, NEW flight, NEW now
  PROVE  ClickIsRight([NoQuote EXCEPT !.at = "told", !.code = n], flight, now)
<1> DEFINE c == [NoQuote EXCEPT !.at = "told", !.code = n]
<1>1. NoQuote \in ClickRecord
  BY NoQuoteIsRight
<1>2. c \in ClickRecord /\ c.at = "told" /\ c.code = n
  BY <1>1 DEF ClickRecord
<1> HIDE DEF c
<1>3. ClickIsRight(c, flight, now)
  BY <1>2 DEF ClickIsRight
<1> QED
  BY <1>3 DEF c

(* With nothing found and nobody clicking, the invariant holds.            *)
LEMMA QuotationInitOK == QuotationInit => QuoteIInv
<1>1. No \in Int /\ No = -1
  BY DEF No
<1>2. NoQuote \in ClickRecord /\ ClickIsRight(NoQuote, No, 0)
  BY NoQuoteIsRight
<1> QED
  BY <1>1, <1>2 DEF QuotationInit, QuoteIInv

(* The offer as its search brings it, syncs it and ends with it. *)
LEMMA FareArrivesStep == ASSUME QuoteIInv, FareArrives PROVE QuoteIInv'
<1>1. PICK needs \in BOOLEAN, own \in {No, RateToday} :
        /\ found' = QuoteFare(quoteTime, own, needs)
        /\ offer' = Stored(Prepared(QuoteFare(quoteTime, own, needs), No))
        /\ prefetch' = StartPrefetch(QuoteFare(quoteTime, own, needs))
  BY DEF FareArrives
<1> DEFINE o == QuoteFare(quoteTime, own, needs)
<1>2. own \in Int /\ No \in Int /\ quoteTime \in Nat /\ quoteTime \in Int
  BY RateIsRight DEF QuoteIInv
<1>3. o \in FareRecord /\ o.price = quoteTime /\ o.prepared = No /\ o.verified = No
  BY <1>2, QuoteFareIsRight
<1> HIDE DEF o
<1>4. FoundIsRight(o, quoteTime)
  BY <1>2, <1>3, QuotationAssumption DEF FoundIsRight
<1>5. StoredIsRight(Stored(Prepared(o, No)))
  BY <1>2, <1>4, FoundIsStored
<1>6. prefetch' \in [at : {"none", "looking", "answered"}, rate : Int, tries : 0..2]
  BY <1>1, <1>2 DEF StartPrefetch, QuoteIInv
<1>7. found' = o /\ offer' = Stored(Prepared(o, No)) /\ session = "running"
  BY <1>1 DEF o, FareArrives
<1> QED
  BY <1>4, <1>5, <1>6, <1>7 DEF FareArrives, QuoteIInv

(* A sync of the search stores what was found, prepared without a rate.    *)
LEMMA SearchSyncStep == ASSUME QuoteIInv, SearchSync PROVE QuoteIInv'
<1>1. FoundIsRight(found, quoteTime) /\ No \in Int
  BY RateIsRight DEF SearchSync, QuoteIInv
<1>2. StoredIsRight(Stored(Prepared(found, No)))
  BY <1>1, FoundIsStored
<1>3. StoredIsRight(offer')
  BY <1>2 DEF SearchSync
<1> QED
  BY <1>3 DEF SearchSync, QuoteIInv

(* The rate asked for ahead arrives, or does not.                          *)
LEMMA PrefetchAnswersStep == ASSUME QuoteIInv, PrefetchAnswers PROVE QuoteIInv'
<1>1. PICK got \in {No, RateToday} :
        LET rate == IF dayRate.day = RateToday THEN dayRate.rate ELSE got
        IN prefetch' = [prefetch EXCEPT !.at = "answered", !.rate = rate] /\ dayRate' = RemembersRate(rate)
  BY DEF PrefetchAnswers
<1> DEFINE rate == IF dayRate.day = RateToday THEN dayRate.rate ELSE got
<1>2. rate \in Int
  BY RateIsRight DEF QuoteIInv
<1>3. prefetch' = [prefetch EXCEPT !.at = "answered", !.rate = rate] /\ dayRate' = RemembersRate(rate)
  BY <1>1
<1> HIDE DEF rate
<1>4. dayRate' \in [day : Int, rate : Int]
  BY <1>2, <1>3, RateIsRight
<1>5. prefetch' \in [at : {"none", "looking", "answered"}, rate : Int, tries : 0..2]
  BY <1>2, <1>3 DEF QuoteIInv
<1> QED
  BY <1>4, <1>5 DEF PrefetchAnswers, QuoteIInv

(* The end of the search stores the list with the rate that was            *)
(* prefetched, or looks for the rate once more.                            *)
LEMMA SearchEndsStep == ASSUME QuoteIInv, SearchEnds PROVE QuoteIInv'
<1>1. FoundIsRight(found, quoteTime) /\ No \in Int
  BY RateIsRight DEF SearchEnds, QuoteIInv
<1>2. prefetch.rate \in Int
  BY DEF QuoteIInv
<1>3. CASE session' = "memory"
  <2>1. PICK rate \in {prefetch.rate, No} : offer' = Stored(Prepared(found, rate))
    BY <1>1, <1>3 DEF SearchEnds
  <2>2. StoredIsRight(offer')
    BY <1>1, <1>2, <2>1, FoundIsStored
  <2>3. found' = NoOffer /\ UNCHANGED prefetch
    BY <1>1, <1>3 DEF SearchEnds
  <2> QED
    BY <1>3, <2>2, <2>3 DEF SearchEnds, QuoteIInv
<1>4. CASE session' # "memory"
  <2>1. prefetch' = [at |-> "looking", rate |-> No, tries |-> 2] /\ UNCHANGED <<offer, session, found>>
    BY <1>4 DEF SearchEnds
  <2>2. prefetch' \in [at : {"none", "looking", "answered"}, rate : Int, tries : 0..2]
    BY <1>1, <2>1
  <2> QED
    BY <2>1, <2>2 DEF SearchEnds, QuoteIInv
<1> QED
  BY <1>3, <1>4

(* The search leaves memory, and later the file.                           *)
LEMMA SessionLeavesStep == ASSUME QuoteIInv, SessionLeaves PROVE QuoteIInv'
BY DEF SessionLeaves, QuoteIInv

(* The invariant is kept when the clicks, the validation they share, the    *)
(* offer and the day's rate are replaced.                                   *)
LEMMA ClicksChange ==
  ASSUME QuoteIInv, NEW next, clicks' = [k \in Clicks |-> next[k]],
         \A k \in Clicks : ClickIsRight(next[k], inFlight', quoteTime),
         inFlight' \in Int,
         inFlight' # No => inFlight' <= quoteTime /\ quoteTime <= inFlight' + ValidationLimit,
         dayRate' \in [day : Int, rate : Int],
         offer' = NoOffer \/ StoredIsRight(offer'),
         UNCHANGED <<quoteTime, session, found, prefetch>>
  PROVE  QuoteIInv'
BY DEF QuoteIInv

(* resolveQuotationSource: the offer is gone, fresh, or joins a validation. *)
LEMMA ClickStep == ASSUME QuoteIInv, NEW k \in Clicks, Click(k) PROVE QuoteIInv'
<1> USE DEF QuoteIInv
<1> DEFINE c == [NoQuote EXCEPT !.since = quoteTime, !.source = offer]
<1>1. StoredIsRight(offer) /\ quoteTime \in Nat /\ quoteTime \in Int /\ offer \in FareRecord
  BY DEF Click, StoredIsRight
<1>2. c \in ClickRecord /\ c.since = quoteTime
  BY <1>1, NoQuoteIsRight DEF ClickRecord
<1>3. UNCHANGED <<quoteTime, offer, session, found, prefetch>>
  BY DEF Click
<1>4. CASE session = "gone"
  <2>1. clicks' = [clicks EXCEPT ![k] = [NoQuote EXCEPT !.at = "told", !.code = 404]] /\ UNCHANGED <<inFlight, dayRate>>
    BY <1>4 DEF Click
  <2>3. ClickIsRight([NoQuote EXCEPT !.at = "told", !.code = 404], inFlight, quoteTime)
    <3> DEFINE n == 404
    <3>1. n \in Int /\ n # 200
      OBVIOUS
    <3> HIDE DEF n
    <3>2. ClickIsRight([NoQuote EXCEPT !.at = "told", !.code = n], inFlight, quoteTime)
      BY <3>1, RefusedIsRight
    <3> QED
      BY <3>2 DEF n
  <2> QED
    BY <1>3, <2>1, <2>3
<1>5. CASE session # "gone" /\ QuotableAsIs(offer)
  <2>1. /\ clicks' = [clicks EXCEPT ![k] = Quoted(c, offer)]
        /\ dayRate' = RateAfter(offer) /\ inFlight' = inFlight
    BY <1>5 DEF Click
  <2>2. FreshAt(offer, quoteTime)
    BY <1>1, <1>5, QuotableIsFresh
  <2> HIDE DEF c
  <2>3. ClickIsRight(Quoted(c, offer), inFlight, quoteTime)
    BY <1>2, <2>2, QuotedIsRight
  <2>4. dayRate' \in [day : Int, rate : Int]
    BY <1>1, <2>1, RateIsRight
  <2> QED
    BY <1>3, <2>1, <2>3, <2>4
<1>6. CASE session # "gone" /\ ~QuotableAsIs(offer)
  <2> DEFINE waits == [c EXCEPT !.at = "validating"]
             flight == IF inFlight = No THEN quoteTime ELSE inFlight
  <2>1. clicks' = [clicks EXCEPT ![k] = waits] /\ inFlight' = flight /\ dayRate' = dayRate
    BY <1>6 DEF Click
  <2> HIDE DEF c
  <2>2. waits \in ClickRecord /\ waits.at = "validating" /\ waits.since = quoteTime
    BY <1>2 DEF ClickRecord
  <2>3. /\ flight \in Int /\ flight # No /\ flight <= quoteTime /\ quoteTime <= flight + ValidationLimit
        /\ inFlight # No => flight = inFlight
    BY <1>1, QuotationAssumption DEF No
  <2> HIDE DEF waits, flight
  <2>4. ClickIsRight(waits, flight, quoteTime)
    BY <2>2, <2>3 DEF ClickIsRight
  <2>5. \A j \in Clicks : ClickIsRight(clicks[j], flight, quoteTime)
    BY <2>3 DEF ClickIsRight
  <2> QED
    BY <1>3, <2>1, <2>3, <2>4, <2>5
<1> QED
  BY <1>4, <1>5, <1>6

(* All who wait are quoted the offer they clicked on, confirmed.           *)
LEMMA ProviderConfirmsStep == ASSUME QuoteIInv, ProviderConfirms PROVE QuoteIInv'
<1>1. PICK own \in {No, RateToday} :
        /\ clicks' = [k \in Clicks |->
             IF k \in Validating THEN Quoted(clicks[k], Saved(Confirmed(clicks[k].source, quoteTime, own))) ELSE clicks[k]]
        /\ offer' = IF InMemory /\ Validating # {}
                    THEN Saved(Confirmed(clicks[CHOOSE k \in Validating : TRUE].source, quoteTime, own)) ELSE offer
        /\ dayRate' = IF Validating = {} THEN dayRate
                      ELSE RateAfter(Saved(Confirmed(clicks[CHOOSE k \in Validating : TRUE].source, quoteTime, own)))
  BY DEF ProviderConfirms
<1> DEFINE new(k) == Saved(Confirmed(clicks[k].source, quoteTime, own))
           first == CHOOSE k \in Validating : TRUE
<1>2. own \in Int /\ inFlight' = No /\ No \in Int /\ UNCHANGED <<quoteTime, session, found, prefetch>>
  BY RateIsRight DEF ProviderConfirms
<1>3. ASSUME NEW k \in Clicks
      PROVE  clicks[k] \in ClickRecord /\ StoredIsRight(new(k)) /\ FreshAt(new(k), quoteTime)
  <2>1. clicks[k] \in ClickRecord
    BY DEF QuoteIInv, ClickIsRight
  <2>2. clicks[k].source \in FareRecord
    BY <2>1 DEF ClickRecord
  <2> QED
    BY <1>2, <2>1, <2>2, ConfirmedIsRight
<1> HIDE DEF new
<1>4. \A k \in Validating : k \in Clicks
  BY DEF Validating
<1>5. Validating # {} => first \in Clicks
  BY <1>4
<1>6. offer' = NoOffer \/ StoredIsRight(offer')
  BY <1>1, <1>3, <1>5 DEF QuoteIInv, new
<1>7. dayRate' \in [day : Int, rate : Int]
  <2>1. CASE Validating = {}
    BY <1>1, <2>1 DEF QuoteIInv
  <2>2. CASE Validating # {}
    <3>1. new(first) \in FareRecord /\ dayRate' = RateAfter(new(first))
      BY <1>1, <1>3, <1>5, <2>2 DEF StoredIsRight, new
    <3> QED
      BY <3>1, RateIsRight
  <2> QED
    BY <2>1, <2>2
<1> DEFINE next == [k \in Clicks |-> IF k \in Validating THEN Quoted(clicks[k], new(k)) ELSE clicks[k]]
<1>8. ASSUME NEW k \in Clicks PROVE ClickIsRight(next[k], No, quoteTime)
  <2>1. CASE k \in Validating
    BY <1>3, <2>1, QuotedIsRight
  <2>2. CASE k \notin Validating
    <3>1. ClickIsRight(clicks[k], inFlight, quoteTime) /\ clicks[k].at # "validating"
      BY <2>2 DEF QuoteIInv, Validating
    <3> QED
      BY <2>2, <3>1 DEF ClickIsRight
  <2> QED
    BY <2>1, <2>2
<1>9. clicks' = [k \in Clicks |-> next[k]]
  BY <1>1 DEF new
<1> HIDE DEF next
<1> QED
  BY <1>2, <1>6, <1>7, <1>8, <1>9, ClicksChange

(* A validation that fails tells all who share it so.                      *)
LEMMA ValidationFailsStep == ASSUME QuoteIInv, ValidationFails PROVE QuoteIInv'
<1> DEFINE refused == [NoQuote EXCEPT !.at = "told", !.code = 409]
           next == [k \in Clicks |-> IF k \in Validating THEN refused ELSE clicks[k]]
<1>2. ClickIsRight(refused, No, quoteTime)
  <2> DEFINE n == 409
  <2>1. n \in Int /\ n # 200
    OBVIOUS
  <2> HIDE DEF n
  <2>2. ClickIsRight([NoQuote EXCEPT !.at = "told", !.code = n], No, quoteTime)
    BY <2>1, RefusedIsRight
  <2> QED
    BY <2>2 DEF n
<1>3. /\ clicks' = [k \in Clicks |-> next[k]] /\ inFlight' = No /\ No \in Int
      /\ UNCHANGED <<quoteTime, offer, session, found, prefetch, dayRate>>
  BY DEF ValidationFails, No
<1> HIDE DEF refused
<1>4. ASSUME NEW k \in Clicks PROVE ClickIsRight(next[k], No, quoteTime)
  <2>1. CASE k \in Validating
    BY <1>2, <2>1
  <2>2. CASE k \notin Validating
    <3>1. ClickIsRight(clicks[k], inFlight, quoteTime) /\ clicks[k].at # "validating"
      BY <2>2 DEF QuoteIInv, Validating
    <3> QED
      BY <2>2, <3>1 DEF ClickIsRight
  <2> QED
    BY <2>1, <2>2
<1> HIDE DEF next
<1>5. (offer' = NoOffer \/ StoredIsRight(offer')) /\ dayRate' \in [day : Int, rate : Int]
  BY <1>3 DEF QuoteIInv
<1> QED
  BY <1>3, <1>4, <1>5, ClicksChange

(* The rate a click waited for arrives, and it is told its quotation.      *)
LEMMA RateAnswersStep == ASSUME QuoteIInv, NEW k \in Clicks, RateAnswers(k) PROVE QuoteIInv'
<1> DEFINE c == clicks[k]
<1>1. PICK got \in {No, RateToday} :
        /\ clicks' = [clicks EXCEPT ![k].at = "told", ![k].code = 200, ![k].since = quoteTime, ![k].offer.rate = got]
        /\ dayRate' = RemembersRate(got)
  BY DEF RateAnswers
<1>2. /\ c \in ClickRecord /\ FreshAt(c.offer, c.since) /\ quoteTime <= c.since + RateLimit
      /\ quoteTime \in Int
  BY DEF RateAnswers, QuoteIInv, ClickIsRight
<1>3. got \in Int /\ dayRate' \in [day : Int, rate : Int]
  BY <1>1, RateIsRight
<1> DEFINE rated == [c.offer EXCEPT !.rate = got]
           next == [c EXCEPT !.at = "told", !.code = 200, !.since = quoteTime, !.offer = rated]
<1>4. /\ rated \in FareRecord /\ rated.price = c.offer.price /\ rated.verified = c.offer.verified
      /\ rated.links = c.offer.links
  BY <1>2, <1>3 DEF FareRecord, FreshAt
<1>5. clicks' = [clicks EXCEPT ![k] = next]
  BY <1>1, <1>2, ZenonT(60) DEF ClickRecord, QuoteIInv
<1>6. c.since \in Int /\ c.offer.price \in Int
  BY <1>2 DEF ClickRecord, FareRecord
<1>7. /\ quoteTime - c.offer.price <= Freshness + SearchLasts + RateLimit
      /\ c.offer.verified # No => quoteTime - c.offer.price <= Freshness + RateLimit
      /\ c.offer.links = "handles"
  <2>1. c.since - c.offer.price <= Freshness + SearchLasts /\ c.offer.links = "handles"
    BY <1>2 DEF FreshAt
  <2>2. c.offer.verified # No => c.since - c.offer.price <= Freshness
    BY <1>2 DEF FreshAt
  <2> HIDE DEF c
  <2> QED
    BY <1>2, <1>6, <2>1, <2>2, QuotationAssumption
<1> HIDE DEF rated, c
<1>8. next \in ClickRecord /\ next.at = "told" /\ next.since = quoteTime /\ next.offer = rated
  <2> DEFINE one == [c EXCEPT !.at = "told", !.code = 200]
  <2>1. one \in ClickRecord /\ one.at = "told"
    <3>1. \A n \in Int : LET some == [c EXCEPT !.at = "told", !.code = n]
                         IN some \in ClickRecord /\ some.at = "told"
      BY <1>2 DEF ClickRecord
    <3>2. 200 \in Int
      OBVIOUS
    <3> QED
      BY <3>1, <3>2
  <2>2. next = [one EXCEPT !.since = quoteTime, !.offer = rated]
    BY <1>2 DEF ClickRecord
  <2> HIDE DEF one, next
  <2> QED
    BY <1>2, <1>4, <2>1, <2>2 DEF ClickRecord
<1> HIDE DEF next
<1>9. ClickIsRight(next, inFlight, quoteTime)
  BY <1>4, <1>7, <1>8 DEF ClickIsRight
<1> QED
  BY <1>3, <1>5, <1>9 DEF RateAnswers, QuoteIInv

(* Time passes only while no deadline is due.                              *)
LEMMA QuoteTimePassesStep == ASSUME QuoteIInv, QuoteTimePasses PROVE QuoteIInv'
<1> USE DEF QuoteIInv
<1>1. ASSUME NEW k \in Clicks PROVE ClickIsRight(clicks[k], inFlight, quoteTime + 1)
  <2>1. ClickIsRight(clicks[k], inFlight, quoteTime) /\ clicks[k].since \in Int
    BY DEF ClickIsRight, ClickRecord
  <2>2. clicks[k].at = "rating" => quoteTime < clicks[k].since + RateLimit
    BY DEF QuoteTimePasses
  <2> QED
    BY <2>1, <2>2, QuotationAssumption DEF ClickIsRight
<1>2. ASSUME found # NoOffer PROVE session = "running" /\ FoundIsRight(found, quoteTime + 1)
  <2>1. session = "running" /\ FoundIsRight(found, quoteTime) /\ found.price \in Nat
    BY <1>2 DEF FoundIsRight
  <2>2. quoteTime < found.price + SearchLasts
    BY <1>2, <2>1 DEF QuoteTimePasses
  <2> QED
    BY <2>1, <2>2, QuotationAssumption DEF FoundIsRight
<1>3. inFlight # No => inFlight <= quoteTime + 1 /\ quoteTime + 1 <= inFlight + ValidationLimit
  BY QuotationAssumption DEF QuoteTimePasses
<1>4. quoteTime' = quoteTime + 1 /\ UNCHANGED <<offer, session, found, prefetch, inFlight, clicks, dayRate>>
  BY DEF QuoteTimePasses
<1> QED
  BY <1>1, <1>2, <1>3, <1>4

(* Every step of the quotations keeps their invariant.                     *)
LEMMA QuotationStep == ASSUME QuoteIInv, [QuotationNext]_quoteVars PROVE QuoteIInv'
<1>1. CASE UNCHANGED quoteVars
  BY <1>1 DEF quoteVars, QuoteIInv
<1>2. ASSUME NEW k \in Clicks, Click(k) \/ RateAnswers(k) PROVE QuoteIInv'
  BY <1>2, ClickStep, RateAnswersStep
<1> QED
  BY <1>1, <1>2, FareArrivesStep, SearchSyncStep, PrefetchAnswersStep, SearchEndsStep, SessionLeavesStep,
     ProviderConfirmsStep, ValidationFailsStep, QuoteTimePassesStep DEF QuotationNext

(* A quote's price was said by the provider within its freshness, nobody    *)
(* waits longer than a validation may take, no provider's URL leaves, and a *)
(* search asks for its rate at most twice (http-router.ts).                 *)
THEOREM QuotesHold == QuotationSpec => []QuotesAreConfirmed
<1>1. QuoteIInv /\ [QuotationNext]_quoteVars => QuoteIInv'
  BY QuotationStep
<1>2. ASSUME QuoteIInv PROVE QuotesAreConfirmed
  <2>1. ASSUME NEW k \in Clicks, clicks[k].at = "validating"
        PROVE  inFlight # No /\ quoteTime - clicks[k].since <= ValidationLimit
    <3>1. inFlight # No /\ inFlight <= clicks[k].since /\ clicks[k].since \in Int
      BY <1>2, <2>1 DEF QuoteIInv, ClickIsRight, ClickRecord
    <3>2. quoteTime <= inFlight + ValidationLimit /\ quoteTime \in Nat /\ inFlight \in Int
      BY <1>2, <3>1 DEF QuoteIInv
    <3> QED
      BY <3>1, <3>2, QuotationAssumption
  <2>2. prefetch.tries <= 2
    BY <1>2 DEF QuoteIInv
  <2> QED
    BY <1>2, <2>1, <2>2 DEF QuoteIInv, ClickIsRight, QuotesAreConfirmed
<1> QED
  BY <1>1, <1>2, QuotationInitOK, PTL DEF QuotationSpec

-----------------------------------------------------------------------------
(* THE BOARD OF A MATRIX                                                   *)

BoardPrice == CellPrice \union {NoPrice}
CellOf(providers, olds) == [confidence : Confidence, price : BoardPrice, from : providers, old : olds]

(* A draft cell has a price exactly when a provider answered one; a draft   *)
(* that is over waits for nothing; what is shown of this search is not      *)
(* cheaper than what would be shown now; a completed board is shown whole.  *)
BoardIInv ==
  /\ \A p \in BoardProvider : \A k \in BoardCell :
       /\ drafts[p][k] \in CellOf({p}, {FALSE})
       /\ drafts[p][k].confidence = "live" <=> drafts[p][k].price # NoPrice
       /\ p \in finished => drafts[p][k].confidence # "loading"
  /\ drafts = [p \in BoardProvider |-> [k \in BoardCell |-> drafts[p][k]]]
  /\ summary = [p \in BoardProvider |-> Counted(drafts[p])]
  /\ failed \subseteq finished /\ finished \subseteq BoardProvider
  /\ earlier \in [BoardCell -> Cached]
  /\ board \in [BoardCell -> CellOf(BoardProvider, BOOLEAN)]
  /\ \A k \in BoardCell : board[k].confidence = "live" /\ ~board[k].old =>
       \E p \in BoardProvider : drafts[p][k].price <= board[k].price /\ board[k].price \in CellPrice
  /\ boardJob \in {"running", "completed", "cancelled"}
  /\ boardJob = "completed" => board = Board /\ finished = BoardProvider

(* Prices are naturals, and the absent one is above them all.              *)
LEMMA PricesAreNumbers ==
  /\ BoardPrice \subseteq Nat /\ \A price \in BoardPrice : price <= NoPrice
  /\ \A price \in BoardPrice : price # NoPrice => price \in CellPrice /\ price < NoPrice
BY BoardAssumption DEF BoardPrice

(* The cell of the board is the cheaper of the two drafts.                 *)
LEMMA SelectedIsCheapest ==
  ASSUME BoardIInv, NEW k \in BoardCell
  PROVE  /\ \E p \in BoardProvider : Selected(k) = drafts[p][k]
         /\ \A p \in BoardProvider : Selected(k).price <= drafts[p][k].price
         /\ drafts["agil-local"][k].price = Selected(k).price /\ (\A p \in BoardProvider : drafts[p][k].confidence # "loading")
              => Selected(k) = drafts["agil-local"][k]
<1> DEFINE a == drafts["agil-local"][k]
           b == drafts["costamar"][k]
<1>1. /\ BoardProvider = {"agil-local", "costamar"}
      /\ Selected(k) = IF Picks(a, b) THEN b ELSE a
  BY DEF BoardProvider, BoardProviders, Selected
<1>2. a.price \in Nat /\ b.price \in Nat
  BY <1>1, PricesAreNumbers DEF BoardIInv, CellOf
<1>3. a.confidence \in Confidence /\ b.confidence \in Confidence
  BY <1>1 DEF BoardIInv, CellOf
<1>4. (a.confidence = "live" <=> a.price # NoPrice) /\ (b.confidence = "live" <=> b.price # NoPrice)
  BY <1>1 DEF BoardIInv
<1> HIDE DEF a, b
<1>5. CASE Picks(a, b)
  <2>1. b.price <= a.price
    BY <1>2, <1>5 DEF Picks
  <2>2. a.price = b.price => a.confidence = "loading" \/ b.confidence = "loading"
    BY <1>2, <1>3, <1>4, <1>5 DEF Picks, StateRank, Confidence
  <2> QED
    BY <1>1, <1>2, <1>5, <2>1, <2>2 DEF a, b
<1>6. CASE ~Picks(a, b)
  <2>1. a.price <= b.price
    BY <1>2, <1>6 DEF Picks
  <2> QED
    BY <1>1, <1>2, <1>6, <2>1 DEF a, b
<1> QED
  BY <1>5, <1>6

(* What would be shown now is a cell, and where a provider answered a price *)
(* it is that, or a cheaper one.                                            *)
LEMMA BoardIsRight ==
  ASSUME BoardIInv
  PROVE  /\ Board \in [BoardCell -> CellOf(BoardProvider, BOOLEAN)]
         /\ \A k \in BoardCell : Board[k].confidence = "live" /\ ~Board[k].old =>
              \E p \in BoardProvider : drafts[p][k].price <= Board[k].price /\ Board[k].price \in CellPrice
         /\ \A k \in BoardCell : \A p \in BoardProvider : drafts[p][k].price \in CellPrice =>
              Board[k].confidence = "live" /\ ~Board[k].old /\ Board[k].price <= drafts[p][k].price
<1> SUFFICES ASSUME NEW k \in BoardCell
             PROVE  /\ ShownCell(k) \in CellOf(BoardProvider, BOOLEAN)
                    /\ ShownCell(k).confidence = "live" /\ ~ShownCell(k).old =>
                         \E p \in BoardProvider : drafts[p][k].price <= ShownCell(k).price /\ ShownCell(k).price \in CellPrice
                    /\ \A p \in BoardProvider : drafts[p][k].price \in CellPrice =>
                         ShownCell(k).confidence = "live" /\ ~ShownCell(k).old /\ ShownCell(k).price <= drafts[p][k].price
  BY DEF Board
<1>1. PICK q \in BoardProvider : Selected(k) = drafts[q][k]
  BY SelectedIsCheapest
<1>2. /\ Selected(k) \in CellOf({q}, {FALSE})
      /\ Selected(k).confidence = "live" <=> Selected(k).price # NoPrice
      /\ Selected(k).price \in BoardPrice /\ ~Selected(k).old
  <2>1. /\ drafts[q][k] \in CellOf({q}, {FALSE})
        /\ drafts[q][k].confidence = "live" <=> drafts[q][k].price # NoPrice
    BY DEF BoardIInv
  <2>2. drafts[q][k].price \in BoardPrice /\ ~drafts[q][k].old
    BY <2>1 DEF CellOf
  <2> QED
    BY <1>1, <2>1, <2>2
<1>3. earlier[k] \in CellOf(BoardProvider, {TRUE})
  <2>1. earlier[k] \in Cached
    BY DEF BoardIInv
  <2>2. PICK confidence \in {"live", "loading"}, price \in BoardPrice :
          earlier[k] = Cell(confidence, price, "agil-local", TRUE)
    BY <2>1 DEF Cached, BoardPrice
  <2> QED
    BY <2>2 DEF Cell, CellOf, Confidence, BoardProvider
<1>4. \A p \in BoardProvider : drafts[p][k].price \in CellPrice =>
        Selected(k).confidence = "live" /\ Selected(k).price <= drafts[p][k].price
  <2> SUFFICES ASSUME NEW p \in BoardProvider, drafts[p][k].price \in CellPrice
               PROVE  Selected(k).confidence = "live" /\ Selected(k).price <= drafts[p][k].price
    OBVIOUS
  <2>1. Selected(k).price <= drafts[p][k].price
    BY SelectedIsCheapest
  <2>2. Selected(k).price \in Nat /\ drafts[p][k].price < NoPrice /\ drafts[p][k].price \in Nat /\ NoPrice \in Nat
    BY <1>2, PricesAreNumbers, BoardAssumption
  <2>3. Selected(k).price # NoPrice
    BY <2>1, <2>2
  <2> QED
    BY <1>2, <2>1, <2>3
<1>5. CASE Selected(k).confidence = "loading" /\ earlier[k].confidence # "loading"
  <2>1. ShownCell(k) = earlier[k]
    BY <1>5 DEF ShownCell
  <2> QED
    BY <1>3, <1>4, <1>5, <2>1 DEF CellOf
<1>6. CASE ~(Selected(k).confidence = "loading" /\ earlier[k].confidence # "loading")
  <2>1. ShownCell(k) = Selected(k)
    BY <1>6 DEF ShownCell
  <2>2. Selected(k) \in CellOf(BoardProvider, BOOLEAN)
    BY <1>2 DEF CellOf
  <2>3. Selected(k).price \in Nat /\ (Selected(k).price # NoPrice => Selected(k).price \in CellPrice)
    BY <1>2, PricesAreNumbers
  <2>4. drafts[q][k].price <= Selected(k).price
    BY <1>1, <2>3
  <2> QED
    BY <1>2, <1>4, <2>1, <2>2, <2>3, <2>4
<1> QED
  BY <1>5, <1>6

CountMoved(counts, was, is) ==
  IF was = is THEN counts ELSE [counts EXCEPT ![was] = @ - 1, ![is] = @ + 1]

(* The summary of a draft follows each cell by difference                   *)
(* (updateMatrixDraftCell).                                                 *)
LEMMA SummaryFollows ==
  ASSUME NEW cells, cells = [k \in BoardCell |-> cells[k]], NEW k \in BoardCell, NEW cell,
         cells[k].confidence \in Confidence, cell.confidence \in Confidence
  PROVE  Counted([cells EXCEPT ![k] = cell]) = CountMoved(Counted(cells), cells[k].confidence, cell.confidence)
<1> USE DEF CountMoved
<1> DEFINE next == [cells EXCEPT ![k] = cell]
           Of(c) == {j \in BoardCell : cells[j].confidence = c}
           After(c) == {j \in BoardCell : next[j].confidence = c}
           was == cells[k].confidence
           is == cell.confidence
<1>1. \A j \in BoardCell : next[j] = IF j = k THEN cell ELSE cells[j]
  OBVIOUS
<1>2. /\ Counted(cells) = [c \in Confidence |-> Cardinality(Of(c))]
      /\ Counted(next) = [c \in Confidence |-> Cardinality(After(c))]
  BY DEF Counted
<1> HIDE DEF next
<1>3. \A c : IsFiniteSet(Of(c))
  BY FS_Subset, BoardAssumption
<1>4. CASE was = is
  <2>1. \A c : After(c) = Of(c)
    BY <1>1, <1>4
  <2>2. Counted(next) = Counted(cells)
    <3> HIDE DEF Of, After
    <3> QED
      BY <1>2, <2>1
  <2> QED
    BY <1>4, <2>2 DEF next
<1>5. CASE was # is
  <2>1. After(was) = Of(was) \ {k} /\ k \in Of(was)
    BY <1>1, <1>5
  <2>2. After(is) = Of(is) \cup {k} /\ k \notin Of(is)
    BY <1>1, <1>5
  <2>3. \A c : c # was /\ c # is => After(c) = Of(c)
    BY <1>1
  <2>u. was \in Confidence /\ is \in Confidence
    OBVIOUS
  <2> HIDE DEF Of, After, was, is
  <2>4. Cardinality(After(was)) = Cardinality(Of(was)) - 1
    BY <1>3, <2>1, FS_RemoveElement
  <2>5. Cardinality(After(is)) = Cardinality(Of(is)) + 1
    BY <1>3, <2>2, FS_AddElement
  <2>6. Counted(next) = [Counted(cells) EXCEPT ![was] = Counted(cells)[was] - 1, ![is] = Counted(cells)[is] + 1]
    <3>1. \A c \in Confidence : Counted(next)[c] = Cardinality(After(c)) /\ Counted(cells)[c] = Cardinality(Of(c))
      BY <1>2
    <3>2. ASSUME NEW c \in Confidence
          PROVE  Counted(next)[c] = IF c = is THEN Counted(cells)[is] + 1
                                    ELSE IF c = was THEN Counted(cells)[was] - 1 ELSE Counted(cells)[c]
      <4>1. CASE c = is
        BY <2>5, <2>u, <3>1, <4>1
      <4>2. CASE c = was /\ c # is
        BY <2>4, <2>u, <3>1, <4>2
      <4>3. CASE c # was /\ c # is
        BY <2>3, <3>1, <4>3
      <4> QED
        BY <4>1, <4>2, <4>3
    <3>3. /\ Counted(next) = [c \in Confidence |-> Counted(next)[c]]
          /\ Counted(cells) = [c \in Confidence |-> Counted(cells)[c]]
      BY <1>2
    <3> QED
      BY <1>5, <2>u, <3>2, <3>3
  <2> QED
    BY <1>5, <2>6, <2>u, <1>2 DEF next, was, is
<1> QED
  BY <1>4, <1>5

(* A board whose cells are all loading is right.                           *)
LEMMA BoardInitOK == BoardInit => BoardIInv
<1> SUFFICES ASSUME BoardInit PROVE BoardIInv
  OBVIOUS
<1>1. ASSUME NEW p \in BoardProvider, NEW k \in BoardCell
      PROVE  /\ drafts[p][k] = Loading(p) /\ drafts[p][k] \in CellOf({p}, {FALSE})
             /\ drafts[p][k].confidence = "loading" /\ drafts[p][k].price = NoPrice
  BY DEF BoardInit, Loading, Cell, CellOf, Confidence, BoardPrice
<1>2. ASSUME NEW k \in BoardCell PROVE board[k] \in CellOf(BoardProvider, BOOLEAN) /\ (board[k].confidence = "live" => board[k].old)
  <2>1. Selected(k) \in {drafts[p][k] : p \in BoardProvider}
    BY DEF Selected, BoardProviders, BoardProvider
  <2>2. PICK p \in BoardProvider : Selected(k) = drafts[p][k]
    BY <2>1
  <2>3. Selected(k) \in CellOf(BoardProvider, BOOLEAN) /\ Selected(k).confidence = "loading"
    <3>1. drafts[p][k] \in CellOf({p}, {FALSE}) /\ drafts[p][k].confidence = "loading"
      BY <1>1
    <3>2. drafts[p][k] \in CellOf(BoardProvider, BOOLEAN)
      BY <3>1 DEF CellOf
    <3> QED
      BY <2>2, <3>1, <3>2
  <2>4. earlier[k] \in Cached
    BY DEF BoardInit
  <2>5. PICK confidence \in {"live", "loading"}, price \in BoardPrice :
          earlier[k] = Cell(confidence, price, "agil-local", TRUE)
    BY <2>4 DEF Cached, BoardPrice
  <2>6. earlier[k] \in CellOf(BoardProvider, BOOLEAN) /\ earlier[k].old
    BY <2>5 DEF Cell, CellOf, Confidence, BoardProvider
  <2>7. board[k] = IF earlier[k].confidence # "loading" THEN earlier[k] ELSE Selected(k)
    BY <2>3 DEF BoardInit, Board, ShownCell
  <2> QED
    BY <2>3, <2>6, <2>7
<1>3. board = [k \in BoardCell |-> board[k]]
  BY DEF BoardInit, Board
<1>4. summary = [p \in BoardProvider |-> Counted(drafts[p])] /\ drafts = [p \in BoardProvider |-> [k \in BoardCell |-> drafts[p][k]]]
  BY DEF BoardInit
<1> QED
  BY <1>1, <1>2, <1>3, <1>4 DEF BoardInit, BoardIInv

(* A cell that is resolved is cheaper than a waiting one, or as dear. *)
LEMMA CellResolvedStep ==
  ASSUME BoardIInv, NEW q \in BoardProvider, NEW k \in BoardCell, CellResolved(q, k)
  PROVE  BoardIInv'
<1> USE DEF BoardIInv
<1>1. PICK cell \in {Live(q, price) : price \in CellPrice} \union {Unavailable(q)} : UpdateDraft(q, k, cell)
  BY DEF CellResolved
<1>2. /\ cell \in CellOf({q}, {FALSE}) /\ (cell.confidence = "live" <=> cell.price # NoPrice)
      /\ cell.confidence # "loading"
  <2>1. CASE cell = Unavailable(q)
    BY <2>1 DEF Unavailable, Cell, CellOf, Confidence, BoardPrice
  <2>2. ASSUME NEW price \in CellPrice, cell = Live(q, price)
        PROVE  /\ cell \in CellOf({q}, {FALSE}) /\ (cell.confidence = "live" <=> cell.price # NoPrice)
               /\ cell.confidence # "loading"
    BY <2>2, BoardAssumption DEF Live, Cell, CellOf, Confidence, BoardPrice
  <2> QED
    BY <1>1, <2>1, <2>2
<1>3. drafts' = [drafts EXCEPT ![q][k] = cell] /\ UNCHANGED <<finished, failed, earlier, board, boardJob>>
  BY <1>1 DEF UpdateDraft, CellResolved
<1>4. /\ drafts[q][k] \in CellOf({q}, {FALSE}) /\ drafts[q][k].confidence = "loading" /\ q \notin finished
      /\ boardJob = "running"
  BY DEF CellResolved, BoardRunning
<1>5. drafts[q][k].price = NoPrice /\ cell.price \in BoardPrice /\ cell.price <= NoPrice
  BY <1>2, <1>4, PricesAreNumbers DEF CellOf
<1>6. \A p \in BoardProvider : \A j \in BoardCell :
        drafts'[p][j] = IF p = q /\ j = k THEN cell ELSE drafts[p][j]
  BY <1>3
<1>7. drafts' = [p \in BoardProvider |-> [j \in BoardCell |-> drafts'[p][j]]]
  BY <1>3
<1>8. summary' = [p \in BoardProvider |-> Counted(drafts'[p])]
  <2> DEFINE was == drafts[q][k].confidence
             is == cell.confidence
  <2>1. was \in Confidence /\ is \in Confidence
    BY <1>2, <1>4 DEF CellOf
  <2>2. drafts[q] = [j \in BoardCell |-> drafts[q][j]]
    OBVIOUS
  <2>3. drafts'[q] = [drafts[q] EXCEPT ![k] = cell] /\ \A p \in BoardProvider : p # q => drafts'[p] = drafts[p]
    BY <1>3
  <2>4. Counted(drafts'[q]) = CountMoved(Counted(drafts[q]), was, is)
    BY <2>1, <2>2, <2>3, SummaryFollows
  <2>5. summary[q] = Counted(drafts[q])
    OBVIOUS
  <2>6. summary' = IF was = is THEN summary ELSE [summary EXCEPT ![q][was] = @ - 1, ![q][is] = @ + 1]
    BY <1>1 DEF UpdateDraft
  <2> HIDE DEF was, is
  <2>7. CASE was = is
    BY <2>3, <2>4, <2>6, <2>7 DEF CountMoved
  <2>8. CASE was # is
    <3>1. summary' = [summary EXCEPT ![q] = Counted(drafts'[q])]
      BY <2>4, <2>5, <2>6, <2>8 DEF CountMoved
    <3> QED
      BY <2>3, <3>1
  <2> QED
    BY <2>7, <2>8
<1>9. ASSUME NEW j \in BoardCell, board[j].confidence = "live" /\ ~board[j].old
      PROVE  \E p \in BoardProvider : drafts'[p][j].price <= board[j].price /\ board[j].price \in CellPrice
  <2>1. PICK p \in BoardProvider : drafts[p][j].price <= board[j].price /\ board[j].price \in CellPrice
    BY <1>9
  <2>2. ~(p = q /\ j = k)
    <3>1. board[j].price < NoPrice /\ board[j].price \in Nat /\ NoPrice \in Nat
      BY <2>1, BoardAssumption
    <3> QED
      BY <1>5, <2>1, <3>1
  <2> QED
    BY <1>6, <2>1, <2>2
<1> HIDE DEF BoardIInv
<1>10. \A p \in BoardProvider : \A j \in BoardCell :
         /\ drafts'[p][j] \in CellOf({p}, {FALSE})
         /\ drafts'[p][j].confidence = "live" <=> drafts'[p][j].price # NoPrice
         /\ p \in finished => drafts'[p][j].confidence # "loading"
  <2> SUFFICES ASSUME NEW p \in BoardProvider, NEW j \in BoardCell
               PROVE  /\ drafts'[p][j] \in CellOf({p}, {FALSE})
                      /\ drafts'[p][j].confidence = "live" <=> drafts'[p][j].price # NoPrice
                      /\ p \in finished => drafts'[p][j].confidence # "loading"
    OBVIOUS
  <2>1. CASE p = q /\ j = k
    BY <1>2, <1>6, <2>1
  <2>2. CASE ~(p = q /\ j = k)
    <3>1. drafts'[p][j] = drafts[p][j]
      BY <1>6, <2>2
    <3>2. /\ drafts[p][j] \in CellOf({p}, {FALSE})
          /\ drafts[p][j].confidence = "live" <=> drafts[p][j].price # NoPrice
          /\ p \in finished => drafts[p][j].confidence # "loading"
      BY DEF BoardIInv
    <3> QED
      BY <3>1, <3>2
  <2> QED
    BY <2>1, <2>2
<1> QED
  BY <1>3, <1>4, <1>7, <1>8, <1>9, <1>10 DEF BoardIInv

(* The last answer of a provider changes no cell.                          *)
LEMMA MatrixAnsweredStep ==
  ASSUME BoardIInv, NEW q \in BoardProvider, MatrixAnswered(q)
  PROVE  BoardIInv'
<1>1. summary' = summary
  BY DEF MatrixAnswered, BoardIInv
<1> QED
  BY <1>1, ZenonT(60) DEF MatrixAnswered, BoardRunning, BoardIInv, Board, ShownCell, Selected

(* A provider that fails keeps the cells it had. *)
LEMMA MatrixFailsStep ==
  ASSUME BoardIInv, NEW q \in BoardProvider, MatrixFails(q)
  PROVE  BoardIInv'
<1> USE DEF BoardIInv
<1>1. /\ drafts' = [drafts EXCEPT ![q] = Failed(q)] /\ finished' = finished \union {q} /\ failed' = failed \union {q}
      /\ UNCHANGED <<earlier, board, boardJob>> /\ boardJob = "running"
      /\ summary' = [summary EXCEPT ![q] = Counted(drafts'[q])]
  BY DEF MatrixFails, BoardRunning
<1>2. ASSUME NEW j \in BoardCell
      PROVE  /\ drafts'[q][j] = IF drafts[q][j].confidence = "loading" THEN Unavailable(q) ELSE drafts[q][j]
             /\ drafts'[q][j] \in CellOf({q}, {FALSE}) /\ drafts'[q][j].price = drafts[q][j].price
             /\ drafts'[q][j].confidence = "live" <=> drafts'[q][j].price # NoPrice
             /\ drafts'[q][j].confidence # "loading"
  <2>1. drafts'[q][j] = IF drafts[q][j].confidence = "loading" THEN Unavailable(q) ELSE drafts[q][j]
    BY <1>1 DEF Failed
  <2>2. drafts[q][j] \in CellOf({q}, {FALSE}) /\ (drafts[q][j].confidence = "live" <=> drafts[q][j].price # NoPrice)
    OBVIOUS
  <2>3. /\ Unavailable(q) \in CellOf({q}, {FALSE}) /\ Unavailable(q).price = NoPrice
        /\ Unavailable(q).confidence = "unavailable"
    BY DEF Unavailable, Cell, CellOf, Confidence, BoardPrice
  <2> QED
    BY <2>1, <2>2, <2>3
<1>3. \A p \in BoardProvider : p # q => drafts'[p] = drafts[p]
  BY <1>1
<1>4. drafts' = [p \in BoardProvider |-> [j \in BoardCell |-> drafts'[p][j]]]
  BY <1>1 DEF Failed
<1>5. summary' = [p \in BoardProvider |-> Counted(drafts'[p])]
  BY <1>1, <1>3
<1>6. \A p \in BoardProvider : \A j \in BoardCell : drafts'[p][j].price = drafts[p][j].price
  BY <1>2, <1>3
<1> HIDE DEF BoardIInv
<1>7. \A p \in BoardProvider : \A j \in BoardCell :
         /\ drafts'[p][j] \in CellOf({p}, {FALSE})
         /\ drafts'[p][j].confidence = "live" <=> drafts'[p][j].price # NoPrice
         /\ p \in finished' => drafts'[p][j].confidence # "loading"
  BY <1>1, <1>2, <1>3, ZenonT(60) DEF BoardIInv
<1>8. failed' \subseteq finished' /\ finished' \subseteq BoardProvider
  BY <1>1 DEF BoardIInv
<1> QED
  BY <1>1, <1>4, <1>5, <1>6, <1>7, <1>8 DEF BoardIInv

(* A sync or an end of the job shows the board and leaves what it is made  *)
(* of.                                                                     *)
LEMMA CellShownStep ==
  ASSUME BoardIInv, SyncMatrixJob \/ MatrixCompletes \/ MatrixCancelled
  PROVE  BoardIInv'
<1>1. UNCHANGED <<drafts, summary, finished, failed, earlier>> /\ boardJob = "running"
  BY DEF SyncMatrixJob, MatrixCompletes, MatrixCancelled, BoardRunning
<1>2. Board' = Board
  BY <1>1 DEF Board, ShownCell, Selected
<1>3. CASE SyncMatrixJob \/ MatrixCompletes
  <2>1. board' = Board
    BY <1>3 DEF SyncMatrixJob, MatrixCompletes
  <2>2. /\ board' \in [BoardCell -> CellOf(BoardProvider, BOOLEAN)]
        /\ \A k \in BoardCell : board'[k].confidence = "live" /\ ~board'[k].old =>
             \E p \in BoardProvider : drafts[p][k].price <= board'[k].price /\ board'[k].price \in CellPrice
    BY <2>1, BoardIsRight
  <2>3. boardJob' \in {"running", "completed"} /\ (boardJob' = "completed" => finished = BoardProvider)
    BY <1>1, <1>3 DEF SyncMatrixJob, MatrixCompletes
  <2> QED
    BY <1>1, <1>2, <2>1, <2>2, <2>3 DEF BoardIInv
<1>4. CASE MatrixCancelled
  <2>1. board' = board /\ boardJob' = "cancelled"
    BY <1>4 DEF MatrixCancelled
  <2> QED
    BY <1>1, <2>1 DEF BoardIInv
<1> QED
  BY <1>3, <1>4

(* Every step of the board keeps its invariant.                            *)
LEMMA BoardStep == ASSUME BoardIInv, [BoardNext]_boardVars PROVE BoardIInv'
<1>1. CASE UNCHANGED boardVars
  <2>1. UNCHANGED <<drafts, summary, finished, failed, earlier, board, boardJob>>
    BY <1>1 DEF boardVars
  <2>2. Board' = Board
    BY <2>1 DEF Board, ShownCell, Selected
  <2> QED
    BY <2>1, <2>2 DEF BoardIInv
<1> QED
  BY <1>1, CellResolvedStep, MatrixAnsweredStep, MatrixFailsStep, CellShownStep DEF BoardNext

(* What the board shows only gives way to a cheaper fare.                   *)
LEMMA StepImproves ==
  ASSUME BoardIInv, [BoardNext]_boardVars, NEW k \in BoardCell, board[k].confidence = "live", ~board[k].old
  PROVE  board'[k].confidence = "live" /\ ~board'[k].old /\ board'[k].price <= board[k].price
<1>1. PICK p \in BoardProvider : drafts[p][k].price <= board[k].price /\ board[k].price \in CellPrice
  BY DEF BoardIInv
<1>2. drafts[p][k].price \in BoardPrice /\ board[k].price \in Nat /\ board[k].price < NoPrice /\ NoPrice \in Nat
  BY <1>1, BoardAssumption DEF BoardIInv, CellOf
<1>3. CASE board' = board
  BY <1>2, <1>3
<1>4. CASE board' = Board
  <2>1. drafts[p][k].price \in Nat /\ drafts[p][k].price # NoPrice
    <3>1. drafts[p][k].price \in Nat
      BY <1>2, PricesAreNumbers
    <3> QED
      BY <1>1, <1>2, <3>1
  <2>2. drafts[p][k].price \in CellPrice
    BY <1>2, <2>1, PricesAreNumbers
  <2>3. Board[k].confidence = "live" /\ ~Board[k].old /\ Board[k].price <= drafts[p][k].price
    BY <2>2, BoardIsRight
  <2>4. Board[k].price \in Nat
    BY BoardIsRight, PricesAreNumbers DEF CellOf
  <2> QED
    BY <1>1, <1>2, <1>4, <2>1, <2>3, <2>4
<1>5. board' \in {board, Board}
  BY DEF BoardNext, boardVars, CellResolved, MatrixAnswered, MatrixFails, SyncMatrixJob, MatrixCompletes, MatrixCancelled
<1> QED
  BY <1>3, <1>4, <1>5

(* A completed board is of this search, and of each cell says the cheapest. *)
LEMMA CompletedIsFresh == BoardIInv => BoardTypeOK /\ CompletedBoardIsFresh
<1> SUFFICES ASSUME BoardIInv PROVE BoardTypeOK /\ CompletedBoardIsFresh
  OBVIOUS
<1>1. BoardTypeOK
  BY DEF BoardIInv, BoardTypeOK, CellOf, BoardPrice
<1>2. ASSUME boardJob = "completed", NEW k \in BoardCell
      PROVE  /\ ~board[k].old /\ board[k].confidence # "loading"
             /\ board[k].price \in {drafts[p][k].price : p \in BoardProvider}
             /\ \A price \in {drafts[p][k].price : p \in BoardProvider} : board[k].price <= price
             /\ drafts["agil-local"][k].price = board[k].price => board[k].from = "agil-local"
  <2>1. board = Board /\ \A p \in BoardProvider : drafts[p][k].confidence # "loading"
    BY <1>2 DEF BoardIInv
  <2>2. PICK q \in BoardProvider : Selected(k) = drafts[q][k]
    BY SelectedIsCheapest
  <2>3. board[k] = Selected(k)
    BY <2>1, <2>2 DEF Board, ShownCell
  <2>4. \A p \in BoardProvider : drafts[p][k] \in CellOf({p}, {FALSE})
    BY DEF BoardIInv
  <2>5. drafts["agil-local"][k].from = "agil-local"
    BY <2>4 DEF CellOf, BoardProvider
  <2>6. ~drafts[q][k].old
    BY <2>4 DEF CellOf
  <2>7. drafts["agil-local"][k].price = Selected(k).price => Selected(k) = drafts["agil-local"][k]
    BY <2>1, SelectedIsCheapest
  <2>8. \A p \in BoardProvider : Selected(k).price <= drafts[p][k].price
    BY SelectedIsCheapest
  <2> QED
    BY <2>1, <2>2, <2>3, <2>5, <2>6, <2>7, <2>8
<1> QED
  BY <1>1, <1>2 DEF CompletedBoardIsFresh

(* A live price of this search stays on the board or gives way to a cheaper *)
(* one, and a completed board has nothing of an earlier search              *)
(* (http-router.ts), for any cells and prices and in whatever order         *)
(* providers answer and fail. A price that was cached may give way to any.  *)
THEOREM BoardImproves == BoardSpec => BoardOnlyImproves
<1>1. BoardIInv /\ [BoardNext]_boardVars => BoardIInv'
  BY BoardStep
<1>2. BoardIInv /\ [BoardNext]_boardVars =>
        \A k \in BoardCell :
          board[k].confidence = "live" /\ ~board[k].old =>
            board'[k].confidence = "live" /\ ~board'[k].old /\ board'[k].price <= board[k].price
  BY StepImproves
<1> QED
  BY <1>1, <1>2, BoardInitOK, CompletedIsFresh, PTL DEF BoardSpec, BoardOnlyImproves, PricesOnlyImprove

-----------------------------------------------------------------------------
(* WHO IS COUNTED, AND WHOSE CARDS ARE SHOWN                               *)

(* Where of any two one comes before the other, as a table orders its      *)
(* rows, at most n have fewer than n before them.                          *)
LEMMA FewComeFirst ==
  ASSUME NEW S, IsFiniteSet(S), NEW ahead \in [S -> SUBSET S], NEW n \in Nat,
         \A s \in S : s \notin ahead[s],
         \A s, t \in S : s # t => s \in ahead[t] \/ t \in ahead[s],
         \A s, t \in S : s \in ahead[t] => ahead[s] \subseteq ahead[t]
  PROVE  LET first == {s \in S : Cardinality(ahead[s]) < n}
         IN IsFiniteSet(first) /\ Cardinality(first) <= n
<1> DEFINE first == {s \in S : Cardinality(ahead[s]) < n}
           left == {n - Cardinality(ahead[s]) : s \in first}
<1>1. IsFiniteSet(first) /\ \A s \in S : IsFiniteSet(ahead[s]) /\ Cardinality(ahead[s]) \in Nat
  BY FS_Subset, FS_CardinalityType
<1>2. CASE first = {}
  BY <1>1, <1>2, FS_EmptySet
<1>3. CASE first # {}
  <2>1. left \in SUBSET Nat /\ left # {}
    BY <1>1, <1>3
  <2>2. \E k \in left : \A j \in left : k <= j
    <3> HIDE DEF left
    <3> QED
      BY <2>1, SmallestOf
  <2>3. PICK m \in first : \A s \in first : n - Cardinality(ahead[m]) <= n - Cardinality(ahead[s])
    BY <2>2
  <2>4. \A s \in first : Cardinality(ahead[s]) <= Cardinality(ahead[m])
    BY <1>1, <2>3
  <2>5. ASSUME NEW s \in first, s # m PROVE s \in ahead[m]
    <3>1. SUFFICES ASSUME m \in ahead[s] PROVE FALSE
      BY <2>5
    <3>2. m \notin ahead[m] /\ ahead[m] \cup {m} \subseteq ahead[s]
      BY <3>1
    <3>3. Cardinality(ahead[m] \cup {m}) = Cardinality(ahead[m]) + 1 /\ Cardinality(ahead[m] \cup {m}) <= Cardinality(ahead[s])
      BY <1>1, <3>2, FS_AddElement, FS_Subset
    <3> QED
      BY <1>1, <2>4, <3>3
  <2>6. first \ {m} \subseteq ahead[m]
    BY <2>5
  <2>7. Cardinality(first \ {m}) <= Cardinality(ahead[m])
    BY <1>1, <2>6, FS_Subset
  <2>8. Cardinality(first \ {m}) = Cardinality(first) - 1 /\ Cardinality(first) \in Nat
    BY <1>1, FS_RemoveElement, FS_CardinalityType
  <2> QED
    BY <1>1, <2>3, <2>7, <2>8
<1> QED
  BY <1>2, <1>3

(* The sum of f over S, as MapThenSumSet takes it.                         *)
SumOver(f, S) ==
  LET sum[T \in SUBSET S] ==
        IF T = {} THEN 0
        ELSE LET x == CHOOSE x \in T : TRUE
             IN f[x] + sum[T \ {x}]
  IN sum[S]

(* What is summed is a number, and nothing sums to none.                   *)
LEMMA SumsAreNumbers ==
  ASSUME NEW D, NEW f \in [D -> Nat], NEW S \in SUBSET D, IsFiniteSet(S)
  PROVE  SumOver(f, S) \in Nat /\ (S = {} => SumOver(f, S) = 0)
<1> DEFINE one(s) == CHOOSE x \in s : TRUE
           Small(n) == {T \in SUBSET S : Cardinality(T) <= n}
           Sums(n, g) == \A T \in Small(n) :
                           g[T] = IF T = {} THEN 0 ELSE f[one(T)] + g[T \ {one(T)}]
           reached == {n \in Nat : \E g \in [Small(n) -> Nat] : Sums(n, g)}
           total == Cardinality(S)
           iter == CHOOSE g : g = [T \in SUBSET S |-> IF T = {} THEN 0 ELSE f[one(T)] + g[T \ {one(T)}]]
<1>1. \A T \in SUBSET S : IsFiniteSet(T) /\ Cardinality(T) \in Nat
  BY FS_Subset, FS_CardinalityType
<1>2. \A T \in SUBSET S : T # {} => one(T) \in T /\ f[one(T)] \in Nat
  OBVIOUS
<1>3. ASSUME NEW n \in Nat, NEW T \in Small(n + 1), T # {}
      PROVE  T \ {one(T)} \in Small(n)
  <2>1. T \in SUBSET S /\ one(T) \in T
    BY <1>2, <1>3
  <2>2. Cardinality(T \ {one(T)}) = Cardinality(T) - 1
    BY <1>1, <2>1, FS_RemoveElement
  <2> QED
    BY <1>1, <1>3, <2>1, <2>2
<1>4. 0 \in reached
  <2>1. Small(0) = {{}}
    BY <1>1, FS_EmptySet
  <2>2. [T \in Small(0) |-> 0] \in [Small(0) -> Nat]
    OBVIOUS
  <2>3. Sums(0, [T \in Small(0) |-> 0])
    BY <2>1
  <2> QED
    BY <2>2, <2>3
<1>5. ASSUME NEW n \in Nat, n \in reached PROVE n + 1 \in reached
  <2>1. PICK g \in [Small(n) -> Nat] : Sums(n, g)
    BY <1>5
  <2> DEFINE h == [T \in Small(n + 1) |-> IF T = {} THEN 0 ELSE f[one(T)] + g[T \ {one(T)}]]
  <2>2. h \in [Small(n + 1) -> Nat]
    BY <1>2, <1>3
  <2>3. \A T \in Small(n) : T \in Small(n + 1) /\ h[T] = g[T]
    BY <1>1, <2>1
  <2>4. Sums(n + 1, h)
    <3>1. SUFFICES ASSUME NEW T \in Small(n + 1)
                   PROVE  h[T] = IF T = {} THEN 0 ELSE f[one(T)] + h[T \ {one(T)}]
      OBVIOUS
    <3>2. h[T] = IF T = {} THEN 0 ELSE f[one(T)] + g[T \ {one(T)}]
      OBVIOUS
    <3>3. T # {} => h[T \ {one(T)}] = g[T \ {one(T)}]
      <4> HIDE DEF h, one
      <4> QED
        BY <1>3, <2>3
    <3> HIDE DEF h
    <3> QED
      BY <3>2, <3>3
  <2> HIDE DEF h, Small, Sums
  <2> QED
    BY <2>2, <2>4
<1>6. total \in reached
  <2>1. SUFFICES ASSUME total \notin reached PROVE FALSE
    OBVIOUS
  <2> DEFINE missing == {n \in Nat : n \notin reached}
  <2>2. missing \in SUBSET Nat /\ missing # {}
    BY <1>1, <2>1
  <2> HIDE DEF reached
  <2>3. \E m \in missing : \A n \in missing : m <= n
    <3> HIDE DEF missing
    <3> QED
      BY <2>2, SmallestOf
  <2>4. PICK m \in missing : \A n \in missing : m <= n
    BY <2>3
  <2>5. m # 0 /\ m - 1 \in Nat /\ m - 1 \in reached
    BY <1>4, <2>4
  <2>6. (m - 1) + 1 \in reached
    BY <1>5, <2>5
  <2> QED
    BY <2>4, <2>5, <2>6
<1>7. Small(total) = SUBSET S
  BY <1>1, FS_Subset
<1>8. PICK g \in [SUBSET S -> Nat] : \A T \in SUBSET S : g[T] = IF T = {} THEN 0 ELSE f[one(T)] + g[T \ {one(T)}]
  BY <1>6, <1>7
<1>9. g = [T \in SUBSET S |-> IF T = {} THEN 0 ELSE f[one(T)] + g[T \ {one(T)}]]
  BY <1>8
<1>10. iter = [T \in SUBSET S |-> IF T = {} THEN 0 ELSE f[one(T)] + iter[T \ {one(T)}]]
  BY <1>9
<1> DEFINE odd == {Cardinality(T) : T \in {T \in SUBSET S : iter[T] \notin Nat}}
<1>11. odd = {}
  <2>1. SUFFICES ASSUME odd # {} PROVE FALSE
    OBVIOUS
  <2>2. odd \in SUBSET Nat
    BY <1>1
  <2>3. \E m \in odd : \A n \in odd : m <= n
    <3> HIDE DEF odd
    <3> QED
      BY <2>1, <2>2, SmallestOf
  <2>4. PICK T \in SUBSET S : iter[T] \notin Nat /\ \A n \in odd : Cardinality(T) <= n
    BY <2>3
  <2> HIDE DEF iter
  <2>5. T # {} /\ one(T) \in T /\ f[one(T)] \in Nat /\ iter[T] = f[one(T)] + iter[T \ {one(T)}]
    <3> HIDE DEF one
    <3>1. iter[T] = IF T = {} THEN 0 ELSE f[one(T)] + iter[T \ {one(T)}]
      BY <1>10
    <3> QED
      BY <1>2, <2>4, <3>1
  <2> HIDE DEF one
  <2>6. T \ {one(T)} \in SUBSET S /\ Cardinality(T \ {one(T)}) = Cardinality(T) - 1
    BY <1>1, <2>5, FS_RemoveElement
  <2>7. iter[T \ {one(T)}] \notin Nat
    BY <2>5, <2>4
  <2>8. Cardinality(T \ {one(T)}) \in odd
    BY <2>6, <2>7
  <2> HIDE DEF odd
  <2> QED
    BY <1>1, <2>4, <2>6, <2>8
<1>12. iter[S] \in Nat /\ (S = {} => iter[S] = 0)
  <2> HIDE DEF iter
  <2> QED
    BY <1>10, <1>11
<1>13. SumOver(f, S) = iter[S]
  BY DEF SumOver
<1> QED
  BY <1>12, <1>13

Role == {"origin", "destination"}
RecentRecord == [by : Nat, role : Role, code : Nat, at : Nat]

(* The rows of the counters: each day's is of a station that was used, and *)
(* those of the browsers keep their bound.                                 *)
UsageIsRight ==
  /\ tick \in Nat
  /\ lifetime \in [DOMAIN lifetime -> [uses : Nat, at : Nat]]
  /\ IsFiniteSet(DOMAIN daily) /\ daily \in [DOMAIN daily -> Nat]
  /\ \A d \in DOMAIN daily : <<d[1], d[2]>> \in DOMAIN lifetime
  /\ recent \subseteq RecentRecord /\ IsFiniteSet(recent) /\ Cardinality(recent) <= MaxRecent

(* The first rows of the browsers' table are no more than asked for.       *)
LEMMA NewestFit ==
  ASSUME NEW rows \in SUBSET RecentRecord, IsFiniteSet(rows), NEW n \in Nat
  PROVE  /\ NewestOf(rows, n) \subseteq rows
         /\ IsFiniteSet(NewestOf(rows, n)) /\ Cardinality(NewestOf(rows, n)) <= n
<1> DEFINE ahead == [r \in rows |-> {q \in rows : Newer(q, r)}]
<1>1. ahead \in [rows -> SUBSET rows]
  OBVIOUS
<1>2. \A r \in rows : r \notin ahead[r]
  BY DEF Newer, RecentRecord, Role
<1>3. ASSUME NEW q \in rows, NEW r \in rows, q # r PROVE q \in ahead[r] \/ r \in ahead[q]
  <2>1. /\ q = [by |-> q.by, role |-> q.role, code |-> q.code, at |-> q.at]
        /\ r = [by |-> r.by, role |-> r.role, code |-> r.code, at |-> r.at]
    BY DEF RecentRecord
  <2>2. q.at # r.at \/ q.by # r.by \/ q.role # r.role \/ q.code # r.code
    BY <1>3, <2>1
  <2> QED
    BY <2>2 DEF Newer, RecentRecord, Role
<1>4. ASSUME NEW q \in rows, NEW r \in rows, q \in ahead[r] PROVE ahead[q] \subseteq ahead[r]
  BY <1>4 DEF Newer, RecentRecord, Role
<1>5. NewestOf(rows, n) = {r \in rows : Cardinality(ahead[r]) < n}
  BY DEF NewestOf
<1> HIDE DEF ahead
<1> QED
  BY <1>1, <1>2, <1>3, <1>4, <1>5, FewComeFirst

(* What is trimmed is within the limit.                                    *)
LEMMA RecentFits ==
  ASSUME NEW rows \in SUBSET RecentRecord, IsFiniteSet(rows)
  PROVE  /\ RecentKept(rows) \subseteq rows
         /\ IsFiniteSet(RecentKept(rows)) /\ Cardinality(RecentKept(rows)) <= MaxRecent
<1> DEFINE fresh == {r \in rows : r.at >= tick - RecentTTL}
<1>1. fresh \in SUBSET RecentRecord /\ fresh \subseteq rows /\ IsFiniteSet(fresh) /\ MaxRecent \in Nat
  BY FS_Subset, UsageAssumption
<1>2. RecentKept(rows) = NewestOf(fresh, MaxRecent)
  BY DEF RecentKept
<1> HIDE DEF fresh
<1> QED
  BY <1>1, <1>2, NewestFit

(* A search's row is one more at most.                                     *)
LEMMA WithRecentFits ==
  ASSUME NEW rows \in SUBSET RecentRecord, IsFiniteSet(rows), tick \in Nat,
         NEW by \in Nat, NEW role \in Role, NEW s \in Nat
  PROVE  WithRecent(rows, by, role, s) \in SUBSET RecentRecord /\ IsFiniteSet(WithRecent(rows, by, role, s))
<1> DEFINE row == RecentRow(by, role, s)
<1>1. row \in RecentRecord
  BY DEF RecentRow, RecentRecord
<1>2. IsFiniteSet(rows \cup {row})
  BY FS_AddElement
<1>3. WithRecent(rows, by, role, s) \subseteq rows \cup {row}
  BY DEF WithRecent, NewestOf, OfOne
<1> QED
  BY <1>1, <1>2, <1>3, FS_Subset

(* A search that is counted keeps the rows in order.                       *)
LEMMA RecordKeeps ==
  ASSUME UsageIsRight, NEW from \in Nat, NEW to \in Nat, NEW by \in Nat,
         RecordFromSearch(from, to, by), tick' = tick
  PROVE  UsageIsRight'
<1> DEFINE used == {u \in {<<"origin", from>>, <<"destination", to>>} : u[2] \in Station}
           today == {<<u[1], u[2], UsageDay(tick)>> : u \in used}
           window == {d \in DOMAIN daily : d[3] >= CutoffDay}
<1>1. DOMAIN lifetime' = DOMAIN lifetime \cup used
  BY DEF RecordFromSearch
<1>2. lifetime' \in [DOMAIN lifetime' -> [uses : Nat, at : Nat]]
  <2>1. \A u \in DOMAIN lifetime : lifetime[u] \in [uses : Nat, at : Nat] /\ lifetime[u].uses + 1 \in Nat
    BY DEF UsageIsRight
  <2>2. tick \in Nat
    BY DEF UsageIsRight
  <2>3. \A u \in DOMAIN lifetime' : lifetime'[u] \in [uses : Nat, at : Nat]
    BY <1>1, <2>1, <2>2 DEF RecordFromSearch
  <2> QED
    BY <2>3 DEF RecordFromSearch
<1>3. daily' = [d \in window \cup today |->
                  (IF d \in DOMAIN daily THEN daily[d] ELSE 0) + (IF d \in today THEN 1 ELSE 0)]
  BY DEF RecordFromSearch
<1>4. DOMAIN daily' = window \cup today
  BY <1>3
<1>5. IsFiniteSet(DOMAIN daily')
  <2>1. IsFiniteSet(window)
    BY FS_Subset DEF UsageIsRight
  <2>2. today \subseteq {<<"origin", from, UsageDay(tick)>>} \cup {<<"destination", to, UsageDay(tick)>>}
    OBVIOUS
  <2>3. IsFiniteSet({<<"origin", from, UsageDay(tick)>>} \cup {<<"destination", to, UsageDay(tick)>>})
    BY FS_Singleton, FS_Union
  <2>4. IsFiniteSet(today)
    BY <2>2, <2>3, FS_Subset
  <2> HIDE DEF window, today
  <2> QED
    BY <1>4, <2>1, <2>4, FS_Union
<1>6. daily' \in [DOMAIN daily' -> Nat]
  <2>1. \A d \in DOMAIN daily : daily[d] \in Nat
    BY DEF UsageIsRight
  <2> QED
    BY <1>3, <1>4, <2>1
<1>7. \A d \in DOMAIN daily' : <<d[1], d[2]>> \in DOMAIN lifetime'
  <2>1. \A d \in window : <<d[1], d[2]>> \in DOMAIN lifetime
    BY DEF UsageIsRight
  <2>2. \A d \in today : <<d[1], d[2]>> \in used
    OBVIOUS
  <2> QED
    BY <1>1, <1>4, <2>1, <2>2
<1>8. recent' \subseteq RecentRecord /\ IsFiniteSet(recent') /\ Cardinality(recent') <= MaxRecent
  <2>0. recent \in SUBSET RecentRecord /\ IsFiniteSet(recent) /\ Cardinality(recent) <= MaxRecent /\ tick \in Nat
    BY DEF UsageIsRight
  <2> DEFINE one == IF from \in Station THEN WithRecent(RecentKept(recent), by, "origin", from) ELSE RecentKept(recent)
             two == IF to \in Station THEN WithRecent(one, by, "destination", to) ELSE one
             both == IF by = 0 THEN recent ELSE two
  <2>1. RecentKept(recent) \in SUBSET RecentRecord /\ IsFiniteSet(RecentKept(recent))
    BY <2>0, RecentFits
  <2>2. one \in SUBSET RecentRecord /\ IsFiniteSet(one)
    BY <2>0, <2>1, WithRecentFits DEF Role
  <2>3. two \in SUBSET RecentRecord /\ IsFiniteSet(two)
    <3> HIDE DEF one
    <3> QED
      BY <2>0, <2>2, WithRecentFits DEF Role
  <2>4. both \in SUBSET RecentRecord /\ IsFiniteSet(both)
    <3> HIDE DEF two
    <3> QED
      BY <2>0, <2>3
  <2>5. recent' = recent \/ recent' = RecentKept(both)
    BY DEF RecordFromSearch
  <2> HIDE DEF both
  <2> QED
    BY <2>0, <2>4, <2>5, RecentFits
<1>9. tick' \in Nat
  BY DEF UsageIsRight
<1> QED
  BY <1>2, <1>5, <1>6, <1>7, <1>8, <1>9 DEF UsageIsRight

(* A station's uses are a number, and one that has some was searched       *)
(* within the window.                                                      *)
LEMMA UsesAreNumbers ==
  ASSUME UsageIsRight, NEW role \in Role, NEW s \in Station
  PROVE  /\ UsesOf(role, s) \in Nat
         /\ UsesOf(role, s) > 0 =>
              /\ \E d \in DOMAIN daily : d[2] = s /\ d[3] >= CutoffDay
              /\ <<role, s>> \in DOMAIN lifetime
<1> DEFINE days == {d \in DOMAIN daily : d[1] = role /\ d[2] = s /\ d[3] >= CutoffDay}
<1>1. days \in SUBSET DOMAIN daily /\ IsFiniteSet(days) /\ daily \in [DOMAIN daily -> Nat]
  BY FS_Subset DEF UsageIsRight
<1>2. UsesOf(role, s) = SumOver(daily, days)
  BY DEF UsesOf, MapThenSumSet, MapThenFoldSet, SumOver
<1>3. \A d \in days : /\ d \in DOMAIN daily /\ d[2] = s /\ d[3] >= CutoffDay
                      /\ <<role, s>> \in DOMAIN lifetime
  BY DEF UsageIsRight
<1> HIDE DEF days
<1>4. UsesOf(role, s) \in Nat /\ (days = {} => UsesOf(role, s) = 0)
  BY <1>1, <1>2, SumsAreNumbers
<1> QED
  BY <1>3, <1>4

(* Who leads in uses is in the window, and no more than were asked for; a  *)
(* longer list has all of a shorter one.                                   *)
LEMMA LeadersFit ==
  ASSUME UsageIsRight, NEW role \in Role, NEW n \in Nat
  PROVE  LET uses == [s \in Station |-> UsesOf(role, s)]
         IN /\ Leaders(role, uses, n) \subseteq {s \in Station : uses[s] > 0}
            /\ IsFiniteSet(Leaders(role, uses, n)) /\ Cardinality(Leaders(role, uses, n)) <= n
            /\ \A m \in Nat : m <= n => Leaders(role, uses, m) \subseteq Leaders(role, uses, n)
<1> DEFINE uses == [s \in Station |-> UsesOf(role, s)]
           alive == {s \in Station : uses[s] > 0}
           ahead == [s \in alive |-> {u \in alive : Leads(role, uses, u, s)}]
           last(s) == lifetime[<<role, s>>].at
<1>1. Station \subseteq Nat /\ IsFiniteSet(Station)
  BY UsageAssumption
<1>2. \A s \in alive : s \in Nat /\ uses[s] \in Nat /\ last(s) \in Nat
  BY <1>1, UsesAreNumbers DEF UsageIsRight
<1>3. IsFiniteSet(alive)
  BY <1>1, FS_Subset
<1>4. ahead \in [alive -> SUBSET alive]
  OBVIOUS
<1>5. \A s, u \in alive : u \in ahead[s] <=>
        \/ uses[u] > uses[s]
        \/ uses[u] = uses[s] /\ (last(u) > last(s) \/ (last(u) = last(s) /\ u < s))
  BY DEF Leads
<1>6. \A m \in Nat : Leaders(role, uses, m) = {s \in alive : Cardinality(ahead[s]) < m}
  BY DEF Leaders
<1> HIDE DEF uses, alive, ahead, last
<1>7. \A s \in alive : s \notin ahead[s]
  BY <1>2, <1>5
<1>8. \A s, u \in alive : s # u => s \in ahead[u] \/ u \in ahead[s]
  BY <1>2, <1>5
<1>9. ASSUME NEW s \in alive, NEW u \in alive, s \in ahead[u] PROVE ahead[s] \subseteq ahead[u]
  <2> SUFFICES ASSUME NEW x \in ahead[s] PROVE x \in ahead[u]
    OBVIOUS
  <2>1. x \in alive
    BY <1>4
  <2> QED
    BY <1>2, <1>5, <1>9, <2>1
<1>10. IsFiniteSet(Leaders(role, uses, n)) /\ Cardinality(Leaders(role, uses, n)) <= n
  BY <1>3, <1>4, <1>6, <1>7, <1>8, <1>9, FewComeFirst
<1>11. \A s \in alive : Cardinality(ahead[s]) \in Nat
  BY <1>3, <1>4, FS_Subset, FS_CardinalityType
<1>12. \A m \in Nat : m <= n => Leaders(role, uses, m) \subseteq Leaders(role, uses, n)
  BY <1>6, <1>11
<1>13. Leaders(role, uses, n) \subseteq alive
  BY <1>6
<1> QED
  BY <1>10, <1>12, <1>13 DEF uses, alive

(* One station was searched last.                                          *)
LEMMA NewestIsOne ==
  ASSUME UsageIsRight, NEW role
  PROVE  IsFiniteSet(Newest(role)) /\ Cardinality(Newest(role)) <= 1
<1>1. ASSUME NEW s \in Newest(role), NEW u \in Newest(role) PROVE s = u
  <2>1. s \in Nat /\ u \in Nat /\ lifetime[<<role, s>>].at \in Nat /\ lifetime[<<role, u>>].at \in Nat
    BY UsageAssumption DEF Newest, UsageIsRight
  <2> QED
    BY <2>1 DEF Newest
<1>2. CASE Newest(role) = {}
  BY <1>2, FS_EmptySet
<1>3. CASE Newest(role) # {}
  <2>1. PICK s \in Newest(role) : TRUE
    BY <1>3
  <2>2. Newest(role) = {s}
    BY <1>1, <2>1
  <2>3. IsFiniteSet({s}) /\ Cardinality({s}) = 1
    BY FS_Singleton
  <2> QED
    BY <2>2, <2>3
<1> QED
  BY <1>2, <1>3

(* The cards of a role are as many as there is room for, each of a station *)
(* searched within the window or last, and the last one is among them.     *)
LEMMA CardsHold ==
  ASSUME UsageIsRight, NEW role \in Role
  PROVE  /\ CardLimit >= 2 => Newest(role) \subseteq Cards(role)
         /\ \A s \in Cards(role) \ Newest(role) : \E d \in DOMAIN daily : d[2] = s /\ d[3] >= CutoffDay
         /\ Cardinality(Cards(role)) <= CardLimit
<1> DEFINE uses == [s \in Station |-> UsesOf(role, s)]
           leading(n) == Leaders(role, uses, n)
<1>1. CardLimit \in Nat /\ CardLimit > 0 /\ CardLimit - 1 \in Nat
  BY UsageAssumption
<1>2. \A n \in Nat : /\ leading(n) \subseteq {s \in Station : uses[s] > 0}
                     /\ IsFiniteSet(leading(n)) /\ Cardinality(leading(n)) <= n
  BY LeadersFit
<1>3. leading(CardLimit - 1) \subseteq leading(CardLimit)
  BY <1>1, LeadersFit
<1>4. Cards(role) = IF CardLimit < 2 \/ Newest(role) \subseteq leading(CardLimit - 1) THEN leading(CardLimit)
                    ELSE leading(CardLimit - 1) \cup Newest(role)
  BY DEF Cards
<1>5. \A s \in Station : uses[s] > 0 => \E d \in DOMAIN daily : d[2] = s /\ d[3] >= CutoffDay
  BY UsesAreNumbers
<1> HIDE DEF uses, leading
<1>6. Cardinality(leading(CardLimit - 1) \cup Newest(role)) <= CardLimit
  <2>1. /\ IsFiniteSet(leading(CardLimit - 1)) /\ Cardinality(leading(CardLimit - 1)) <= CardLimit - 1
        /\ IsFiniteSet(Newest(role)) /\ Cardinality(Newest(role)) <= 1
    BY <1>1, <1>2, NewestIsOne
  <2>2. IsFiniteSet(leading(CardLimit - 1) \cap Newest(role))
    BY <2>1, FS_Subset
  <2>3. /\ Cardinality(leading(CardLimit - 1) \cap Newest(role)) \in Nat
        /\ Cardinality(leading(CardLimit - 1)) \in Nat /\ Cardinality(Newest(role)) \in Nat
    BY <2>1, <2>2, FS_CardinalityType
  <2>4. Cardinality(leading(CardLimit - 1) \cup Newest(role)) =
          Cardinality(leading(CardLimit - 1)) + Cardinality(Newest(role)) - Cardinality(leading(CardLimit - 1) \cap Newest(role))
    BY <2>1, FS_Union
  <2> QED
    BY <1>1, <2>1, <2>3, <2>4
<1> QED
  BY <1>1, <1>2, <1>3, <1>4, <1>5, <1>6

AskRecord ==
  [kind : {"poll", "search"}, marked : BOOLEAN, token : BOOLEAN, counts : BOOLEAN, from : Nat, by : Nat]
CallRecord ==
  [at : {"unsent", "sending", "pausing", "answering", "refusing", "ok", "refused", "failed"},
   since : Nat, asked : AskRecord, again : BOOLEAN]

(* What a request has come to against what was run and counted for it.     *)
CallIsRight(h) ==
  /\ calls[h].at = "unsent" => executed[h] = 0 /\ countedFor[h] = 0
  /\ OnItsWay(calls[h]) => /\ ~calls[h].asked.token /\ countedFor[h] = 0
                           /\ executed[h] = IF calls[h].at = "answering" THEN 1 ELSE 0
  /\ calls[h].at \in {"ok", "refused", "failed"} =>
       /\ executed[h] <= 1
       /\ countedFor[h] = IF calls[h].at = "ok" /\ calls[h].asked.counts /\ ~calls[h].asked.token THEN 1 ELSE 0

CallsAreTyped ==
  /\ calls \in [HttpRequest -> CallRecord]
  /\ executed \in [HttpRequest -> Nat] /\ countedFor \in [HttpRequest -> Nat]

ProxyIInv ==
  /\ UsageIsRight
  /\ CallsAreTyped
  /\ \A h \in HttpRequest : CallIsRight(h)

(* Only what is marked shows the token of a unit.                          *)
LEMMA AsksAreRight ==
  /\ Asks \subseteq AskRecord /\ Poll \in AskRecord
  /\ \A ask \in Asks : KeepsMark(ask) = ask.token
<1>1. ASSUME NEW kind \in {"poll", "search"}, NEW marked \in BOOLEAN, NEW token \in BOOLEAN, NEW counts \in BOOLEAN,
             NEW from \in Nat, NEW by \in Nat, token => marked
      PROVE  /\ Asked(kind, marked, token, counts, from, by) \in AskRecord
             /\ KeepsMark(Asked(kind, marked, token, counts, from, by)) = Asked(kind, marked, token, counts, from, by).token
  <2>1. Asked(kind, marked, token, counts, from, by) \in AskRecord
    BY DEF Asked, AskRecord
  <2>2. /\ Asked(kind, marked, token, counts, from, by).token = token
        /\ Asked(kind, marked, token, counts, from, by).marked = marked
    BY DEF Asked
  <2>3. (marked /\ token) = token
    BY <1>1
  <2>4. KeepsMark(Asked(kind, marked, token, counts, from, by)) = (marked /\ token)
    BY <2>2, Zenon DEF KeepsMark
  <2> QED
    BY <2>1, <2>2, <2>3, <2>4, Zenon
<1>2. Poll \in AskRecord /\ KeepsMark(Poll) = Poll.token
  <2>1. Poll = Asked("poll", FALSE, FALSE, FALSE, 0, 0)
    BY DEF Poll
  <2>2. "poll" \in {"poll", "search"} /\ FALSE \in BOOLEAN /\ 0 \in Nat
    OBVIOUS
  <2> QED
    BY <1>1, <2>1, <2>2, Zenon
<1>3. ASSUME NEW ask \in Asks PROVE ask \in AskRecord /\ KeepsMark(ask) = ask.token
  <2>1. \/ ask = Poll
        \/ ask = Asked("search", FALSE, FALSE, FALSE, 1, 0)
        \/ ask = Asked("search", FALSE, FALSE, TRUE, 0, 0)
        \/ ask = Asked("search", TRUE, FALSE, TRUE, 1, 0)
        \/ ask = Asked("search", TRUE, TRUE, TRUE, 1, 0)
        \/ \E s \in Station, by \in Browsing \union {0} : ask = Asked("search", FALSE, FALSE, TRUE, s, by)
    BY <1>3 DEF Asks
  <2>2. \A s \in Station, by \in Browsing \union {0} : s \in Nat /\ by \in Nat
    BY UsageAssumption
  <2>0. "search" \in {"poll", "search"} /\ {TRUE, FALSE} \subseteq BOOLEAN /\ {0, 1} \subseteq Nat
    OBVIOUS
  <2> HIDE DEF Asked
  <2>3. CASE ask = Asked("search", FALSE, FALSE, FALSE, 1, 0)
    BY <1>1, <2>0, <2>3, Zenon
  <2>4. CASE ask = Asked("search", FALSE, FALSE, TRUE, 0, 0)
    BY <1>1, <2>0, <2>4, Zenon
  <2>5. CASE ask = Asked("search", TRUE, FALSE, TRUE, 1, 0)
    BY <1>1, <2>0, <2>5, Zenon
  <2>6. CASE ask = Asked("search", TRUE, TRUE, TRUE, 1, 0)
    BY <1>1, <2>0, <2>6, Zenon
  <2>7. ASSUME NEW s \in Station, NEW by \in Browsing \union {0}, ask = Asked("search", FALSE, FALSE, TRUE, s, by)
        PROVE  ask \in AskRecord /\ KeepsMark(ask) = ask.token
    BY <1>1, <2>2, <2>7
  <2> QED
    BY <1>2, <2>1, <2>3, <2>4, <2>5, <2>6, <2>7
<1> QED
  BY <1>2, <1>3

(* A request that was not sent. *)
LEMMA UnsentIs == Unsent \in CallRecord /\ Unsent.at = "unsent"
BY AsksAreRight DEF Unsent, CallRecord

(* A request that ended keeps what decides whether it counts.              *)
LEMMA EndedIs ==
  ASSUME NEW ask \in AskRecord, NEW c, c.asked = ask, NEW at \in {"ok", "refused", "failed"}
  PROVE  /\ Ended(c, at) \in CallRecord /\ Ended(c, at).at = at
         /\ Ended(c, at).asked.token = ask.token /\ Ended(c, at).asked.counts = ask.counts
<1> DEFINE new == [Unsent.asked EXCEPT !.token = ask.token, !.counts = ask.counts]
<1>1. Unsent \in CallRecord /\ Unsent.asked \in AskRecord
  BY UnsentIs DEF CallRecord
<1>2. new \in AskRecord /\ new.token = ask.token /\ new.counts = ask.counts
  BY <1>1 DEF AskRecord
<1>3. Ended(c, at) = [Unsent EXCEPT !.at = at, !.asked = new]
  BY <1>1 DEF Ended, CallRecord, AskRecord
<1> HIDE DEF new
<1> QED
  BY <1>1, <1>2, <1>3 DEF CallRecord

(* What one request does leaves the others as they are.                    *)
LEMMA OneCallMoves ==
  ASSUME ProxyIInv, UsageIsRight', NEW h \in HttpRequest, NEW new \in CallRecord, NEW e \in Nat, NEW k \in Nat,
         calls' = [calls EXCEPT ![h] = new], executed' = [executed EXCEPT ![h] = e],
         countedFor' = [countedFor EXCEPT ![h] = k],
         CallIsRight(h)'
  PROVE  ProxyIInv'
<1>1. CallsAreTyped'
  BY DEF ProxyIInv, CallsAreTyped
<1>2. ASSUME NEW x \in HttpRequest, x # h PROVE CallIsRight(x)'
  <2>1. calls'[x] = calls[x] /\ executed'[x] = executed[x] /\ countedFor'[x] = countedFor[x]
    BY <1>2 DEF ProxyIInv, CallsAreTyped
  <2> QED
    BY <1>2, <2>1 DEF ProxyIInv, CallIsRight, OnItsWay
<1> QED
  BY <1>1, <1>2 DEF ProxyIInv

(* What is left alone is written with the value it has.                    *)
LEMMA LeftAlone ==
  ASSUME CallsAreTyped, NEW h \in HttpRequest
  PROVE  /\ [executed EXCEPT ![h] = executed[h]] = executed
         /\ [countedFor EXCEPT ![h] = countedFor[h]] = countedFor
         /\ [executed EXCEPT ![h] = @ + 1] = [executed EXCEPT ![h] = executed[h] + 1]
         /\ executed[h] \in Nat /\ countedFor[h] \in Nat /\ calls[h] \in CallRecord /\ calls[h].asked \in AskRecord
BY DEF CallsAreTyped, CallRecord

(* An accepted search counts once if it is to be counted, any other not.   *)
LEMMA CountsKeep ==
  ASSUME ProxyIInv, NEW h \in HttpRequest, NEW ask \in AskRecord, NEW yes \in BOOLEAN, CountsUsage(h, ask, yes),
         countedFor[h] = 0
  PROVE  /\ UsageIsRight'
         /\ \E k \in Nat : /\ countedFor' = [countedFor EXCEPT ![h] = k]
                           /\ k = IF ask.counts /\ yes THEN 1 ELSE 0
<1>0. UsageIsRight /\ CallsAreTyped
  BY DEF ProxyIInv
<1>1. CASE ask.counts /\ yes
  <2>1. UsageIsRight'
    BY <1>0, <1>1, RecordKeeps DEF CountsUsage, AskRecord
  <2>2. countedFor' = [countedFor EXCEPT ![h] = 1]
    BY <1>1 DEF CountsUsage
  <2> QED
    BY <1>1, <2>1, <2>2
<1>2. CASE ~(ask.counts /\ yes)
  <2>1. UNCHANGED <<usageVars, countedFor>>
    BY <1>2 DEF CountsUsage
  <2>2. UsageIsRight'
    BY <1>0, <2>1 DEF UsageIsRight, usageVars
  <2> QED
    BY <1>0, <1>2, <2>1, <2>2, LeftAlone
<1> QED
  BY <1>1, <1>2

(* Each step of a request keeps what is said of it.                        *)
LEMMA CallStepKeeps ==
  ASSUME ProxyIInv, NEW h \in HttpRequest,
         AskWeb(h) \/ RunnerDown(h) \/ PauseEnds(h) \/ RunnerReads(h) \/ AnswerArrives(h) \/ HopEnds(h)
  PROVE  ProxyIInv'
<1>0. UsageIsRight /\ CallsAreTyped /\ CallIsRight(h)
  BY DEF ProxyIInv
<1>1. /\ [executed EXCEPT ![h] = executed[h]] = executed
      /\ [countedFor EXCEPT ![h] = countedFor[h]] = countedFor
      /\ [executed EXCEPT ![h] = @ + 1] = [executed EXCEPT ![h] = executed[h] + 1]
      /\ executed[h] \in Nat /\ countedFor[h] \in Nat /\ calls[h] \in CallRecord /\ calls[h].asked \in AskRecord
  BY <1>0, LeftAlone
<1>U. ASSUME UNCHANGED usageVars PROVE UsageIsRight'
  BY <1>0, <1>U DEF UsageIsRight, usageVars
(* A step that only moves the request, and perhaps runs it. *)
<1>M. ASSUME NEW new \in CallRecord, NEW e \in Nat, calls' = [calls EXCEPT ![h] = new],
             UNCHANGED <<usageVars, countedFor>>,
             executed' = [executed EXCEPT ![h] = e],
             new.at = "unsent" => e = 0 /\ countedFor[h] = 0,
             OnItsWay(new) => /\ ~new.asked.token /\ countedFor[h] = 0
                              /\ e = IF new.at = "answering" THEN 1 ELSE 0,
             new.at \in {"ok", "refused", "failed"} =>
               /\ e <= 1 /\ countedFor[h] = IF new.at = "ok" /\ new.asked.counts /\ ~new.asked.token THEN 1 ELSE 0
      PROVE  ProxyIInv'
  <2>1. calls'[h] = new /\ executed'[h] = e /\ countedFor'[h] = countedFor[h]
    BY <1>0, <1>M DEF CallsAreTyped
  <2>2. CallIsRight(h)'
    BY <1>M, <2>1 DEF CallIsRight, OnItsWay
  <2> QED
    BY <1>1, <1>M, <1>U, <2>2, OneCallMoves
(* A step that ends the request as accepted or refused. *)
<1>A. ASSUME NEW ask \in AskRecord, NEW yes \in BOOLEAN, NEW c, c.asked = ask, NEW at \in {"ok", "refused"}, NEW e \in Nat,
             calls' = [calls EXCEPT ![h] = Ended(c, at)], executed' = [executed EXCEPT ![h] = e],
             CountsUsage(h, ask, yes), countedFor[h] = 0, e <= 1,
             yes = (at = "ok" /\ ~ask.token)
      PROVE  ProxyIInv'
  <2>1. /\ Ended(c, at) \in CallRecord /\ Ended(c, at).at = at
        /\ Ended(c, at).asked.token = ask.token /\ Ended(c, at).asked.counts = ask.counts
    BY <1>A, EndedIs
  <2>2. PICK k \in Nat : /\ countedFor' = [countedFor EXCEPT ![h] = k]
                         /\ k = IF ask.counts /\ yes THEN 1 ELSE 0
    BY <1>A, CountsKeep
  <2>3. UsageIsRight'
    BY <1>A, CountsKeep
  <2>4. calls'[h] = Ended(c, at) /\ executed'[h] = e /\ countedFor'[h] = k
    BY <1>0, <1>A, <2>2 DEF CallsAreTyped
  <2>5. CallIsRight(h)'
    BY <1>A, <2>1, <2>2, <2>4 DEF CallIsRight, OnItsWay
  <2> QED
    BY <1>A, <2>1, <2>2, <2>3, <2>5, OneCallMoves
<1>2. CASE AskWeb(h)
  <2>1. calls[h].at = "unsent" /\ executed[h] = 0 /\ countedFor[h] = 0
    BY <1>0, <1>2 DEF AskWeb, CallIsRight
  <2>2. PICK ask \in Asks :
          IF delegates /\ ~KeepsMark(ask)
          THEN /\ calls' = [calls EXCEPT ![h] = [Unsent EXCEPT !.at = "sending", !.since = tick, !.asked = ask]]
               /\ UNCHANGED <<usageVars, delegates, runnerUp, executed, countedFor>>
          ELSE RunsHere(h, ask)
    BY <1>2 DEF AskWeb
  <2>3. ask \in AskRecord /\ KeepsMark(ask) = ask.token
    BY AsksAreRight
  <2>4. CASE delegates /\ ~KeepsMark(ask)
    <3> DEFINE new == [Unsent EXCEPT !.at = "sending", !.since = tick, !.asked = ask]
    <3>1. new \in CallRecord /\ new.at = "sending" /\ new.asked = ask
      BY <1>0, <2>3, UnsentIs DEF CallRecord, UsageIsRight
    <3>2. calls' = [calls EXCEPT ![h] = new] /\ UNCHANGED <<usageVars, executed, countedFor>>
      BY <2>2, <2>4
    <3> HIDE DEF new
    <3> QED
      BY <1>1, <1>M, <2>1, <2>3, <2>4, <3>1, <3>2 DEF OnItsWay
  <2>5. CASE ~(delegates /\ ~KeepsMark(ask))
    <3>1. /\ calls' = [calls EXCEPT ![h] = Ended([asked |-> ask], "ok")]
          /\ executed' = [executed EXCEPT ![h] = executed[h] + 1]
          /\ CountsUsage(h, ask, ~KeepsMark(ask))
      BY <1>1, <2>2, <2>5 DEF RunsHere, Ran
    <3> DEFINE yes == ~ask.token
    <3>2. yes \in BOOLEAN /\ CountsUsage(h, ask, yes)
      BY <2>3, <3>1 DEF AskRecord
    <3>3. yes = ("ok" = "ok" /\ ~ask.token)
      OBVIOUS
    <3> DEFINE c == [asked |-> ask]
               e == executed[h] + 1
    <3>4. c.asked = ask /\ calls' = [calls EXCEPT ![h] = Ended(c, "ok")]
      BY <3>1
    <3>5. e \in Nat /\ e <= 1 /\ executed' = [executed EXCEPT ![h] = e]
      BY <2>1, <3>1
    <3> HIDE DEF yes, c, e
    <3> QED
      BY <1>A, <2>1, <2>3, <3>2, <3>3, <3>4, <3>5
  <2> QED
    BY <2>4, <2>5
<1>3. CASE RunnerDown(h)
  <2>1. calls[h].at = "sending" /\ ~calls[h].asked.token /\ countedFor[h] = 0 /\ executed[h] = 0
    BY <1>0, <1>3 DEF RunnerDown, CallIsRight, OnItsWay
  <2>2. UNCHANGED <<usageVars, executed, countedFor>>
    BY <1>3 DEF RunnerDown
  <2>3. CASE calls' = [calls EXCEPT ![h] = [calls[h] EXCEPT !.at = "pausing", !.again = TRUE]]
    <3>1. /\ [calls[h] EXCEPT !.at = "pausing", !.again = TRUE] \in CallRecord
          /\ [calls[h] EXCEPT !.at = "pausing", !.again = TRUE].at = "pausing"
          /\ [calls[h] EXCEPT !.at = "pausing", !.again = TRUE].asked = calls[h].asked
      BY <1>1 DEF CallRecord
    <3> QED
      BY <1>1, <1>M, <2>1, <2>2, <2>3, <3>1 DEF OnItsWay
  <2>4. CASE calls' = [calls EXCEPT ![h] = Ended(calls[h], "failed")]
    <3>1. Ended(calls[h], "failed") \in CallRecord /\ Ended(calls[h], "failed").at = "failed"
      BY <1>1, EndedIs
    <3>2. OnItsWay(calls[h]) /\ executed[h] <= 1
      BY <2>1 DEF OnItsWay
    <3> QED
      BY <1>1, <1>M, <2>1, <2>2, <2>4, <3>1, <3>2 DEF OnItsWay
  <2> QED
    BY <1>3, <2>3, <2>4 DEF RunnerDown
<1>4. CASE PauseEnds(h) \/ RunnerReads(h)
  <2>1. /\ calls[h].at \in {"pausing", "sending"}
        /\ ~calls[h].asked.token /\ countedFor[h] = 0 /\ executed[h] = 0
    BY <1>0, <1>4 DEF PauseEnds, RunnerReads, CallIsRight, OnItsWay
  <2>2. UNCHANGED <<usageVars, countedFor>>
    BY <1>4 DEF PauseEnds, RunnerReads
  <2>3. PICK at \in {"sending", "answering", "refusing"} :
          /\ calls' = [calls EXCEPT ![h].at = at]
          /\ executed' = IF at = "answering" THEN [executed EXCEPT ![h] = @ + 1] ELSE executed
    BY <1>4 DEF PauseEnds, RunnerReads, Put, Ran
  <2> DEFINE new == [calls[h] EXCEPT !.at = at]
             e == IF at = "answering" THEN executed[h] + 1 ELSE executed[h]
  <2>4. new \in CallRecord /\ new.at = at /\ new.asked = calls[h].asked
    BY <1>1 DEF CallRecord
  <2>5. calls' = [calls EXCEPT ![h] = new]
    BY <2>3
  <2>6. executed' = [executed EXCEPT ![h] = e] /\ e \in Nat /\ e = IF at = "answering" THEN 1 ELSE 0
    <3>1. CASE at = "answering"
      <4>1. e = executed[h] + 1 /\ executed' = [executed EXCEPT ![h] = executed[h] + 1]
        BY <1>1, <2>3, <3>1
      <4> HIDE DEF e
      <4> QED
        BY <2>1, <3>1, <4>1
    <3>2. CASE at # "answering"
      <4>1. e = executed[h] /\ executed' = executed
        BY <2>3, <3>2
      <4> HIDE DEF e
      <4> QED
        BY <1>1, <2>1, <3>2, <4>1
    <3> QED
      BY <3>1, <3>2
  <2> HIDE DEF new, e
  <2> QED
    BY <1>M, <2>1, <2>2, <2>4, <2>5, <2>6 DEF OnItsWay
<1>5. CASE AnswerArrives(h)
  <2>1. /\ calls[h].at \in {"answering", "refusing"} /\ ~calls[h].asked.token
        /\ countedFor[h] = 0 /\ executed[h] <= 1
    BY <1>0, <1>5 DEF AnswerArrives, CallIsRight, OnItsWay
  <2> DEFINE at == IF calls[h].at = "answering" THEN "ok" ELSE "refused"
             yes == calls[h].at = "answering"
  <2>2. /\ calls' = [calls EXCEPT ![h] = Ended(calls[h], at)]
        /\ CountsUsage(h, calls[h].asked, yes) /\ executed' = executed
    BY <1>5 DEF AnswerArrives
  <2>3. at \in {"ok", "refused"} /\ yes \in BOOLEAN /\ yes = (at = "ok" /\ ~calls[h].asked.token)
    BY <2>1
  <2>4. executed' = [executed EXCEPT ![h] = executed[h]]
    BY <1>1, <2>2
  <2> HIDE DEF at, yes
  <2> QED
    BY <1>1, <1>A, <2>1, <2>2, <2>3, <2>4
<1>6. CASE HopEnds(h)
  <2>1. OnItsWay(calls[h]) /\ countedFor[h] = 0 /\ executed[h] <= 1
    BY <1>0, <1>6 DEF HopEnds, CallIsRight
  <2>2. calls' = [calls EXCEPT ![h] = Ended(calls[h], "failed")] /\ UNCHANGED <<usageVars, executed, countedFor>>
    BY <1>6 DEF HopEnds
  <2>3. Ended(calls[h], "failed") \in CallRecord /\ Ended(calls[h], "failed").at = "failed"
    BY <1>1, EndedIs
  <2> QED
    BY <1>1, <1>M, <2>1, <2>2, <2>3 DEF OnItsWay
<1> QED
  BY <1>2, <1>3, <1>4, <1>5, <1>6

(* Stations that were searched before have their rows.                     *)
LEMMA ProxyInitHolds == ProxyInit => ProxyIInv
<1> SUFFICES ASSUME ProxyInit PROVE ProxyIInv
  OBVIOUS
<1>1. PICK uses \in {1, 2} :
        LET many == {s \in Station : s # 1}
        IN /\ lifetime = [u \in {"origin"} \X many |-> [uses |-> uses, at |-> 0]]
           /\ daily = [d \in {"origin"} \X many \X {0} |-> uses]
  BY DEF ProxyInit
<1> DEFINE many == {s \in Station : s # 1}
<1>2. IsFiniteSet(many)
  BY UsageAssumption, FS_Subset
<1>3. IsFiniteSet({"origin"} \X many \X {0})
  <2> DEFINE key == [s \in many |-> <<"origin", s, 0>>]
  <2>1. key \in Surjection(many, {"origin"} \X many \X {0})
    BY DEF Surjection
  <2> HIDE DEF key
  <2> QED
    BY <1>2, <2>1, FS_Surjection
<1>4. UsageIsRight
  <2>1. tick = 0 /\ recent = {} /\ MaxRecent \in Nat
    BY UsageAssumption DEF ProxyInit
  <2>2. \A d \in DOMAIN daily : <<d[1], d[2]>> \in DOMAIN lifetime
    BY <1>1
  <2>3. lifetime \in [DOMAIN lifetime -> [uses : Nat, at : Nat]]
    BY <1>1
  <2>4. daily \in [DOMAIN daily -> Nat]
    BY <1>1
  <2>5. IsFiniteSet(DOMAIN daily)
    BY <1>1, <1>3
  <2>6. IsFiniteSet({}) /\ Cardinality({}) = 0
    BY FS_EmptySet
  <2> QED
    BY <2>1, <2>2, <2>3, <2>4, <2>5, <2>6 DEF UsageIsRight
<1>5. CallsAreTyped
  <2>1. Unsent \in CallRecord
    BY AsksAreRight DEF Unsent, CallRecord
  <2> QED
    BY <2>1 DEF ProxyInit, CallsAreTyped
<1>6. \A h \in HttpRequest : CallIsRight(h)
  BY DEF ProxyInit, CallIsRight, Unsent, OnItsWay
<1> QED
  BY <1>4, <1>5, <1>6 DEF ProxyIInv

(* Every step of the hops keeps the invariant.                             *)
LEMMA ProxyStep == ASSUME ProxyIInv, [ProxyNext]_allProxyVars PROVE ProxyIInv'
<1>0. UsageIsRight /\ CallsAreTyped
  BY DEF ProxyIInv
<1>1. ASSUME UNCHANGED <<calls, executed, countedFor>>, UsageIsRight' PROVE ProxyIInv'
  BY <1>1 DEF ProxyIInv, CallsAreTyped, CallIsRight, OnItsWay
<1>2. CASE RunnerRestarts \/ UNCHANGED allProxyVars
  <2>1. UsageIsRight'
    BY <1>0, <1>2 DEF RunnerRestarts, allProxyVars, usageVars, UsageIsRight
  <2> QED
    BY <1>1, <1>2, <2>1 DEF RunnerRestarts, allProxyVars, proxyVars
<1>3. CASE TickPasses
  <2>1. UsageIsRight'
    BY <1>0, <1>3 DEF TickPasses, UsageIsRight
  <2> QED
    BY <1>1, <1>3, <2>1 DEF TickPasses, proxyVars
<1>4. CASE ReadCards /\ UNCHANGED proxyVars
  <2>1. recent \in SUBSET RecentRecord /\ IsFiniteSet(recent)
    BY <1>0 DEF UsageIsRight
  <2>2. UsageIsRight'
    BY <1>0, <1>4, <2>1, RecentFits DEF ReadCards, UsageIsRight
  <2> QED
    BY <1>1, <1>4, <2>2 DEF proxyVars
<1> QED
  BY <1>2, <1>3, <1>4, CallStepKeeps DEF ProxyNext

(* No search is run twice, one that was accepted is counted once, and the  *)
(* cards of the stations are the newest and those searched of late, for    *)
(* any requests, restarts and limits (search-service-client.ts,            *)
(* location-usage-store.ts).                                               *)
THEOREM HopsCount == ProxySpec => []HopsCountOnce
<1>1. ASSUME ProxyIInv PROVE SearchesCountOnce
  <2>1. \A h \in HttpRequest :
          /\ executed[h] <= 1
          /\ countedFor[h] = IF calls[h].at = "ok" /\ calls[h].asked.counts /\ ~calls[h].asked.token THEN 1 ELSE 0
    <3> SUFFICES ASSUME NEW h \in HttpRequest
                 PROVE  /\ executed[h] <= 1
                        /\ countedFor[h] = IF calls[h].at = "ok" /\ calls[h].asked.counts /\ ~calls[h].asked.token
                                           THEN 1 ELSE 0
      OBVIOUS
    <3>1. CallIsRight(h) /\ calls[h] \in CallRecord
      BY <1>1 DEF ProxyIInv, CallsAreTyped
    <3> QED
      BY <3>1 DEF CallIsRight, OnItsWay, CallRecord
  <2>2. UsageIsRight
    BY <1>1 DEF ProxyIInv
  <2> QED
    BY <2>1, <2>2, CardsHold DEF SearchesCountOnce, UsageIsRight, Role
<1>2. ProxyIInv => HopsCountOnce
  BY <1>1 DEF HopsCountOnce
<1> QED
  BY <1>2, ProxyInitHolds, ProxyStep, PTL DEF ProxySpec

-----------------------------------------------------------------------------
(* WHO IS TOLD TO WAIT                                                     *)

(* Who was told to wait has as many failures as it takes, and the first of *)
(* them is in the window until then.                                       *)
WaitIsDue(at, until) ==
  loginTime < until => Len(at) >= MaxFailures /\ until <= at[1] + Window
LoginIInv ==
  /\ loginTime \in Nat
  /\ guesses \in [Client -> Seq(Nat)]
  /\ toldUntil \in [Client -> Int]
  /\ \A c \in Client : WaitIsDue(guesses[c], toldUntil[c])

(* How many failures go is defined: those before the first that is recent. *)
LEMMA OldIs ==
  ASSUME NEW at \in Seq(Nat), loginTime \in Nat
  PROVE  /\ Old(at) \in 0..Len(at)
         /\ \A i \in 1..Old(at) : at[i] <= loginTime - Window
         /\ Old(at) < Len(at) => at[Old(at) + 1] > loginTime - Window
<1> DEFINE Ends == {n \in 0..Len(at) : n = Len(at) \/ at[n + 1] > loginTime - Window}
<1>1. Len(at) \in Nat /\ Window \in Nat
  BY LoginAssumption
<1>2. Ends \in SUBSET Nat /\ Len(at) \in Ends
  BY <1>1
<1>3. PICK n \in Ends : \A m \in Ends : n <= m
  BY <1>2, SmallestOf
<1>4. n \in 0..Len(at) /\ (n < Len(at) => at[n + 1] > loginTime - Window)
  BY <1>1, <1>3
<1>5. ASSUME NEW i \in 1..n PROVE at[i] <= loginTime - Window
  <2>1. i - 1 \in 0..Len(at) /\ i - 1 < n /\ (i - 1) + 1 = i /\ i \in 1..Len(at)
    BY <1>1, <1>4, <1>5
  <2>2. i - 1 \notin Ends
    BY <1>3, <2>1
  <2>3. at[i] \in Nat
    BY <2>1
  <2> QED
    BY <1>1, <2>1, <2>2, <2>3
<1> QED
  BY <1>4, <1>5 DEF Old

(* The failures that still count are moments.                              *)
LEMMA RecentFit == ASSUME NEW at \in Seq(Nat), loginTime \in Nat PROVE RecentOf(at) \in Seq(Nat)
<1>1. Old(at) \in 0..Len(at) /\ Len(at) \in Nat
  BY OldIs
<1> QED
  BY <1>1 DEF RecentOf

(* Failures of which the first is recent stay as they are.                 *)
LEMMA RecentStay ==
  ASSUME NEW at \in Seq(Nat), loginTime \in Nat, Len(at) > 0, at[1] > loginTime - Window
  PROVE  RecentOf(at) = at
<1>1. Old(at) \in 0..Len(at) /\ Len(at) \in Nat /\ Window \in Nat
  BY OldIs, LoginAssumption
<1>2. Old(at) = 0
  BY <1>1, OldIs
<1> QED
  BY <1>1, <1>2 DEF RecentOf

(* So does what a client did that was told to wait, and it is blocked.     *)
LEMMA ToldStay ==
  ASSUME LoginIInv, NEW c \in Client, loginTime < toldUntil[c]
  PROVE  RecentOf(guesses[c]) = guesses[c] /\ guesses[c] # <<>> /\ Len(guesses[c]) >= MaxFailures
<1>1. guesses[c] \in Seq(Nat) /\ toldUntil[c] \in Int /\ MaxFailures \in Nat \ {0} /\ Window \in Nat
  BY LoginAssumption DEF LoginIInv
<1>2. Len(guesses[c]) >= MaxFailures /\ toldUntil[c] <= guesses[c][1] + Window
  BY DEF LoginIInv, WaitIsDue
<1>3. guesses[c][1] \in Nat /\ Len(guesses[c]) > 0
  BY <1>1, <1>2
<1>4. guesses[c][1] > loginTime - Window
  BY <1>1, <1>2, <1>3 DEF LoginIInv
<1> QED
  BY <1>1, <1>2, <1>3, <1>4, RecentStay DEF LoginIInv

(* Trimming leaves an entry as it is or takes it away.                     *)
LEMMA TrimmedFits ==
  ASSUME NEW table \in [Client -> Seq(Nat)]
  PROVE  /\ Trimmed(table) \in [Client -> Seq(Nat)]
         /\ \A c \in Client : Trimmed(table)[c] \in {table[c], <<>>}
         /\ Cardinality(Entries(table)) < MaxClients => Trimmed(table) = table
BY DEF Trimmed

(* A sign-in, right or wrong, keeps what is known of the limiter.          *)
LEMMA LoginKeeps == ASSUME LoginIInv, NEW c \in Client, NEW right \in BOOLEAN, Login(c, right) PROVE LoginIInv'
<1> DEFINE seen == Active(guesses, {c})
<1>1. seen \in [Client -> Seq(Nat)] /\ (\A d \in Client \ {c} : seen[d] = guesses[d]) /\ seen[c] = RecentOf(guesses[c])
  BY RecentFit DEF LoginIInv, Active
<1>2. loginTime' = loginTime /\ loginTime \in Nat /\ {MaxFailures, Window, MaxClients} \subseteq Nat \ {0}
  BY LoginAssumption DEF Login, LoginIInv
<1>3. \A d \in Client : loginTime < toldUntil[d] => seen[d] = guesses[d] /\ seen[d] # <<>> /\ Len(seen[d]) >= MaxFailures
  BY <1>1, ToldStay
<1>3a. \A d \in Client : WaitIsDue(guesses[d], toldUntil[d]) /\ toldUntil[d] \in Int
  BY DEF LoginIInv
<1> HIDE DEF seen
<1>4. CASE Blocked(seen, c)
  <2>1. guesses' = seen /\ toldUntil' = [toldUntil EXCEPT ![c] = Head(seen[c]) + Window]
    BY <1>4 DEF Login, seen
  <2>2. Len(seen[c]) >= MaxFailures /\ Head(seen[c]) = seen[c][1] /\ seen[c][1] \in Nat
    BY <1>1, <1>2, <1>4 DEF Blocked
  <2>3. toldUntil' \in [Client -> Int] /\ toldUntil'[c] = seen[c][1] + Window /\ \A d \in Client \ {c} : toldUntil'[d] = toldUntil[d]
    BY <1>2, <2>1, <2>2 DEF LoginIInv
  <2>4. \A d \in Client : WaitIsDue(guesses[d], toldUntil[d])'
    <3>1. WaitIsDue(guesses[c], toldUntil[c])'
      BY <1>2, <2>1, <2>2, <2>3 DEF WaitIsDue
    <3>2. ASSUME NEW d \in Client \ {c} PROVE WaitIsDue(guesses[d], toldUntil[d])'
      <4>1. guesses'[d] = guesses[d] /\ toldUntil'[d] = toldUntil[d] /\ WaitIsDue(guesses[d], toldUntil[d])
        BY <1>1, <1>3a, <2>1, <2>3
      <4> QED
        BY <1>2, <4>1 DEF WaitIsDue
    <3> QED
      BY <3>1, <3>2
  <2> QED
    BY <1>1, <1>2, <2>1, <2>3, <2>4 DEF LoginIInv
<1>5. CASE ~Blocked(seen, c)
  <2>1. guesses' = IF right THEN [seen EXCEPT ![c] = <<>>] ELSE Recorded(seen, c)
    BY <1>5 DEF Login, seen
  <2>2. toldUntil' = [d \in Client |->
           IF (right /\ d = c) \/ (~right /\ guesses'[d] = <<>> /\ CrowdedOut(d)) THEN 0 ELSE toldUntil[d]]
    BY <1>5 DEF Login, seen
  <2>3. toldUntil' \in [Client -> Int] /\ \A d \in Client : toldUntil'[d] = toldUntil[d] \/ toldUntil'[d] = 0
    BY <1>3a, <2>2
  <2>4. \A d \in Client : loginTime < toldUntil'[d] => d # c /\ toldUntil'[d] = toldUntil[d]
    <3>1. ~(loginTime < toldUntil[c])
      BY <1>3, <1>5 DEF Blocked
    <3> QED
      BY <1>2, <2>3, <3>1
  <2>5. CASE right
    <3>1. guesses' = [seen EXCEPT ![c] = <<>>] /\ <<>> \in Seq(Nat)
      BY <2>1, <2>5
    <3>2. guesses' \in [Client -> Seq(Nat)] /\ \A d \in Client \ {c} : guesses'[d] = guesses[d]
      BY <1>1, <3>1
    <3>3. \A d \in Client : WaitIsDue(guesses[d], toldUntil[d])'
      BY <1>2, <1>3a, <2>4, <3>2 DEF WaitIsDue
    <3> QED
      BY <1>2, <2>3, <3>2, <3>3 DEF LoginIInv
  <2>6. CASE ~right /\ seen[c] # <<>>
    <3>1. guesses' = IF Len(seen[c]) < MaxFailures THEN [seen EXCEPT ![c] = Append(@, loginTime)] ELSE seen
      BY <2>1, <2>6 DEF Recorded
    <3>2. guesses' \in [Client -> Seq(Nat)] /\ \A d \in Client \ {c} : guesses'[d] = guesses[d]
      BY <1>1, <1>2, <3>1
    <3>3. \A d \in Client : WaitIsDue(guesses[d], toldUntil[d])'
      BY <1>2, <1>3a, <2>4, <3>2 DEF WaitIsDue
    <3> QED
      BY <1>2, <2>3, <3>2, <3>3 DEF LoginIInv
  <2>7. CASE ~right /\ seen[c] = <<>>
    <3> DEFINE active == Active(seen, Client)
    <3>1. active \in [Client -> Seq(Nat)] /\ \A d \in Client : active[d] = RecentOf(seen[d])
      BY <1>1, <1>2, RecentFit DEF Active
    <3>2. \A d \in Client : loginTime < toldUntil[d] => active[d] = guesses[d]
      BY <1>3, <3>1, ToldStay
    <3>3. active[c] = <<>>
      <4>1. <<>> \in Seq(Nat) /\ Len(<<>>) = 0
        OBVIOUS
      <4>2. Old(<<>>) \in 0..0
        BY <1>2, <4>1, OldIs
      <4>3. SubSeq(<<>>, 1, 0) = <<>>
        BY <4>1
      <4> QED
        BY <2>7, <3>1, <4>1, <4>2, <4>3 DEF RecentOf
    <3>4. Entries(active) = {d \in Client : RecentOf(guesses[d]) # <<>>}
      BY <1>1, <2>7, <3>1, <3>3 DEF Entries
    <3>5. guesses' = [Trimmed(active) EXCEPT ![c] = <<loginTime>>]
      BY <2>1, <2>7 DEF Recorded, WithRoom
    <3> HIDE DEF active
    <3>6. guesses' \in [Client -> Seq(Nat)] /\ \A d \in Client \ {c} : guesses'[d] \in {active[d], <<>>}
      <4>1. <<loginTime>> \in Seq(Nat)
        BY <1>2
      <4> QED
        BY <3>1, <3>5, <4>1, TrimmedFits
    <3>7. ASSUME NEW d \in Client \ {c}, active[d] # <<>>, ~CrowdedOut(d) PROVE guesses'[d] = active[d]
      <4>1. Cardinality(Entries(active)) < MaxClients => Trimmed(active) = active
        BY <3>1, TrimmedFits
      <4>2. CASE ~(Cardinality(Entries(active)) < MaxClients)
        <5> DEFINE later == {e \in Entries(active) : <<d, e>> \in came}
        <5>1. later = {e \in Client : <<d, e>> \in came /\ RecentOf(guesses[e]) # <<>>}
          BY <3>4
        <5>2. IsFiniteSet(later)
          BY <5>1, FS_Subset, LoginAssumption
        <5>3. Cardinality(later) \in Nat
          BY <5>2, FS_CardinalityType
        <5>4. ~(Cardinality(later) >= MaxClients - 1)
          BY <3>7, <5>1 DEF CrowdedOut
        <5> HIDE DEF later
        <5>4a. Cardinality(later) < MaxClients - 1
          BY <1>2, <5>3, <5>4
        <5>5. d \in LastOnes(active, MaxClients - 1)
          BY <3>7, <5>4a DEF LastOnes, Entries, later
        <5> QED
          BY <3>1, <3>5, <4>2, <5>5 DEF Trimmed
      <4> QED
        BY <3>1, <3>5, <4>1, <4>2
    <3>8. ASSUME NEW d \in Client, d # c, loginTime < toldUntil'[d] PROVE guesses'[d] = guesses[d] /\ toldUntil'[d] = toldUntil[d]
      <4>1. toldUntil'[d] = toldUntil[d] /\ ~(guesses'[d] = <<>> /\ CrowdedOut(d))
        BY <1>2, <2>2, <2>7, <3>8
      <4>2. active[d] = guesses[d] /\ guesses[d] # <<>>
        BY <1>1, <1>3, <3>2, <3>8, <4>1
      <4> QED
        BY <3>6, <3>7, <3>8, <4>1, <4>2
    <3>9. \A d \in Client : WaitIsDue(guesses[d], toldUntil[d])'
      BY <1>2, <1>3a, <2>3, <2>4, <3>8 DEF WaitIsDue
    <3> QED
      BY <1>2, <2>3, <3>6, <3>9 DEF LoginIInv
  <2> QED
    BY <2>5, <2>6, <2>7
<1> QED
  BY <1>4, <1>5

(* Until the time it was told a client is blocked, whoever else fails and  *)
(* in whatever order, unless it signed in or all the room but its own was  *)
(* of clients inside the window that came after it (login-admission.ts).   *)
THEOREM ToldToWait == LoginSpec => []BlockedUntilTold
<1>1. LoginInit => LoginIInv
  <2>1. <<>> \in Seq(Nat)
    OBVIOUS
  <2> QED
    BY <2>1 DEF LoginInit, LoginIInv, WaitIsDue
<1>2. ASSUME LoginIInv, [LoginNext]_loginVars PROVE LoginIInv'
  <2>1. CASE \E c \in Client, right \in BOOLEAN : Login(c, right)
    BY <1>2, <2>1, LoginKeeps
  <2>2. CASE LoginTimePasses
    BY <1>2, <2>2 DEF LoginTimePasses, LoginIInv, WaitIsDue
  <2>3. CASE UNCHANGED loginVars
    BY <1>2, <2>3 DEF loginVars, LoginIInv, WaitIsDue
  <2> QED
    BY <1>2, <2>1, <2>2, <2>3 DEF LoginNext
<1>3. ASSUME LoginIInv PROVE BlockedUntilTold
  <2> SUFFICES ASSUME NEW c \in Client, loginTime < toldUntil[c] PROVE Blocked(Active(guesses, {c}), c)
    BY DEF BlockedUntilTold
  <2>1. Active(guesses, {c})[c] = RecentOf(guesses[c])
    BY DEF Active
  <2> QED
    BY <1>3, <2>1, ToldStay DEF Blocked
<1> QED
  BY <1>1, <1>2, <1>3, PTL DEF LoginSpec

(* A person's cookies end in time (SessionsEnd) and a client that was told *)
(* to wait is blocked, unless clients that came later leave it no room     *)
(* (BlockedUntilTold; WebSession, LoginAdmission).                         *)
THEOREM AccessIsKept == WebSpec /\ LoginSpec => []AccessHolds
BY SessionsEndInTime, ToldToWait, PTL DEF AccessHolds

-----------------------------------------------------------------------------
(* WHICH DATES ARE ASKED FOR                                               *)

(* A request, before and after it is normalized.                           *)
DatedDay == Nat \union {Absent}
Dated ==
  [trip : {"one-way", "round-trip"}, search : {"stay-range", "roundtrip-grid"},
   flexible : {"exact-stay", "fixed-ranges", "none"},
   depStart : DatedDay, depEnd : DatedDay, retStart : DatedDay, retEnd : DatedDay,
   stay : DatedDay, min : DatedDay, max : DatedDay]

(* What may be posted is a dated request.                                  *)
LEMMA PostedIsDated == Wanted \subseteq Dated
BY DatesAssumption DEF Wanted, Dated, DatedDay, Day, Nights

(* A stay in nights is a number.                                           *)
LEMMA StayFits ==
  ASSUME NEW w \in Dated
  PROVE  ExactStay(w) \in DatedDay /\ ExactStay(w) # 0 /\ StayReturns(w) \in [start : DatedDay, end : DatedDay]
BY DEF Dated, DatedDay, ExactStay, StayReturns, Normal, AtLeastOne, Given, Absent

(* A request asks for its dates in one of four ways.                       *)
LEMMA FourModes ==
  ASSUME NEW w \in Dated
  PROVE  /\ Mode(w) \in {"none", "exact-stay", "fixed-ranges", "legacy"}
         /\ Mode(w) # "none" => w.trip = "round-trip" /\ w.search = "roundtrip-grid"
BY DEF Mode, Dated

(* What each mode writes, field by field.                                  *)
LEMMA NormalizedIs ==
  ASSUME NEW w \in Dated, NEW v, v = Normalized(w)
  PROVE  /\ v \in Dated
         /\ v.trip = w.trip /\ v.search = w.search /\ v.depStart = w.depStart /\ v.depEnd = w.depEnd
         /\ Mode(w) = "exact-stay" =>
              /\ v.flexible = "exact-stay" /\ v.stay = ExactStay(w) /\ v.min = Absent /\ v.max = Absent
              /\ v.retStart = StayReturns(w).start /\ v.retEnd = StayReturns(w).end
         /\ Mode(w) # "exact-stay" => v.retStart = w.retStart /\ v.retEnd = w.retEnd
         /\ Mode(w) = "fixed-ranges" =>
              v.flexible = "fixed-ranges" /\ v.stay = Absent /\ v.min = Absent /\ v.max = Absent
         /\ Mode(w) = "legacy" =>
              v.flexible = "none" /\ v.stay = Absent /\ v.min = w.min /\ v.max = w.max
         /\ Mode(w) = "none" => v = w
<1>1. CASE Mode(w) = "exact-stay"
  <2>1. v = [w EXCEPT !.flexible = "exact-stay", !.retStart = StayReturns(w).start, !.retEnd = StayReturns(w).end,
                      !.stay = ExactStay(w), !.min = Absent, !.max = Absent]
    BY <1>1 DEF Normalized
  <2> HIDE DEF Normalized
  <2>2. Absent \in DatedDay
    BY DEF DatedDay
  <2> QED
    BY <1>1, <2>1, <2>2, StayFits DEF Dated
<1>2. CASE Mode(w) = "fixed-ranges"
  BY <1>2 DEF Normalized, Dated, DatedDay
<1>3. CASE Mode(w) = "legacy"
  BY <1>3 DEF Normalized, Dated, DatedDay
<1>4. CASE Mode(w) = "none"
  BY <1>4 DEF Normalized
<1> QED
  BY <1>1, <1>2, <1>3, <1>4, FourModes

(* Writing a request anew does not change how it is read.                  *)
LEMMA ModeStays ==
  ASSUME NEW w \in Dated
  PROVE  /\ Mode(Normalized(w)) = Mode(w)
         /\ Mode(w) = "exact-stay" => ExactStay(Normalized(w)) = ExactStay(w)
<1> DEFINE v == Normalized(w)
<1>1. v = Normalized(w)
  OBVIOUS
<1> HIDE DEF v
<1>2. CASE Mode(w) = "exact-stay"
  <2>1. v.stay = ExactStay(w) /\ v.flexible = "exact-stay" /\ v.trip = "round-trip" /\ v.search = "roundtrip-grid" /\ v.min = Absent
    BY <1>1, <1>2, NormalizedIs, FourModes
  <2>2. ExactStay(w) \in Nat \union {Absent} /\ ExactStay(w) # 0
    BY StayFits DEF DatedDay
  <2>3. ExactStay(v) = ExactStay(w)
    BY <2>1, <2>2 DEF ExactStay, Normal, AtLeastOne, Given, Absent
  <2> QED
    BY <1>1, <1>2, <2>1, <2>3 DEF Mode
<1>3. CASE Mode(w) = "fixed-ranges"
  BY <1>1, <1>3, NormalizedIs, FourModes DEF Mode
<1>4. CASE Mode(w) = "legacy"
  <2>1. /\ v.stay = Absent /\ v.flexible = "none" /\ v.trip = "round-trip" /\ v.search = "roundtrip-grid"
        /\ v.min = w.min /\ v.max = w.max /\ v.retStart = w.retStart /\ v.retEnd = w.retEnd
        /\ v.depStart = w.depStart /\ v.depEnd = w.depEnd
    BY <1>1, <1>4, NormalizedIs, FourModes
  <2>2. w.flexible = "none" /\ ExactStay(w) = Absent /\ HasLegacyNights(w)
    BY <1>4 DEF Mode, Dated, Given
  <2>3. w.stay = Absent
    BY <2>2 DEF ExactStay, Dated, DatedDay, Normal, AtLeastOne, Given, Absent
  <2>4. ExactStay(v) = ExactStay(w)
    BY <2>1, <2>3 DEF ExactStay
  <2>5. HasLegacyNights(v) = HasLegacyNights(w) /\ HasWindows(v) = HasWindows(w)
    BY <2>1, <2>4 DEF HasLegacyNights, HasWindows
  <2> QED
    BY <1>1, <1>4, <2>1, <2>2, <2>4, <2>5 DEF Mode, Given
<1>5. CASE Mode(w) = "none"
  BY <1>1, <1>5, NormalizedIs
<1> QED
  BY <1>2, <1>3, <1>4, <1>5, FourModes

(* Requests with the same fields are the same.                             *)
LEMMA SameFields ==
  ASSUME NEW u \in Dated, NEW v \in Dated,
         u.trip = v.trip, u.search = v.search, u.flexible = v.flexible, u.depStart = v.depStart, u.depEnd = v.depEnd,
         u.retStart = v.retStart, u.retEnd = v.retEnd, u.stay = v.stay, u.min = v.min, u.max = v.max
  PROVE  u = v
BY DEF Dated

(* A request that was normalized is normal.                                *)
LEMMA NormalizedIsDone ==
  ASSUME NEW w \in Dated
  PROVE  Normalized(Normalized(w)) = Normalized(w)
<1> DEFINE v == Normalized(w)  u == Normalized(v)
<1>1. v = Normalized(w) /\ u = Normalized(v)
  OBVIOUS
<1> HIDE DEF v, u
<1>2. v \in Dated /\ Mode(v) = Mode(w)
  BY <1>1, NormalizedIs, ModeStays
<1>3. CASE Mode(w) = "exact-stay"
  <2>1. /\ v.flexible = "exact-stay" /\ v.stay = ExactStay(v) /\ v.min = Absent /\ v.max = Absent
        /\ v.retStart = StayReturns(w).start /\ v.retEnd = StayReturns(w).end
        /\ v.depStart = w.depStart /\ v.depEnd = w.depEnd
    BY <1>1, <1>3, NormalizedIs, ModeStays
  <2>2. ExactStay(v) = ExactStay(w)
    BY <1>1, <1>3, ModeStays
  <2>3. w.depStart \in DatedDay /\ w.depEnd \in DatedDay /\ w.retStart \in DatedDay /\ w.retEnd \in DatedDay
    BY DEF Dated
  <2>4. v.retStart = StayReturns(v).start /\ v.retEnd = StayReturns(v).end
    BY <2>1, <2>2, <2>3, StayFits DEF StayReturns, DatedDay, Given, Absent
  <2>5. u \in Dated /\ u.trip = v.trip /\ u.search = v.search /\ u.depStart = v.depStart /\ u.depEnd = v.depEnd
    BY <1>1, <1>2, NormalizedIs
  <2>6. /\ u.flexible = "exact-stay" /\ u.stay = ExactStay(v) /\ u.min = Absent /\ u.max = Absent
        /\ u.retStart = StayReturns(v).start /\ u.retEnd = StayReturns(v).end
    BY <1>1, <1>2, <1>3, NormalizedIs
  <2> QED
    BY <1>1, <1>2, <2>1, <2>4, <2>5, <2>6, SameFields
<1>4. CASE Mode(w) = "fixed-ranges"
  <2>1. v.flexible = "fixed-ranges" /\ v.stay = Absent /\ v.min = Absent /\ v.max = Absent
    BY <1>1, <1>4, NormalizedIs
  <2>2. /\ u \in Dated /\ u.trip = v.trip /\ u.search = v.search /\ u.depStart = v.depStart /\ u.depEnd = v.depEnd
        /\ u.retStart = v.retStart /\ u.retEnd = v.retEnd
        /\ u.flexible = "fixed-ranges" /\ u.stay = Absent /\ u.min = Absent /\ u.max = Absent
    BY <1>1, <1>2, <1>4, NormalizedIs
  <2> QED
    BY <1>1, <1>2, <2>1, <2>2, SameFields
<1>5. CASE Mode(w) = "legacy"
  <2>1. v.flexible = "none" /\ v.stay = Absent
    BY <1>1, <1>5, NormalizedIs
  <2>2. /\ u \in Dated /\ u.trip = v.trip /\ u.search = v.search /\ u.depStart = v.depStart /\ u.depEnd = v.depEnd
        /\ u.retStart = v.retStart /\ u.retEnd = v.retEnd
        /\ u.flexible = "none" /\ u.stay = Absent /\ u.min = v.min /\ u.max = v.max
    BY <1>1, <1>2, <1>5, NormalizedIs
  <2> QED
    BY <1>1, <1>2, <2>1, <2>2, SameFields
<1>6. CASE Mode(w) = "none"
  BY <1>1, <1>6, NormalizedIs
<1> QED
  BY <1>3, <1>4, <1>5, <1>6, FourModes

(* The pairs of dates that are useful to a request are those that are to   *)
(* it once normalized.                                                     *)
LEMMA UsefulStays ==
  ASSUME NEW w \in Dated, Enumerable(w), w.trip = "round-trip", NEW d \in Nat, NEW r \in Nat
  PROVE  Useful(Normalized(w), d, r) = Useful(w, d, r)
<1> DEFINE v == Normalized(w)
<1>1. v = Normalized(w)
  OBVIOUS
<1> HIDE DEF v
<1>2. v \in Dated /\ Mode(v) = Mode(w) /\ v.depStart = w.depStart /\ v.depEnd = w.depEnd
  BY <1>1, NormalizedIs, ModeStays
<1>3. CASE Mode(w) = "exact-stay"
  <2>1. /\ v.retStart = StayReturns(w).start /\ v.retEnd = StayReturns(w).end
        /\ ExactStay(v) = ExactStay(w)
    BY <1>1, <1>3, NormalizedIs, ModeStays
  <2>2. ExactStay(w) \in Nat
    BY <1>3, StayFits DEF Enumerable, DatedDay, Given
  <2>3. w.depStart \in Nat /\ w.depEnd \in Nat /\ w.retStart \in DatedDay /\ w.retEnd \in DatedDay
    BY DEF Dated, Enumerable, DatedDay, Given
  <2>4. StayReturns(v).start = StayReturns(w).start /\ StayReturns(v).end = StayReturns(w).end
    BY <1>2, <2>1, <2>2, <2>3, StayFits DEF StayReturns, DatedDay, Given, Absent
  <2> QED
    BY <1>1, <1>2, <1>3, <2>1, <2>4 DEF Useful, Returns
<1>4. CASE Mode(w) = "fixed-ranges"
  <2>1. v.retStart = w.retStart /\ v.retEnd = w.retEnd
    BY <1>1, <1>4, NormalizedIs
  <2> QED
    BY <1>1, <1>2, <1>4, <2>1 DEF Useful, Returns
<1>5. CASE Mode(w) = "legacy"
  <2>1. v.retStart = w.retStart /\ v.retEnd = w.retEnd /\ v.min = w.min /\ v.max = w.max
    BY <1>1, <1>5, NormalizedIs
  <2> QED
    BY <1>1, <1>2, <1>5, <2>1 DEF Useful, Returns, MinNights, MaxNights
<1>6. CASE Mode(w) = "none"
  BY <1>1, <1>6, NormalizedIs
<1> QED
  BY <1>3, <1>4, <1>5, <1>6, FourModes

(* What an accepted request asks for: it can be enumerated, the pairs that *)
(* are useful to it are within the policy, and there are no more of them   *)
(* than the limit.                                                         *)
UsefulPairs(w) == {p \in Nat \X Nat : Useful(w, p[1], p[2])}
AsksLittle(w) ==
  /\ Enumerable(w)
  /\ w.trip = "round-trip" =>
       /\ UsefulPairs(w) \subseteq (Today..LastDay) \X (Today..LastDay)
       /\ Mode(w) # "exact-stay" => Cardinality(UsefulPairs(w)) <= MaxCombinations

(* A request that is not refused asks for few dates.                       *)
LEMMA AcceptedAsksLittle ==
  ASSUME NEW w \in Dated, ~Refused(w), Normalized(w) = w
  PROVE  AsksLittle(w)
<1>1. Given(w.depStart) /\ Given(w.depEnd) /\ \A day \in {w.depStart, w.depEnd, w.retStart, w.retEnd} : ~OutsidePolicy(day)
  BY DEF Refused
<1>2. w.trip = "round-trip" /\ Mode(w) = "exact-stay" => Given(w.stay) /\ ExactStay(w) = w.stay /\ ExactStay(w) # Absent
  BY NormalizedIs DEF Refused, Given
<1>3. Enumerable(w)
  BY <1>1, <1>2 DEF Refused, Enumerable, Given
<1>4. {Today, LastDay, MaxStay, MaxCombinations} \subseteq Nat \ {0}
  BY DatesAssumption
<1>5. ASSUME w.trip = "round-trip"
      PROVE  UsefulPairs(w) \subseteq (Today..LastDay) \X (Today..LastDay)
  <2>1. w.depStart \in Today..LastDay /\ w.depEnd \in Today..LastDay
    BY <1>1 DEF OutsidePolicy
  <2>2. Returns(w).start = w.retStart /\ Returns(w).end = w.retEnd
    BY NormalizedIs DEF Returns
  <2>3. w.retEnd \in DatedDay /\ w.retStart \in DatedDay
    BY DEF Dated
  <2> SUFFICES ASSUME NEW d \in Nat, NEW r \in Nat, Useful(w, d, r) PROVE d \in Today..LastDay /\ r \in Today..LastDay
    BY DEF UsefulPairs
  <2>4. d \in w.depStart..w.depEnd /\ r \in w.retStart..w.retEnd /\ r > d
    BY <2>2 DEF Useful
  <2>5. w.retEnd \in Today..LastDay
    BY <1>1, <2>3, <2>4 DEF OutsidePolicy, Given, Absent, DatedDay
  <2> QED
    BY <1>4, <2>1, <2>3, <2>4, <2>5 DEF DatedDay, Absent
<1>6. ASSUME w.trip = "round-trip", Mode(w) # "exact-stay"
      PROVE  Cardinality(UsefulPairs(w)) <= MaxCombinations
  <2>1. HasWindows(w) /\ Mode(w) \in {"fixed-ranges", "legacy", "none"}
    BY <1>1, <1>6, FourModes DEF Refused, HasWindows
  <2>2. /\ w.depStart \in Nat /\ w.depEnd \in Nat /\ w.retStart \in Nat /\ w.retEnd \in Nat
        /\ Returns(w).start = w.retStart /\ Returns(w).end = w.retEnd
    BY <1>6, <2>1 DEF HasWindows, Given, Dated, DatedDay, Returns
  <2>3. ASSUME NEW least \in Nat, NEW most \in Nat, least > 0, ~TooMany(w, least, most),
               \A d, r \in Nat : Useful(w, d, r) => r \in (d + least)..(d + most)
        PROVE  Cardinality(UsefulPairs(w)) <= MaxCombinations
    <3> DEFINE Box == (w.depStart..w.depEnd) \X (w.retStart..w.retEnd)
               Inside == {p \in Box : p[2] \in (p[1] + least)..(p[1] + most)}
    <3>1. IsFiniteSet(Box)
      <4>1. IsFiniteSet(w.depStart..w.depEnd) /\ IsFiniteSet(w.retStart..w.retEnd)
        <5>1. w.depStart \in Int /\ w.depEnd \in Int /\ w.retStart \in Int /\ w.retEnd \in Int
          BY <2>2
        <5> QED
          BY <5>1, FS_Interval
      <4> QED
        BY <4>1, FS_Product
    <3>2. IsFiniteSet(Inside) /\ Cardinality(Inside) \in Nat
      BY <3>1, FS_Subset, FS_CardinalityType
    <3>3. Estimate(w.depStart, w.depEnd, w.retStart, w.retEnd, least, most) = Cardinality(Inside)
      <4>1. AtLeastOne(least) = least
        BY <2>3 DEF AtLeastOne
      <4> QED
        BY <4>1 DEF Estimate
    <3>4. Cardinality(Inside) <= MaxCombinations
      BY <1>4, <2>1, <2>3, <3>2, <3>3 DEF TooMany
    <3>5. UsefulPairs(w) \subseteq Inside
      BY <2>2, <2>3 DEF UsefulPairs, Useful
    <3>6. Cardinality(UsefulPairs(w)) <= Cardinality(Inside) /\ Cardinality(UsefulPairs(w)) \in Nat
      BY <3>2, <3>5, FS_Subset, FS_CardinalityType
    <3> QED
      BY <1>4, <3>2, <3>4, <3>6
  <2>4. CASE Mode(w) = "fixed-ranges"
    <3>1. ~TooMany(w, 1, MaxStay)
      BY <1>6, <2>4 DEF Refused
    <3>2. \A d, r \in Nat : Useful(w, d, r) => r \in (d + 1)..(d + MaxStay)
      BY <1>4, <2>4 DEF Useful
    <3>3. 1 \in Nat /\ 1 > 0 /\ MaxStay \in Nat
      BY <1>4
    <3> QED
      BY <2>3, <3>1, <3>2, <3>3
  <2>5. CASE Mode(w) \in {"legacy", "none"}
    <3>1. w.search = "stay-range" \/ Mode(w) = "legacy"
      BY <1>6, <2>1, <2>5 DEF Mode, Dated
    <3>2. MaxNights(w) <= MaxStay /\ ~TooMany(w, MinNights(w), Smaller(MaxNights(w), MaxStay))
      <4>1. ~(MaxNights(w) > MaxStay) /\ ~TooMany(w, MinNights(w), Smaller(MaxNights(w), MaxStay))
        BY <1>6, <2>1, <2>5, <3>1 DEF Refused
      <4>2. MaxNights(w) \in Nat
        BY DEF MaxNights, MinNights, Larger, AtLeastOne, Given, Absent, Dated, DatedDay
      <4> QED
        BY <1>4, <4>1, <4>2
    <3>3. MinNights(w) \in Nat /\ MinNights(w) > 0 /\ MaxNights(w) \in Nat
      BY DEF MaxNights, MinNights, Larger, AtLeastOne, Given, Absent, Dated, DatedDay
    <3>4. Smaller(MaxNights(w), MaxStay) = MaxNights(w)
      BY <1>4, <3>2, <3>3 DEF Smaller
    <3>5. \A d, r \in Nat : Useful(w, d, r) => r \in (d + MinNights(w))..(d + MaxNights(w))
      BY <2>5, <3>3 DEF Useful
    <3> QED
      BY <2>3, <3>2, <3>3, <3>4, <3>5
  <2> QED
    BY <2>1, <2>4, <2>5
<1> QED
  BY <1>3, <1>5, <1>6 DEF AsksLittle

(* The days of a window, each once.                                        *)
LEMMA DaysAre ==
  ASSUME NEW from \in Int, NEW to \in Int
  PROVE  /\ Days(from, to) \in Seq(Int) /\ IsInjective(Days(from, to))
         /\ \A x : x \in ToSet(Days(from, to)) <=> x \in from..to
<1> DEFINE n == Larger(0, to - from + 1)
<1>1. n \in Nat /\ (to - from + 1 > 0 => n = to - from + 1) /\ (~(to - from + 1 > 0) => n = 0)
  BY DEF Larger
<1> HIDE DEF n
<1>2. Days(from, to) = [i \in 1..n |-> from + i - 1]
  BY DEF Days, n
<1>3. Days(from, to) \in Seq(Int) /\ DOMAIN Days(from, to) = 1..n
  BY <1>1, <1>2
<1>4. IsInjective(Days(from, to))
  BY <1>1, <1>2 DEF IsInjective
<1>5. ASSUME NEW x \in from..to PROVE x \in ToSet(Days(from, to))
  <2>1. x - from + 1 \in 1..n /\ from + (x - from + 1) - 1 = x
    BY <1>1, <1>5
  <2>2. Days(from, to)[x - from + 1] = x
    BY <1>2, <2>1
  <2> QED
    BY <1>3, <2>1, <2>2 DEF ToSet
<1>6. ASSUME NEW i \in 1..n PROVE Days(from, to)[i] \in from..to
  BY <1>1, <1>2, <1>6
<1> QED
  BY <1>3, <1>4, <1>5, <1>6 DEF ToSet

DatePair == Int \X Int

(* Of elements none of which are the same, those that are taken, each once. *)
Taken(n, one, takes) == [i \in 1..n |-> IF i \in takes THEN <<one[i]>> ELSE <<>>]
AllOf(one, takes) == {one[i] : i \in takes}

(* Those taken of a list, one after the other, come once if they did in it. *)
LEMMA OneOrNone ==
  ASSUME NEW S, NEW n \in Nat, NEW one \in [1..n -> S], NEW takes \in SUBSET (1..n), IsInjective(one)
  PROVE  /\ FlattenSeq(Taken(n, one, takes)) \in Seq(S) /\ IsInjective(FlattenSeq(Taken(n, one, takes)))
         /\ ToSet(FlattenSeq(Taken(n, one, takes))) = AllOf(one, takes)
<1> DEFINE tt == [i \in 1..n |-> IF i \in takes THEN <<one[i]>> ELSE <<>>]
<1>1. \A i \in 1..n : tt[i] \in Seq(S)
  OBVIOUS
<1>2. tt \in Seq(Seq(S)) /\ Len(tt) = n /\ Taken(n, one, takes) = tt
  BY <1>1 DEF Taken
<1>3. \A i \in 1..n : IsInjective(tt[i]) /\ \A x : x \in ToSet(tt[i]) <=> i \in takes /\ x = one[i]
  <2> SUFFICES ASSUME NEW i \in 1..n PROVE IsInjective(tt[i]) /\ \A x : x \in ToSet(tt[i]) <=> i \in takes /\ x = one[i]
    OBVIOUS
  <2>1. CASE i \in takes
    <3>1. tt[i] = <<one[i]>> /\ DOMAIN tt[i] = {1} /\ tt[i][1] = one[i]
      BY <2>1
    <3> HIDE DEF tt
    <3> QED
      BY <2>1, <3>1 DEF ToSet, IsInjective
  <2>2. CASE i \notin takes
    <3>1. tt[i] = <<>> /\ DOMAIN <<>> = {}
      BY <2>2
    <3> HIDE DEF tt
    <3> QED
      BY <2>2, <3>1 DEF ToSet, IsInjective
  <2> QED
    BY <2>1, <2>2
<1> HIDE DEF tt
<1>4. ASSUME NEW i \in 1..n, NEW j \in 1..n, i # j PROVE ToSet(tt[i]) \intersect ToSet(tt[j]) = {}
  <2> SUFFICES ASSUME NEW x, x \in ToSet(tt[i]), x \in ToSet(tt[j]) PROVE FALSE
    OBVIOUS
  <2>1. one[i] = one[j] /\ DOMAIN one = 1..n
    BY <1>3
  <2> QED
    BY <1>4, <2>1 DEF IsInjective
<1>5. /\ FlattenSeq(tt) \in Seq(S) /\ IsInjective(FlattenSeq(tt))
      /\ \A x : x \in ToSet(FlattenSeq(tt)) <=> \E i \in 1..n : x \in ToSet(tt[i])
  <2>1. \A i \in 1..Len(tt) : IsInjective(tt[i])
    BY <1>2, <1>3
  <2>2. \A i, j \in 1..Len(tt) : i # j => ToSet(tt[i]) \intersect ToSet(tt[j]) = {}
    BY <1>2, <1>4
  <2>3. /\ FlattenSeq(tt) \in Seq(S) /\ IsInjective(FlattenSeq(tt))
        /\ \A x : x \in ToSet(FlattenSeq(tt)) <=> \E i \in 1..Len(tt) : x \in ToSet(tt[i])
    BY <1>2, <2>1, <2>2, FlattenHolds
  <2> QED
    BY <1>2, <2>3
<1>6. \A x : x \in ToSet(FlattenSeq(tt)) <=> \E i \in takes : x = one[i]
  BY <1>3, <1>5
<1> QED
  BY <1>2, <1>5, <1>6 DEF AllOf

(* A stable sort leaves a list with the same elements, as often.           *)
LEMMA WavesHold ==
  ASSUME NEW w, NEW pairs \in Seq(DatePair), IsInjective(pairs)
  PROVE  /\ InWaves(w, pairs) \in Seq(DatePair) /\ IsInjective(InWaves(w, pairs))
         /\ ToSet(InWaves(w, pairs)) = ToSet(pairs)
<1> DEFINE n == Len(pairs)
           precedes(j, i) == Before(w, pairs[j], pairs[i]) \/ (~Before(w, pairs[i], pairs[j]) /\ j < i)
           ahead == [i \in 1..n |-> {j \in 1..n : precedes(j, i)}]
           at(k) == CHOOSE i \in 1..n : Cardinality({j \in 1..n : precedes(j, i)}) = k - 1
<1>1. n \in Nat /\ DOMAIN pairs = 1..n /\ IsFiniteSet(1..n) /\ Cardinality(1..n) = n
  <2>1. n \in Nat /\ n \in Int /\ 1 \in Int
    OBVIOUS
  <2> QED
    BY <2>1, FS_Interval, SMTT(30)
<1>2. \A i \in 1..n : pairs[i][1] \in Int /\ pairs[i][2] \in Int
  BY DEF DatePair
<1>3. ahead \in [1..n -> SUBSET (1..n)] /\ \A i \in 1..n : ahead[i] = {j \in 1..n : precedes(j, i)}
  OBVIOUS
<1>4. \A i, j \in 1..n : j \in ahead[i] <=> precedes(j, i)
  BY <1>3
<1> HIDE DEF ahead
<1>5. \A i \in 1..n : i \notin ahead[i]
  <2>1. \A i \in 1..n : ~precedes(i, i)
    BY <1>1, <1>2 DEF Before
  <2> QED
    BY <1>4, <2>1
<1>6. \A i, j \in 1..n : i # j => i \in ahead[j] \/ j \in ahead[i]
  <2>1. \A i, j \in 1..n : i # j => i < j \/ j < i
    BY <1>1
  <2> QED
    BY <1>4, <2>1
<1>7. \A i, j \in 1..n : i \in ahead[j] => ahead[i] \subseteq ahead[j]
  <2> SUFFICES ASSUME NEW i \in 1..n, NEW j \in 1..n, NEW k \in 1..n, precedes(i, j), precedes(k, i) PROVE precedes(k, j)
    BY <1>3, <1>4
  <2>0. /\ pairs[i][1] \in Int /\ pairs[i][2] \in Int /\ pairs[j][1] \in Int /\ pairs[j][2] \in Int
        /\ pairs[k][1] \in Int /\ pairs[k][2] \in Int /\ i \in Int /\ j \in Int /\ k \in Int
    BY <1>1, <1>2
  <2>1. CASE w.trip = "one-way"
    BY <2>0, <2>1 DEF Before
  <2>2. CASE w.trip # "one-way"
    <3> DEFINE a == pairs[i][1]  b == pairs[j][1]  c == pairs[k][1]
               d == pairs[i][1] + pairs[i][2]  e == pairs[j][1] + pairs[j][2]  f == pairs[k][1] + pairs[k][2]
    <3>1. a \in Int /\ b \in Int /\ c \in Int /\ d \in Int /\ e \in Int /\ f \in Int
      BY <2>0, SMTT(30)
    <3>2. /\ Before(w, pairs[i], pairs[j]) <=> (d < e \/ (d = e /\ a < b))
          /\ Before(w, pairs[j], pairs[i]) <=> (e < d \/ (e = d /\ b < a))
          /\ Before(w, pairs[k], pairs[i]) <=> (f < d \/ (f = d /\ c < a))
          /\ Before(w, pairs[i], pairs[k]) <=> (d < f \/ (d = f /\ a < c))
          /\ Before(w, pairs[k], pairs[j]) <=> (f < e \/ (f = e /\ c < b))
          /\ Before(w, pairs[j], pairs[k]) <=> (e < f \/ (e = f /\ b < c))
      BY <2>2 DEF Before
    <3> HIDE DEF a, b, c, d, e, f
    <3> QED
      BY <2>0, <3>1, <3>2
  <2> QED
    BY <2>1, <2>2
<1>8. /\ \A i, j \in 1..n : Cardinality(ahead[i]) = Cardinality(ahead[j]) => i = j
      /\ \A k \in 0..(n - 1) : \E i \in 1..n : Cardinality(ahead[i]) = k
  <2> DEFINE S == 1..n
  <2>1. /\ IsFiniteSet(S) /\ ahead \in [S -> SUBSET S] /\ Cardinality(S) = n
        /\ \A i \in S : i \notin ahead[i]
        /\ \A i, j \in S : i # j => i \in ahead[j] \/ j \in ahead[i]
        /\ \A i, j \in S : i \in ahead[j] => ahead[i] \subseteq ahead[j]
    BY <1>1, <1>3, <1>5, <1>6, <1>7
  <2> HIDE DEF S
  <2>2. /\ \A i, j \in S : Cardinality(ahead[i]) = Cardinality(ahead[j]) => i = j
        /\ \A k \in 0..(Cardinality(S) - 1) : \E i \in S : Cardinality(ahead[i]) = k
    BY <2>1, PlacesAreTaken
  <2> QED
    BY <2>1, <2>2 DEF S
<1>9. \A k \in 1..n : at(k) \in 1..n /\ Cardinality(ahead[at(k)]) = k - 1
  <2> SUFFICES ASSUME NEW k \in 1..n PROVE at(k) \in 1..n /\ Cardinality(ahead[at(k)]) = k - 1
    OBVIOUS
  <2>1. k - 1 \in 0..(n - 1)
    BY <1>1
  <2>2. \E i \in 1..n : Cardinality(ahead[i]) = k - 1
    BY <1>8, <2>1
  <2>3. at(k) \in 1..n /\ Cardinality({j \in 1..n : precedes(j, at(k))}) = k - 1
    <3> HIDE DEF precedes
    <3> QED
      BY <1>3, <2>2
  <2> QED
    BY <1>3, <2>3
<1>10. InWaves(w, pairs) = [k \in 1..n |-> pairs[at(k)]]
  BY <1>1 DEF InWaves
<1> HIDE DEF at
<1> DEFINE s == InWaves(w, pairs)
<1>11. s \in Seq(DatePair) /\ DOMAIN s = 1..n /\ \A k \in 1..n : s[k] = pairs[at(k)]
  BY <1>1, <1>9, <1>10
<1> HIDE DEF s
<1>12. IsInjective(s)
  <2> SUFFICES ASSUME NEW k \in 1..n, NEW l \in 1..n, s[k] = s[l] PROVE k = l
    BY <1>11 DEF IsInjective
  <2>1. at(k) = at(l)
    BY <1>1, <1>9, <1>11 DEF IsInjective
  <2>2. k - 1 = l - 1
    BY <1>9, <2>1
  <2> QED
    BY <1>1, <2>2
<1>13. ASSUME NEW i \in 1..n PROVE pairs[i] \in ToSet(s)
  <2>1. i \in 1..n /\ Cardinality(ahead[i]) \in 0..(n - 1)
    <3>1. IsFiniteSet(ahead[i]) /\ Cardinality(ahead[i]) \in Nat
      BY <1>1, <1>3, FS_Subset, FS_CardinalityType
    <3>2. Cardinality(ahead[i]) <= n /\ Cardinality(ahead[i]) # n
      <4>1. ahead[i] \in SUBSET (1..n) /\ ahead[i] # 1..n
        BY <1>3, <1>5
      <4> QED
        BY <1>1, <4>1, FS_Subset
    <3> QED
      BY <1>1, <3>1, <3>2
  <2>2. Cardinality(ahead[i]) + 1 \in 1..n /\ (Cardinality(ahead[i]) + 1) - 1 = Cardinality(ahead[i])
    BY <1>1, <2>1
  <2>3. at(Cardinality(ahead[i]) + 1) = i
    <3>1. at(Cardinality(ahead[i]) + 1) \in 1..n /\ Cardinality(ahead[at(Cardinality(ahead[i]) + 1)]) = Cardinality(ahead[i])
      BY <1>9, <2>2
    <3> QED
      BY <1>8, <3>1
  <2>4. s[Cardinality(ahead[i]) + 1] = pairs[i]
    BY <1>11, <2>2, <2>3
  <2> QED
    BY <1>11, <2>2, <2>4 DEF ToSet
<1>14. ToSet(s) = ToSet(pairs)
  BY <1>1, <1>9, <1>11, <1>13 DEF ToSet
<1> QED
  BY <1>11, <1>12, <1>14 DEF s

(* The days of a request that can be enumerated are numbers.               *)
LEMMA WindowsAre ==
  ASSUME NEW w \in Dated, Enumerable(w)
  PROVE  /\ w.depStart \in Nat /\ w.depEnd \in Nat /\ w.trip \in {"one-way", "round-trip"}
         /\ w.trip = "round-trip" => Returns(w).start \in Nat /\ Returns(w).end \in Nat
         /\ w.trip = "round-trip" /\ Mode(w) = "exact-stay" => ExactStay(w) \in Nat
<1>1. /\ w.depStart \in Nat /\ w.depEnd \in Nat /\ w.trip \in {"one-way", "round-trip"}
      /\ w.retStart \in DatedDay /\ w.retEnd \in DatedDay
  BY DEF Dated, DatedDay, Enumerable, Given
<1>2. CASE w.trip = "round-trip" /\ Mode(w) = "exact-stay"
  <2>1. ExactStay(w) \in Nat
    BY <1>2, StayFits DEF Enumerable, Given, DatedDay
  <2>2. StayReturns(w).start \in Nat /\ StayReturns(w).end \in Nat
    BY <1>1, <2>1 DEF StayReturns, DatedDay, Given, Absent
  <2> QED
    BY <1>1, <1>2, <2>1, <2>2 DEF Returns
<1>3. CASE w.trip = "round-trip" /\ Mode(w) # "exact-stay"
  BY <1>1, <1>3 DEF Returns, Enumerable, Given, DatedDay
<1> QED
  BY <1>1, <1>2, <1>3

(* The returns of one departure day are the useful ones, each once.        *)
LEMMA RowsAre ==
  ASSUME NEW w \in Dated, Enumerable(w), w.trip = "round-trip", NEW d \in w.depStart..w.depEnd
  PROVE  LET returns == Days(Returns(w).start, Returns(w).end)
             stayed == LET r == d + ExactStay(w)
                       IN IF r \in Returns(w).start..Returns(w).end /\ r > d THEN <<<<d, r>>>> ELSE <<>>
             ranged == FlattenSeq([j \in 1..Len(returns) |->
                         IF Useful(w, d, returns[j]) THEN <<<<d, returns[j]>>>> ELSE <<>>])
             row == IF Mode(w) = "exact-stay" THEN stayed ELSE ranged
         IN /\ row \in Seq(DatePair) /\ IsInjective(row)
            /\ \A p : p \in ToSet(row) <=> p \in UsefulPairs(w) /\ p[1] = d
<1>1. /\ w.depStart \in Nat /\ w.depEnd \in Nat /\ d \in Nat
      /\ Returns(w).start \in Nat /\ Returns(w).end \in Nat
      /\ Mode(w) = "exact-stay" => ExactStay(w) \in Nat
  BY WindowsAre
<1>2. \A r : Useful(w, d, r) => r \in Returns(w).start..Returns(w).end /\ r \in Nat
  BY <1>1 DEF Useful
<1>3. \A p : p \in UsefulPairs(w) /\ p[1] = d <=> \E r \in Nat : p = <<d, r>> /\ Useful(w, d, r)
  BY <1>1 DEF UsefulPairs
<1>4. CASE Mode(w) = "exact-stay"
  <2> DEFINE r == d + ExactStay(w)
             stayed == IF r \in Returns(w).start..Returns(w).end /\ r > d THEN <<<<d, r>>>> ELSE <<>>
  <2>1. r \in Nat /\ <<d, r>> \in DatePair
    BY <1>1, <1>4 DEF DatePair
  <2>2. \A t \in Nat : Useful(w, d, t) <=> t = r /\ r \in Returns(w).start..Returns(w).end /\ r > d
    BY <1>1, <1>4 DEF Useful
  <2>3. CASE r \in Returns(w).start..Returns(w).end /\ r > d
    <3>1. stayed = <<<<d, r>>>> /\ DOMAIN stayed = {1} /\ stayed[1] = <<d, r>> /\ stayed \in Seq(DatePair)
      BY <2>1, <2>3
    <3>2. \A p : p \in UsefulPairs(w) /\ p[1] = d <=> p = <<d, r>>
      BY <1>3, <2>1, <2>2, <2>3
    <3>3. IsInjective(stayed) /\ \A p : p \in ToSet(stayed) <=> p = <<d, r>>
      <4> HIDE DEF stayed, r
      <4> QED
        BY <3>1 DEF IsInjective, ToSet
    <3> HIDE DEF UsefulPairs
    <3> QED
      BY <1>4, <3>1, <3>2, <3>3
  <2>4. CASE ~(r \in Returns(w).start..Returns(w).end /\ r > d)
    <3>1. stayed = <<>> /\ stayed \in Seq(DatePair) /\ DOMAIN <<>> = {}
      BY <2>4
    <3>2. \A p : ~(p \in UsefulPairs(w) /\ p[1] = d)
      BY <1>3, <2>2, <2>4
    <3>3. IsInjective(stayed) /\ \A p : p \notin ToSet(stayed)
      <4> HIDE DEF stayed
      <4> QED
        BY <3>1 DEF IsInjective, ToSet
    <3> QED
      BY <1>4, <3>1, <3>2, <3>3
  <2> QED
    BY <2>3, <2>4
<1>5. CASE Mode(w) # "exact-stay"
  <2> DEFINE returns == Days(Returns(w).start, Returns(w).end)
             n == Len(returns)
             one == [j \in 1..n |-> <<d, returns[j]>>]
             takes == {j \in 1..n : Useful(w, d, returns[j])}
             ss == [j \in 1..n |-> IF j \in takes THEN <<one[j]>> ELSE <<>>]
             raw == [j \in 1..n |-> IF Useful(w, d, returns[j]) THEN <<<<d, returns[j]>>>> ELSE <<>>]
  <2>1. /\ returns \in Seq(Int) /\ IsInjective(returns)
        /\ \A x : x \in ToSet(returns) <=> x \in Returns(w).start..Returns(w).end
    <3>1. Returns(w).start \in Int /\ Returns(w).end \in Int
      BY <1>1
    <3> QED
      BY <3>1, DaysAre
  <2> HIDE DEF returns
  <2>2. n \in Nat /\ DOMAIN returns = 1..n /\ \A j \in 1..n : returns[j] \in Int
    BY <2>1
  <2>3. one \in [1..n -> DatePair] /\ IsInjective(one)
    <3>1. \A j \in 1..n : <<d, returns[j]>> \in DatePair
      BY <1>1, <2>2 DEF DatePair
    <3>2. one \in [1..n -> DatePair] /\ DOMAIN one = 1..n /\ \A j \in 1..n : one[j] = <<d, returns[j]>>
      BY <3>1
    <3> HIDE DEF one, n
    <3>3. \A i, j \in 1..n : one[i] = one[j] => returns[i] = returns[j]
      BY <3>2
    <3> QED
      BY <2>1, <2>2, <3>2, <3>3 DEF IsInjective
  <2>4. ss = raw
    BY DEF ss, raw
  <2>5. takes \in SUBSET (1..n)
    OBVIOUS
  <2>6. /\ FlattenSeq(ss) \in Seq(DatePair) /\ IsInjective(FlattenSeq(ss))
        /\ ToSet(FlattenSeq(ss)) = {one[j] : j \in takes}
    <3>1. n \in Nat /\ one \in [1..n -> DatePair] /\ takes \in SUBSET (1..n) /\ IsInjective(one)
      BY <2>2, <2>3, <2>5
    <3>2. ss = Taken(n, one, takes)
      BY DEF Taken
    <3> HIDE DEF takes, one, n, ss
    <3>3. /\ FlattenSeq(Taken(n, one, takes)) \in Seq(DatePair) /\ IsInjective(FlattenSeq(Taken(n, one, takes)))
          /\ ToSet(FlattenSeq(Taken(n, one, takes))) = AllOf(one, takes)
      BY ONLY <3>1, OneOrNone, ZenonT(60)
    <3> QED
      BY <3>2, <3>3 DEF AllOf
  <2>7. ASSUME NEW p PROVE (\E j \in takes : p = one[j]) <=> p \in UsefulPairs(w) /\ p[1] = d
    <3>1. ASSUME NEW j \in takes, p = one[j] PROVE p \in UsefulPairs(w) /\ p[1] = d
      BY <1>2, <1>3, <2>2, <3>1
    <3>2. ASSUME p \in UsefulPairs(w), p[1] = d PROVE \E j \in takes : p = one[j]
      <4>1. PICK r \in Nat : p = <<d, r>> /\ Useful(w, d, r)
        BY <1>3, <3>2
      <4>2. PICK j \in 1..n : returns[j] = r
        BY <1>2, <2>1, <2>2, <4>1 DEF ToSet
      <4> QED
        BY <4>1, <4>2
    <3> QED
      BY <3>1, <3>2
  <2>8. /\ FlattenSeq(raw) \in Seq(DatePair) /\ IsInjective(FlattenSeq(raw))
        /\ \A p : p \in ToSet(FlattenSeq(raw)) <=> p \in UsefulPairs(w) /\ p[1] = d
    <3> HIDE DEF ss, raw, takes, one
    <3> QED
      BY <2>4, <2>6, <2>7
  <2> QED
    BY <1>5, <2>8 DEF returns
<1> QED
  BY <1>4, <1>5

(* The pairs of a request: each useful one once, or each departure day.    *)
LEMMA PairsAre ==
  ASSUME NEW w \in Dated, Enumerable(w)
  PROVE  /\ Pairs(w) \in Seq(DatePair) /\ IsInjective(Pairs(w))
         /\ w.trip = "one-way" => ToSet(Pairs(w)) = {<<d, Absent>> : d \in w.depStart..w.depEnd}
         /\ w.trip = "round-trip" => ToSet(Pairs(w)) = UsefulPairs(w)
<1> DEFINE departures == Days(w.depStart, w.depEnd)
           n == Len(departures)
<1>1. w.depStart \in Nat /\ w.depEnd \in Nat /\ w.trip \in {"one-way", "round-trip"}
  BY WindowsAre
<1>2. /\ departures \in Seq(Int) /\ IsInjective(departures)
      /\ \A x : x \in ToSet(departures) <=> x \in w.depStart..w.depEnd
  <2>1. w.depStart \in Int /\ w.depEnd \in Int
    BY <1>1
  <2> QED
    BY <2>1, DaysAre
<1> HIDE DEF departures
<1>3. n \in Nat /\ DOMAIN departures = 1..n /\ \A i \in 1..n : departures[i] \in w.depStart..w.depEnd
  BY <1>2 DEF ToSet
<1>4. CASE w.trip = "one-way"
  <2>1. Pairs(w) = [i \in 1..n |-> <<departures[i], Absent>>]
    BY <1>4 DEF Pairs, departures
  <2> DEFINE q == [i \in 1..n |-> <<departures[i], Absent>>]
  <2>2. q \in Seq(DatePair) /\ DOMAIN q = 1..n /\ \A i \in 1..n : q[i] = <<departures[i], Absent>>
    <3>1. \A i \in 1..n : <<departures[i], Absent>> \in DatePair
      BY <1>1, <1>3 DEF DatePair, Absent
    <3> QED
      BY <1>3, <3>1
  <2> HIDE DEF q
  <2>3. IsInjective(q)
    BY <1>2, <1>3, <2>2 DEF IsInjective
  <2>4. \A d \in w.depStart..w.depEnd : \E i \in 1..n : departures[i] = d
    BY <1>2, <1>3 DEF ToSet
  <2>5. ToSet(q) = {<<d, Absent>> : d \in w.depStart..w.depEnd}
    <3>1. ToSet(q) = {q[i] : i \in 1..n}
      BY <2>2 DEF ToSet
    <3>2. \A i \in 1..n : q[i] \in {<<d, Absent>> : d \in w.depStart..w.depEnd}
      BY <1>3, <2>2
    <3>3. \A d \in w.depStart..w.depEnd : <<d, Absent>> \in ToSet(q)
      BY <2>2, <2>4, <3>1
    <3> QED
      BY <3>1, <3>2, <3>3
  <2> QED
    BY <1>4, <2>1, <2>2, <2>3, <2>5 DEF q
<1>5. CASE w.trip = "round-trip"
  <2> DEFINE returns == Days(Returns(w).start, Returns(w).end)
             stayed(d) == LET r == d + ExactStay(w)
                          IN IF r \in Returns(w).start..Returns(w).end /\ r > d THEN <<<<d, r>>>> ELSE <<>>
             ranged(d) == FlattenSeq([j \in 1..Len(returns) |->
                            IF Useful(w, d, returns[j]) THEN <<<<d, returns[j]>>>> ELSE <<>>])
             row(d) == IF Mode(w) = "exact-stay" THEN stayed(d) ELSE ranged(d)
             rows == [i \in 1..n |-> row(departures[i])]
  <2>1. Pairs(w) = FlattenSeq(rows)
    BY <1>5 DEF Pairs, departures
  <2>2. ASSUME NEW d \in w.depStart..w.depEnd
        PROVE  /\ row(d) \in Seq(DatePair) /\ IsInjective(row(d))
               /\ \A p : p \in ToSet(row(d)) <=> p \in UsefulPairs(w) /\ p[1] = d
    BY <1>5, RowsAre
  <2> HIDE DEF row
  <2>3. rows \in Seq(Seq(DatePair)) /\ Len(rows) = n /\ \A i \in 1..n : rows[i] = row(departures[i])
    BY <1>3, <2>2
  <2> HIDE DEF rows
  <2>4. \A i \in 1..Len(rows) : IsInjective(rows[i])
    <3> SUFFICES ASSUME NEW i \in 1..n PROVE IsInjective(rows[i])
      BY <2>3
    <3>1. departures[i] \in w.depStart..w.depEnd /\ rows[i] = row(departures[i])
      BY <1>3, <2>3
    <3>2. IsInjective(row(departures[i]))
      BY <2>2, <3>1
    <3> QED
      BY <3>1, <3>2
  <2>5. \A i, j \in 1..Len(rows) : i # j => ToSet(rows[i]) \intersect ToSet(rows[j]) = {}
    <3> SUFFICES ASSUME NEW i \in 1..n, NEW j \in 1..n, NEW p, p \in ToSet(rows[i]), p \in ToSet(rows[j]) PROVE i = j
      BY <2>3
    <3>1. departures[i] = departures[j]
      BY <1>3, <2>2, <2>3
    <3> QED
      BY <1>2, <1>3, <3>1 DEF IsInjective
  <2>6. /\ FlattenSeq(rows) \in Seq(DatePair) /\ IsInjective(FlattenSeq(rows))
        /\ \A x : x \in ToSet(FlattenSeq(rows)) <=> \E i \in 1..Len(rows) : x \in ToSet(rows[i])
    BY <2>3, <2>4, <2>5, FlattenHolds
  <2>7. ASSUME NEW p \in UsefulPairs(w) PROVE p \in ToSet(FlattenSeq(rows))
    <3>1. p[1] \in w.depStart..w.depEnd
      BY <2>7 DEF UsefulPairs, Useful
    <3>2. PICK i \in 1..n : departures[i] = p[1]
      BY <1>2, <1>3, <3>1 DEF ToSet
    <3>3. p \in ToSet(rows[i])
      BY <2>2, <2>3, <3>1, <3>2
    <3> QED
      BY <2>3, <2>6, <3>3
  <2>8. ASSUME NEW p \in ToSet(FlattenSeq(rows)) PROVE p \in UsefulPairs(w)
    <3>1. PICK i \in 1..n : p \in ToSet(rows[i])
      BY <2>3, <2>6
    <3> QED
      BY <1>3, <2>2, <2>3, <3>1
  <2> QED
    BY <1>5, <2>1, <2>6, <2>7, <2>8
<1> QED
  BY <1>1, <1>4, <1>5

(* Normalizing keeps the dates that are asked for.                         *)
LEMMA KeepsPairs ==
  ASSUME NEW w \in Dated, Enumerable(w), NEW v, v = Normalized(w)
  PROVE  Enumerable(v) /\ ToSet(Pairs(v)) = ToSet(Pairs(w))
<1>1. /\ v \in Dated /\ Mode(v) = Mode(w) /\ v.trip = w.trip
      /\ v.depStart = w.depStart /\ v.depEnd = w.depEnd
  BY NormalizedIs, ModeStays
<1>2. Enumerable(v)
  <2>1. CASE Mode(w) = "exact-stay"
    BY <1>1, <2>1, ModeStays DEF Enumerable
  <2>2. CASE Mode(w) # "exact-stay"
    <3>1. v.retStart = w.retStart /\ v.retEnd = w.retEnd
      BY <2>2, NormalizedIs
    <3> QED
      BY <1>1, <2>2, <3>1 DEF Enumerable
  <2> QED
    BY <2>1, <2>2
<1>3. w.trip \in {"one-way", "round-trip"}
  BY WindowsAre
<1>4. CASE w.trip = "one-way"
  BY <1>1, <1>2, <1>4, PairsAre
<1>5. CASE w.trip = "round-trip"
  <2>1. \A d, r \in Nat : Useful(v, d, r) = Useful(w, d, r)
    BY <1>5, UsefulStays
  <2>2. UsefulPairs(v) = UsefulPairs(w)
    BY <2>1 DEF UsefulPairs
  <2>3. ToSet(Pairs(v)) = UsefulPairs(v) /\ ToSet(Pairs(w)) = UsefulPairs(w)
    BY <1>1, <1>2, <1>5, PairsAre
  <2> QED
    BY <1>2, <2>2, <2>3
<1> QED
  BY <1>3, <1>4, <1>5

(* The pairs in the order they are asked.                                  *)
LEMMA DraftIs ==
  ASSUME NEW w \in Dated, Enumerable(w)
  PROVE  /\ Prioritized(w) \in Seq(DatePair) /\ ToSet(Prioritized(w)) = ToSet(Pairs(w))
         /\ Cardinality(ToSet(Prioritized(w))) = Len(Prioritized(w))
<1>1. Pairs(w) \in Seq(DatePair) /\ IsInjective(Pairs(w))
  BY PairsAre
<1>2. /\ InWaves(w, Pairs(w)) \in Seq(DatePair) /\ IsInjective(InWaves(w, Pairs(w)))
      /\ ToSet(InWaves(w, Pairs(w))) = ToSet(Pairs(w))
  BY <1>1, WavesHold
<1>3. /\ Prioritized(w) \in Seq(DatePair) /\ IsInjective(Prioritized(w))
      /\ ToSet(Prioritized(w)) = ToSet(Pairs(w))
  BY <1>1, <1>2 DEF Prioritized
<1> QED
  BY <1>3, NothingTwice

(* The drafted pairs of a request that was not refused.                    *)
LEMMA DraftIsAskable ==
  ASSUME NEW w \in Dated, AsksLittle(w), ~Refused(w), NEW d, d = Prioritized(w)
  PROVE  /\ Cardinality(ToSet(d)) = Len(d)
         /\ \A p \in ToSet(d) : \A day \in {p[1], p[2]} : ~OutsidePolicy(day)
         /\ w.trip = "round-trip" =>
              /\ ToSet(d) = {p \in (Today..LastDay) \X (Today..LastDay) : Useful(w, p[1], p[2])}
              /\ Mode(w) # "exact-stay" => Len(d) <= MaxCombinations
<1>1. Enumerable(w) /\ Today \in Nat /\ LastDay \in Nat
  BY DatesAssumption DEF AsksLittle
<1>2. ToSet(d) = ToSet(Pairs(w)) /\ Cardinality(ToSet(d)) = Len(d)
  BY <1>1, DraftIs
<1>3. w.trip \in {"one-way", "round-trip"} /\ w.depStart \in Nat /\ w.depEnd \in Nat
  BY <1>1, WindowsAre
<1>4. CASE w.trip = "one-way"
  <2>1. ToSet(d) = {<<day, Absent>> : day \in w.depStart..w.depEnd}
    BY <1>1, <1>2, <1>4, PairsAre
  <2>2. w.depStart \in Today..LastDay /\ w.depEnd \in Today..LastDay
    BY <1>1 DEF Refused, OutsidePolicy, Enumerable
  <2>3. \A day \in w.depStart..w.depEnd : day \in Today..LastDay
    BY <1>1, <1>3, <2>2
  <2>4. ~OutsidePolicy(Absent) /\ \A day \in Today..LastDay : ~OutsidePolicy(day)
    BY DEF OutsidePolicy, Given
  <2> QED
    BY <1>2, <1>4, <2>1, <2>3, <2>4
<1>5. CASE w.trip = "round-trip"
  <2>1. ToSet(d) = UsefulPairs(w) /\ UsefulPairs(w) \subseteq (Today..LastDay) \X (Today..LastDay)
    BY <1>1, <1>2, <1>5, PairsAre DEF AsksLittle
  <2>2. UsefulPairs(w) = {p \in (Today..LastDay) \X (Today..LastDay) : Useful(w, p[1], p[2])}
    <3>1. (Today..LastDay) \X (Today..LastDay) \subseteq Nat \X Nat
      BY <1>1
    <3> QED
      BY <2>1, <3>1 DEF UsefulPairs
  <2>3. \A p \in ToSet(d) : p[1] \in Today..LastDay /\ p[2] \in Today..LastDay
    BY <2>1
  <2>4. \A p \in ToSet(d) : \A day \in {p[1], p[2]} : ~OutsidePolicy(day)
    BY <2>3 DEF OutsidePolicy
  <2>5. Mode(w) # "exact-stay" => Len(d) <= MaxCombinations
    BY <1>2, <1>5, <2>1 DEF AsksLittle
  <2> QED
    BY <1>2, <2>1, <2>2, <2>4, <2>5
<1> QED
  BY <1>3, <1>4, <1>5

(* What is known of a request as it is prepared, validated and drafted.    *)
DatesIInv ==
  /\ wanted \in Dated
  /\ stage # "posted" => Normalized(wanted) = wanted
  /\ stage \in {"accepted", "drafted"} => ~Refused(wanted)
  /\ stage = "drafted" => draft = Prioritized(wanted)

(* Preparing, validating and drafting a request keep what is known of it.   *)
LEMMA DatesStay == DatesIInv /\ [DatesNext]_datesVars => DatesIInv'
<1> SUFFICES ASSUME DatesIInv, [DatesNext]_datesVars PROVE DatesIInv'
  OBVIOUS
<1>1. CASE PrepareSearchContract
  <2>1. wanted' = Normalized(wanted) /\ stage' = "prepared" /\ wanted \in Dated
    BY <1>1 DEF PrepareSearchContract, DatesIInv
  <2>2. wanted' \in Dated /\ Normalized(wanted') = wanted'
    BY <2>1, NormalizedIs, NormalizedIsDone
  <2> QED
    BY <2>1, <2>2 DEF DatesIInv
<1>2. CASE ValidateSearchContract
  BY <1>2 DEF ValidateSearchContract, DatesIInv
<1>3. CASE DraftDates
  BY <1>3 DEF DraftDates, DatesIInv
<1>4. CASE UNCHANGED datesVars
  BY <1>4 DEF datesVars, DatesIInv
<1> QED
  BY <1>1, <1>2, <1>3, <1>4 DEF DatesNext

(* Normalizing changes no date a request asks for, and a request that is   *)
(* accepted is one the providers can be asked: every date is there, the    *)
(* drafted pairs are the useful ones, each once, within the policy, and at *)
(* most as many as the limit, whatever was posted and whatever the limits  *)
(* (normalizeFlexibleRoundTripRequest, validateRequest,                    *)
(* enumerateUsefulFlexibleRequests, prioritizeMatrixLoadingCells).         *)
THEOREM DatesKept == DatesSpec => DatesAreKept
<1>1. DatesInit => DatesIInv
  BY PostedIsDated DEF DatesInit, DatesIInv
<1>2. DatesIInv => AcceptedIsAskable
  <2> SUFFICES ASSUME DatesIInv PROVE AcceptedIsAskable
    OBVIOUS
  <2>1. stage \in {"accepted", "drafted"} => wanted \in Dated /\ ~Refused(wanted) /\ AsksLittle(wanted)
    BY AcceptedAsksLittle DEF DatesIInv
  <2>2. stage = "accepted" => Enumerable(wanted)
    BY <2>1 DEF AsksLittle
  <2>3. stage = "drafted" =>
          /\ Cardinality(ToSet(draft)) = Len(draft)
          /\ \A p \in ToSet(draft) : \A day \in {p[1], p[2]} : ~OutsidePolicy(day)
          /\ wanted.trip = "round-trip" =>
               /\ ToSet(draft) = {p \in (Today..LastDay) \X (Today..LastDay) : Useful(wanted, p[1], p[2])}
               /\ Mode(wanted) # "exact-stay" => Len(draft) <= MaxCombinations
    BY <2>1, DraftIsAskable DEF DatesIInv
  <2> QED
    BY <2>2, <2>3 DEF AcceptedIsAskable
<1>3. DatesIInv /\ [DatesNext]_datesVars =>
        [stage = "posted" =>
           /\ Normalized(wanted') = wanted'
           /\ Enumerable(wanted) => Enumerable(wanted') /\ ToSet(Pairs(wanted')) = ToSet(Pairs(wanted))]_datesVars
  <2> SUFFICES ASSUME DatesIInv, DatesNext, stage = "posted"
               PROVE  /\ Normalized(wanted') = wanted'
                      /\ Enumerable(wanted) => Enumerable(wanted') /\ ToSet(Pairs(wanted')) = ToSet(Pairs(wanted))
    OBVIOUS
  <2>1. wanted' = Normalized(wanted) /\ wanted \in Dated
    BY DEF DatesNext, PrepareSearchContract, ValidateSearchContract, DraftDates, DatesIInv
  <2> QED
    BY <2>1, NormalizedIsDone, KeepsPairs
<1> QED
  BY <1>1, <1>2, <1>3, DatesStay, PTL DEF DatesSpec, DatesAreKept, NormalizingKeepsDates

-----------------------------------------------------------------------------
(* THE DESK AS A WHOLE                                                     *)

(* The run's specification moves one component at a time and leaves the    *)
(* others alone: each of them behaves as its own specification says        *)
(* (the parts of MCDesk).                                                  *)
THEOREM DeskIsItsParts ==
  DeskSpec => /\ DatesSpec /\ OffersSpec /\ BoardSpec /\ WebSpec /\ LoginSpec /\ RedirectSpec
              /\ ProxySpec /\ QuotationSpec /\ PageSpec /\ MonthsSpec
              /\ FieldSpec /\ CacheSpec /\ MarkSpec
<1>0. DeskInit => /\ DatesInit /\ OffersInit /\ BoardInit /\ WebInit /\ LoginInit /\ RedirectInit
                  /\ ProxyInit /\ QuotationInit /\ PageInit /\ SweepInit
                  /\ FieldInit /\ CacheInit /\ MarkInit
  BY DEF DeskInit
<1>1. [DeskNext]_deskVars => [BoardNext]_boardVars
  BY DEF DeskNext, deskVars, DatesPart, OffersPart, BoardPart, WebPart, LoginPart, RedirectPart,
         ProxyPart, QuotePart, PagePart, MonthsPart, FieldPart, StationsPart, MarksPart
<1>2. [DeskNext]_deskVars => [WebNext]_webVars
  BY DEF DeskNext, deskVars, DatesPart, OffersPart, BoardPart, WebPart, LoginPart, RedirectPart,
         ProxyPart, QuotePart, PagePart, MonthsPart, FieldPart, StationsPart, MarksPart
<1>3. [DeskNext]_deskVars => [LoginNext]_loginVars
  BY DEF DeskNext, deskVars, DatesPart, OffersPart, BoardPart, WebPart, LoginPart, RedirectPart,
         ProxyPart, QuotePart, PagePart, MonthsPart, FieldPart, StationsPart, MarksPart
<1>4. [DeskNext]_deskVars => [RedirectNext]_redirectVars
  BY DEF DeskNext, deskVars, DatesPart, OffersPart, BoardPart, WebPart, LoginPart, RedirectPart,
         ProxyPart, QuotePart, PagePart, MonthsPart, FieldPart, StationsPart, MarksPart
<1>5. [DeskNext]_deskVars => [ProxyNext]_allProxyVars
  BY DEF DeskNext, deskVars, DatesPart, OffersPart, BoardPart, WebPart, LoginPart, RedirectPart,
         ProxyPart, QuotePart, PagePart, MonthsPart, FieldPart, StationsPart, MarksPart
<1>6. [DeskNext]_deskVars => [QuotationNext]_quoteVars
  BY DEF DeskNext, deskVars, DatesPart, OffersPart, BoardPart, WebPart, LoginPart, RedirectPart,
         ProxyPart, QuotePart, PagePart, MonthsPart, FieldPart, StationsPart, MarksPart
<1>7. [DeskNext]_deskVars => [PageNext]_pageVars
  BY DEF DeskNext, deskVars, DatesPart, OffersPart, BoardPart, WebPart, LoginPart, RedirectPart,
         ProxyPart, QuotePart, PagePart, MonthsPart, FieldPart, StationsPart, MarksPart
<1>8. [DeskNext]_deskVars => [SweepNext]_sweepPageVars
  BY DEF DeskNext, deskVars, DatesPart, OffersPart, BoardPart, WebPart, LoginPart, RedirectPart,
         ProxyPart, QuotePart, PagePart, MonthsPart, FieldPart, StationsPart, MarksPart
<1>9. [DeskNext]_deskVars => [FieldNext]_fieldVars
  BY DEF DeskNext, deskVars, DatesPart, OffersPart, BoardPart, WebPart, LoginPart, RedirectPart,
         ProxyPart, QuotePart, PagePart, MonthsPart, FieldPart, StationsPart, MarksPart
<1>10. [DeskNext]_deskVars => [CacheNext]_cacheVars
  BY DEF DeskNext, deskVars, DatesPart, OffersPart, BoardPart, WebPart, LoginPart, RedirectPart,
         ProxyPart, QuotePart, PagePart, MonthsPart, FieldPart, StationsPart, MarksPart
<1>11. [DeskNext]_deskVars => [MarkNext]_markVars
  BY DEF DeskNext, deskVars, DatesPart, OffersPart, BoardPart, WebPart, LoginPart, RedirectPart,
         ProxyPart, QuotePart, PagePart, MonthsPart, FieldPart, StationsPart, MarksPart
<1>12. [DeskNext]_deskVars => [DatesNext]_datesVars
  BY DEF DeskNext, deskVars, DatesPart, OffersPart, BoardPart, WebPart, LoginPart, RedirectPart,
         ProxyPart, QuotePart, PagePart, MonthsPart, FieldPart, StationsPart, MarksPart
<1>13. [DeskNext]_deskVars => [OffersNext]_offersVars
  BY DEF DeskNext, deskVars, DatesPart, OffersPart, BoardPart, WebPart, LoginPart, RedirectPart,
         ProxyPart, QuotePart, PagePart, MonthsPart, FieldPart, StationsPart, MarksPart
<1> QED
  BY <1>0, <1>1, <1>2, <1>3, <1>4, <1>5, <1>6, <1>7, <1>8, <1>9, <1>10, <1>11, <1>12, <1>13, PTL
  DEF DeskSpec, DatesSpec, OffersSpec, BoardSpec, WebSpec, LoginSpec, RedirectSpec, ProxySpec, QuotationSpec, PageSpec, MonthsSpec, FieldSpec, CacheSpec, MarkSpec

(* So what is proved of each component holds of every behaviour in which   *)
(* they run together.                                                      *)
COROLLARY DeskKeepsItsPromises ==
  DeskSpec => /\ [](AccessHolds /\ LinksOpenOurSearch /\ SharedAnswersAreRight)
              /\ [](QuotesAreConfirmed /\ HopsCountOnce)
              /\ [](SweepIsTrue /\ StopsReachTheServer)
              /\ []ListIsTheAnswers
              /\ DatesAreKept /\ BoardOnlyImproves /\ ShownNeverGoesBack
BY DeskIsItsParts, DatesKept, AccessIsKept, LinksAreOurs, AnswersAreRight, QuotesHold, HopsCount, SweepToldTruly, StopsReach,
   ListIsWhole, BoardImproves, LateIsNotShown, PTL
=============================================================================
