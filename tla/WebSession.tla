------------------------------ MODULE WebSession ------------------------------
(***************************************************************************)
(* Who is signed in (src/src/web-auth.ts, the login and logout of          *)
(* src/src/http-router.ts): a browser carries a signed session cookie and  *)
(* one for the purchase links, and work slides them forward up to a cap    *)
(* from the sign-in. Whether a login is admitted is LoginAdmission's.      *)
(*                                                                         *)
(* A cookie is its two stamps; signatures, names and paths of cookies are  *)
(* left out. A response carries what it sets and reaches the browser after *)
(* others that were answered before or after it, or never.                 *)
(***************************************************************************)
EXTENDS Integers

CONSTANTS
  WebRequest,        \* requests in flight at a time, of one browser
  SessionTTL, MaxLifetime,
  MaxTime            \* bound of the clock

ASSUME WebSessionAssumption ==
  {SessionTTL, MaxLifetime, MaxTime} \subseteq Nat \ {0}

VARIABLES
  time,
  jar,         \* the session cookie in the browser
  linkJar,     \* expiry of the redirect cookie in the browser
  request,     \* each request: its kind, the cookie it was sent with, what its response sets
  signIns,     \* history: when somebody signed in
  workedAt     \* history: when a request of work, or a sign-in, was last answered

webVars == <<time, jar, linkJar, request, signIns, workedAt>>

NoCookie == [issued |-> 0, expires |-> 0]
Sets(writes, cookie, link) == [writes |-> writes, jar |-> cookie, link |-> link]
SetsNothing == Sets({}, NoCookie, 0)
NoRequest == [kind |-> "none", stage |-> "none", cookie |-> NoCookie, sets |-> SetsNothing]

Kind == {"work", "passive", "session", "login", "logout"}

WebInit ==
  /\ time = 1
  /\ jar = NoCookie /\ linkJar = 0
  /\ request = [r \in WebRequest |-> NoRequest]
  /\ signIns = {} /\ workedAt = 0

---------------------------------------------------------------------------
(* The cookies. *)

Sooner(a, b) == IF a < b THEN a ELSE b
Longer(a, b) == IF a < b THEN b ELSE a

(* readWebSession *)
Signed(cookie) ==
  /\ cookie.issued > 0 /\ cookie.expires > time
  /\ time < cookie.issued + MaxLifetime

(* slidingExpiryMs *)
SlidingExpiry(issued) == Sooner(time + SessionTTL, issued + MaxLifetime)

(* renewWebSessionCookies: past half of the window, if it moves at all. *)
Renews(cookie) ==
  /\ Signed(cookie)
  /\ (cookie.expires - time) * 2 < SessionTTL
  /\ SlidingExpiry(cookie.issued) > cookie.expires

Renewal(cookie) ==
  LET expires == SlidingExpiry(cookie.issued)
  IN Sets({"session", "link"}, [cookie EXCEPT !.expires = expires], expires)

(* Mutant: whatever a page asks renews its session. *)
AnsweredWithAny(kind, cookie) ==
  IF Renews(cookie) THEN Renewal(cookie)
  ELSE IF kind = "session" /\ Signed(cookie) THEN Sets({"link"}, NoCookie, cookie.expires)
  ELSE SetsNothing

(* routeRequest, and the page itself in server.ts: a renewal is the last   *)
(* word on both cookies; GET /api/auth/session repeats that of the links.  *)
AnsweredWith(kind, cookie) ==
  IF kind # "passive" /\ Renews(cookie) THEN Renewal(cookie)
  ELSE IF kind = "session" /\ Signed(cookie) THEN Sets({"link"}, NoCookie, cookie.expires)
  ELSE SetsNothing

SignedIn ==
  Sets({"session", "link"}, [issued |-> time, expires |-> SlidingExpiry(time)], time + SessionTTL)
SignedOut == Sets({"session", "link"}, NoCookie, 0)

Send(r) ==
  /\ request[r].stage = "none"
  /\ \E kind \in Kind :
       request' = [request EXCEPT ![r] = [NoRequest EXCEPT !.kind = kind, !.stage = "sent", !.cookie = jar]]
  /\ UNCHANGED <<time, jar, linkJar, signIns, workedAt>>

Respond(r, sets) ==
  request' = [request EXCEPT ![r].stage = "answered", ![r].sets = sets]

(* handleWebLogin: admitted and right, or neither. *)
AnswerLogin(r) ==
  /\ request[r].kind = "login" /\ request[r].stage = "sent"
  /\ \/ Respond(r, SignedIn) /\ signIns' = signIns \union {time} /\ workedAt' = time
     \/ Respond(r, SetsNothing) /\ UNCHANGED <<signIns, workedAt>>
  /\ UNCHANGED <<time, jar, linkJar>>

AnswerLogout(r) ==
  /\ request[r].kind = "logout" /\ request[r].stage = "sent"
  /\ Respond(r, SignedOut)
  /\ UNCHANGED <<time, jar, linkJar, signIns, workedAt>>

(* The renewal is decided when the response is ready. *)
AnswerRequest(r) ==
  /\ request[r].kind \in {"work", "passive", "session"} /\ request[r].stage = "sent"
  /\ Respond(r, AnsweredWith(request[r].kind, request[r].cookie))
  /\ workedAt' = IF request[r].kind # "passive" /\ Signed(request[r].cookie) THEN time ELSE workedAt
  /\ UNCHANGED <<time, jar, linkJar, signIns>>

(* The browser keeps what the last response it read sets. *)
ResponseArrives(r) ==
  LET sets == request[r].sets
  IN /\ request[r].stage = "answered"
     /\ jar' = IF "session" \in sets.writes THEN sets.jar ELSE jar
     /\ linkJar' = IF "link" \in sets.writes THEN sets.link ELSE linkJar
     /\ request' = [request EXCEPT ![r] = NoRequest]
     /\ UNCHANGED <<time, signIns, workedAt>>

ResponseLost(r) ==
  /\ request[r].stage = "answered"
  /\ request' = [request EXCEPT ![r] = NoRequest]
  /\ UNCHANGED <<time, jar, linkJar, signIns, workedAt>>

TimePasses ==
  /\ time < MaxTime
  /\ time' = time + 1
  /\ UNCHANGED <<jar, linkJar, request, signIns, workedAt>>

WebNext ==
  \/ \E r \in WebRequest :
       Send(r) \/ AnswerLogin(r) \/ AnswerLogout(r) \/ AnswerRequest(r) \/ ResponseArrives(r) \/ ResponseLost(r)
  \/ TimePasses

WebSpec == WebInit /\ [][WebNext]_webVars

---------------------------------------------------------------------------
(* "a session dies of inactivity", "a desk left open is not somebody       *)
(* working", and the cap "never slides" (web-auth.ts:16-18, 185-189,       *)
(* http-router.ts:3051-3052): in whatever order responses reach the        *)
(* browser, its session cookie belongs to a sign-in, ends at its cap and   *)
(* ends a window after the last work. That of the links, which may come    *)
(* without the other or after it is gone, ends a window after the last     *)
(* work and at the cap of some sign-in, or a window after one that the cap *)
(* cuts short (createRedirectSessionCookie does not look at the cap).      *)
SessionsEnd ==
  /\ jar # NoCookie =>
       /\ jar.issued \in signIns
       /\ jar.expires <= jar.issued + MaxLifetime
       /\ jar.expires <= workedAt + SessionTTL
  /\ linkJar <= workedAt + SessionTTL
  /\ linkJar # 0 => \E signIn \in signIns : linkJar <= signIn + Longer(SessionTTL, MaxLifetime)
=============================================================================
