------------------------------- MODULE B2bPage -------------------------------
(***************************************************************************)
(* The pages of the agency site a sign-in drives (src/src/local-costamar.ts *)
(* 513-990, 1230-1940): from the login to the code of the authenticator,   *)
(* to the flight form and to the token its search returns. When to sign    *)
(* in, and with which browser, is CostamarSession's.                       *)
(*                                                                         *)
(* The caller of a page waits for each of its parts no longer than a       *)
(* limit, and then closes the page; what drove it goes on, unheard. The    *)
(* questions at the terminal and the credentials given there are shared.   *)
(* Locators, keys typed one by one and diagnostics are left out.           *)
(***************************************************************************)
EXTENDS Naturals, FiniteSets

CONSTANTS
  SitePage,        \* pages being driven, live or in an isolated browser
  MaxAnswers       \* bound: questions a person answers

ASSUME B2bAssumption == MaxAnswers \in Nat

VARIABLES
  setup,        \* which of credentials, secret of the authenticator and terminal there are
  screen,       \* what each page shows
  driver,       \* where what drives a page is, and with which credentials or code
  heard,        \* the pages whose caller still waits
  given,        \* cachedInteractiveCostamarB2bCredentials: number of the answer, 0 if none
  question,     \* which questions are open at the terminal
  answers,      \* what each credentials answer is: right or wrong
  pool,         \* the candidates seen in each page
  outcome       \* what each page's driver came to

b2bVars == <<setup, screen, driver, heard, given, question, answers, pool, outcome>>

(* Tokens the traffic of a page may show: of the terminal and live, or not. *)
Seen == {"live", "other"}
Pending(s) == [at |-> s, with |-> 0, code |-> "none"]

(* isCostamarB2bUrlAllowed: a closed page still has its address.           *)
AtHome(p) == screen[p] # "foreign"
(* pageShowsCostamarB2bLogin and detectCostamarB2bAuthPrompt: nothing is   *)
(* visible in a page that was closed.                                      *)
ShowsLogin(p) == screen[p] = "login"
ShowsCode(p) == screen[p] = "code"

(* pickUsableCostamarCandidate: of the terminal, and the latest.           *)
PickUsable(candidates) == IF "live" \in candidates THEN "live" ELSE "none"

At(p, stage) == driver[p].at = stage
MoveTo(p, stage) == driver' = [driver EXCEPT ![p].at = stage]
FlowEnds(p, how) ==
  /\ driver' = [driver EXCEPT ![p].at = "ended"]
  /\ outcome' = [outcome EXCEPT ![p] = how]

Asks == question \union {"credentials"}

(* generateCostamarRedirectContextViaB2B opens a page.                     *)
OpenSitePage(p) ==
  /\ At(p, "off")
  /\ MoveTo(p, "opened") /\ heard' = heard \union {p}
  /\ UNCHANGED <<setup, screen, given, question, answers, pool, outcome>>

(* ensureCostamarB2bSession goes to the site, which shows what it will.    *)
GoToSite(p) ==
  /\ At(p, "opened")
  /\ IF screen[p] = "closed" THEN FlowEnds(p, "failed") /\ UNCHANGED screen
     ELSE /\ MoveTo(p, "looks") /\ UNCHANGED outcome
          /\ \E s \in {"login", "code", "home", "foreign"} : screen' = [screen EXCEPT ![p] = s]
  /\ UNCHANGED <<setup, heard, given, question, answers, pool>>

(* resolveCostamarB2bCredentialsForAutomation: those there are, or those   *)
(* of the question already open, or of one opened now.                     *)
LookForLogin(p) ==
  /\ At(p, "looks")
  /\ CASE ~AtHome(p) -> FlowEnds(p, "failed") /\ UNCHANGED question
       [] AtHome(p) /\ ~ShowsLogin(p) -> MoveTo(p, "looks for code") /\ UNCHANGED <<question, outcome>>
       [] ShowsLogin(p) /\ (setup.credentials \/ given > 0) ->
            /\ driver' = [driver EXCEPT ![p] = [@ EXCEPT !.at = "types", !.with = IF setup.credentials THEN 0 ELSE given]]
            /\ UNCHANGED <<question, outcome>>
       [] ShowsLogin(p) /\ ~setup.credentials /\ given = 0 /\ setup.terminal ->
            MoveTo(p, "asks") /\ question' = Asks /\ UNCHANGED outcome
       [] OTHER -> FlowEnds(p, "failed") /\ UNCHANGED question
  /\ UNCHANGED <<setup, screen, heard, given, answers, pool>>

(* The person answers, or dismisses the question, to everyone who asked.   *)
AnswerCredentials ==
  /\ "credentials" \in question
  /\ question' = question \ {"credentials"}
  /\ \/ /\ Cardinality(DOMAIN answers) < MaxAnswers
        /\ \E a \in {"right", "wrong"}, n \in {Cardinality(DOMAIN answers) + 1} :
             /\ answers' = [i \in 1..n |-> IF i = n THEN a ELSE answers[i]]
             /\ given' = n
             /\ driver' = [p \in SitePage |->
                  IF At(p, "asks") THEN [driver[p] EXCEPT !.at = "types", !.with = n] ELSE driver[p]]
        /\ UNCHANGED outcome
     \/ /\ driver' = [p \in SitePage |-> IF At(p, "asks") THEN Pending("ended") ELSE driver[p]]
        /\ outcome' = [p \in SitePage |-> IF At(p, "asks") THEN "failed" ELSE outcome[p]]
        /\ UNCHANGED <<answers, given>>
  /\ UNCHANGED <<setup, screen, heard, pool>>

RightCredentials(p) == IF driver[p].with = 0 THEN TRUE ELSE answers[driver[p].with] = "right"

(* Email, password and the button, the address looked at before each.      *)
TypeCredentials(p) ==
  /\ At(p, "types")
  /\ IF ~AtHome(p) \/ screen[p] = "closed" THEN FlowEnds(p, "failed") /\ UNCHANGED screen
     ELSE /\ MoveTo(p, "submitted") /\ UNCHANGED outcome
          /\ \E s \in {"login"} \union
                  (IF RightCredentials(p) THEN {"code", "home"} ELSE {}) :
               screen' = [screen EXCEPT ![p] = s]
  /\ UNCHANGED <<setup, heard, given, question, answers, pool>>

(* Mutant: a sign-in that was not confirmed forgets the credentials. *)
ForgetsUnconfirmed(p) == ~ShowsCode(p)

(* clearInteractiveCostamarB2bCredentials: the login is still there.       *)
Forgets(p) == ShowsLogin(p)

(* After waitForCostamarB2bSessionTransition, whether or not it came.      *)
AfterCredentials(p) ==
  /\ At(p, "submitted")
  /\ IF ~AtHome(p) THEN FlowEnds(p, "failed") /\ UNCHANGED given
     ELSE /\ given' = IF Forgets(p) THEN 0 ELSE given
          /\ IF ShowsLogin(p) THEN FlowEnds(p, "failed") ELSE MoveTo(p, "looks for code") /\ UNCHANGED outcome
  /\ UNCHANGED <<setup, screen, heard, question, answers, pool>>

(* completeCostamarB2bAuthPrompt and promptCostamarB2bAuthCode             *)
LookForCode(p) ==
  /\ At(p, "looks for code")
  /\ CASE ~AtHome(p) -> FlowEnds(p, "failed") /\ UNCHANGED question
       [] AtHome(p) /\ ~ShowsCode(p) -> MoveTo(p, "signed in") /\ UNCHANGED <<question, outcome>>
       [] ShowsCode(p) /\ setup.secret ->
            /\ driver' = [driver EXCEPT ![p] = [@ EXCEPT !.at = "types code", !.code = "right"]]
            /\ UNCHANGED <<question, outcome>>
       [] ShowsCode(p) /\ ~setup.secret /\ setup.terminal ->
            MoveTo(p, "asks code") /\ question' = question \union {"code"} /\ UNCHANGED outcome
       [] OTHER -> FlowEnds(p, "failed") /\ UNCHANGED question
  /\ UNCHANGED <<setup, screen, heard, given, answers, pool>>

AnswerCode ==
  /\ "code" \in question
  /\ question' = question \ {"code"}
  /\ \/ /\ \E c \in {"right", "wrong"} :
             driver' = [p \in SitePage |->
               IF At(p, "asks code") THEN [driver[p] EXCEPT !.at = "types code", !.code = c] ELSE driver[p]]
        /\ UNCHANGED outcome
     \/ /\ driver' = [p \in SitePage |-> IF At(p, "asks code") THEN Pending("ended") ELSE driver[p]]
        /\ outcome' = [p \in SitePage |-> IF At(p, "asks code") THEN "failed" ELSE outcome[p]]
  /\ UNCHANGED <<setup, screen, heard, given, answers, pool>>

(* submitCostamarB2bAuthPrompt: one field or a field per digit, then the   *)
(* first button there is, or Enter.                                        *)
TypeCode(p) ==
  /\ At(p, "types code")
  /\ IF ~AtHome(p) \/ screen[p] = "closed" THEN FlowEnds(p, "failed") /\ UNCHANGED screen
     ELSE /\ MoveTo(p, "code submitted") /\ UNCHANGED outcome
          /\ \E s \in {"code"} \union (IF driver[p].code = "right" THEN {"home"} ELSE {"login"}) :
               screen' = [screen EXCEPT ![p] = s]
  /\ UNCHANGED <<setup, heard, given, question, answers, pool>>

Confirmed(p) == AtHome(p) /\ ~ShowsLogin(p) /\ ~ShowsCode(p)

AfterCode(p) ==
  /\ At(p, "code submitted")
  /\ IF Confirmed(p) THEN MoveTo(p, "signed in") /\ UNCHANGED outcome ELSE FlowEnds(p, "failed")
  /\ UNCHANGED <<setup, screen, heard, given, question, answers, pool>>

(* submitCostamarB2bFlightSearch: the tab, the form and its button; its    *)
(* request may return a token, usable or not.                              *)
SubmitFlightSearch(p) ==
  /\ At(p, "signed in")
  /\ IF screen[p] # "home" THEN FlowEnds(p, "no token") /\ UNCHANGED pool
     ELSE \/ pool' = [pool EXCEPT ![p] = @ \union {"live"}] /\ FlowEnds(p, "live")
          \/ MoveTo(p, "polls") /\ UNCHANGED <<pool, outcome>>
  /\ UNCHANGED <<setup, screen, heard, given, question, answers>>

(* observeCostamarPage: what the page and its popups request shows tokens. *)
PageShows(p) ==
  /\ heard # {} /\ p \in heard /\ screen[p] = "home"
  /\ \E t \in Seen : pool' = [pool EXCEPT ![p] = @ \union {t}]
  /\ UNCHANGED <<setup, screen, driver, heard, given, question, answers, outcome>>

(* One round of the poll: a candidate ends it, and so does its deadline,   *)
(* after a round.                                                          *)
Poll(p) ==
  /\ At(p, "polls")
  /\ LET picked == PickUsable(pool[p])
     IN FlowEnds(p, IF picked = "none" THEN "no token" ELSE picked)
  /\ UNCHANGED <<setup, screen, heard, given, question, answers, pool>>

(* withCostamarB2bTimeout: the caller goes on, and closes the page. One    *)
(* that heard the outcome closes it too.                                   *)
Leave(p) ==
  /\ p \in heard
  /\ heard' = heard \ {p}
  /\ screen' = [screen EXCEPT ![p] = "closed"]
  /\ UNCHANGED <<setup, driver, given, question, answers, pool, outcome>>

(* The site: an answer that was slow, a session that ends, a way out.      *)
SiteMoves(p) ==
  /\ p \in heard
  /\ \/ screen[p] = "home" /\ \E s \in {"login", "foreign"} : screen' = [screen EXCEPT ![p] = s]
     \/ /\ screen[p] = "login" /\ At(p, "submitted")
        /\ RightCredentials(p)
        /\ \E s \in {"home", "code"} : screen' = [screen EXCEPT ![p] = s]
     \/ /\ screen[p] = "code" /\ At(p, "code submitted") /\ driver[p].code = "right"
        /\ screen' = [screen EXCEPT ![p] = "home"]
  /\ UNCHANGED <<setup, driver, heard, given, question, answers, pool, outcome>>

B2bInit ==
  /\ setup \in [credentials : BOOLEAN, secret : BOOLEAN, terminal : BOOLEAN]
  /\ screen = [p \in SitePage |-> "blank"]
  /\ driver = [p \in SitePage |-> Pending("off")]
  /\ heard = {} /\ question = {} /\ given = 0 /\ answers = <<>>
  /\ pool = [p \in SitePage |-> {}]
  /\ outcome = [p \in SitePage |-> "none"]

B2bNext ==
  \/ \E p \in SitePage :
       \/ OpenSitePage(p) \/ GoToSite(p) \/ LookForLogin(p) \/ TypeCredentials(p) \/ AfterCredentials(p)
       \/ LookForCode(p) \/ TypeCode(p) \/ AfterCode(p) \/ SubmitFlightSearch(p) \/ PageShows(p) \/ Poll(p)
       \/ Leave(p) \/ SiteMoves(p)
  \/ AnswerCredentials \/ AnswerCode

B2bSpec == B2bInit /\ [][B2bNext]_b2bVars

---------------------------------------------------------------------------
(* What a person gave is forgotten only by a page somebody waits for that  *)
(* was shown the login again: a driver nobody hears any more takes it from *)
(* nobody. A page signs in only from a screen that asks for nothing, but   *)
(* for a login that came back between the two looks.                       *)
SecretsAreKept ==
  [][/\ given # 0 /\ given' = 0 =>
          \E p \in heard : At(p, "submitted") /\ screen[p] = "login"
     /\ \A p \in heard : driver'[p].at = "signed in" /\ driver[p].at # "signed in" =>
          screen[p] = "home" \/ (screen[p] = "login" /\ At(p, "looks for code"))]_b2bVars
=============================================================================
