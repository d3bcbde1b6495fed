---------------------------- MODULE BrandedToken ----------------------------
(***************************************************************************)
(* Which token of Click and Book Plus a request uses                       *)
(* (src/src/provider-context.ts): the one in a file the platform renews,   *)
(* the one of the environment, those the process obtained, and those its   *)
(* user's browsers hold. File and browsers are read through caches.        *)
(*                                                                         *)
(* A token is whom it is of and its two times; decoding, cleaning and the  *)
(* URLs tokens are found in are left out. An opaque token has no times.    *)
(***************************************************************************)
EXTENDS Integers, Sequences, FiniteSets

CONSTANTS
  Life,            \* of a token
  Refresh,         \* a token this near to its end is looked for again
  FileInterval,    \* between two looks at the file
  SessionsTTL,     \* of what was read from the browsers
  MaxTokens, MaxClock      \* bounds: tokens that are issued, and the clock

ASSUME BrandedAssumption ==
  /\ {Life, FileInterval, SessionsTTL, MaxTokens, MaxClock} \subseteq Nat \ {0}
  /\ Refresh \in Nat

(* Where browsers keep tokens, in the order they are read: the configured  *)
(* profile, every profile of the configured browser, the other browsers.   *)
Folder == 1..3

VARIABLES
  brandClock,
  tokenFile,        \* what can be read of the file, its signature and since when
  tokenFileCache,   \* what was read of it, and when it was last looked at
  environment,      \* CBPLUS_TOKEN: what the process was started with
  runtime,          \* runtimeCostamarSessionCandidates of the terminal
  browsers,         \* Folder -> the token it holds, the one it got last
  cachedSessions,   \* cachedCostamarSessions
  issued,           \* how many tokens were issued
  answer            \* what the request at hand resolved, until the next step

brandedVars == <<brandClock, tokenFile, tokenFileCache, environment, runtime, browsers, cachedSessions, issued, answer>>

Branded(of, iat) == [of |-> of, iat |-> iat, exp |-> iat + Life]
Opaque == [of |-> "any", iat |-> 0, exp |-> 0]
None == [of |-> "none", iat |-> 0, exp |-> 0]
Mine(iat) == Branded("terminal", iat)

(* costamarTokenMatchesTerminal: a token that names nobody matches.        *)
MatchesTerminal(t) == t.of # "other"
UsableToken(t) == t # None /\ MatchesTerminal(t) /\ (t.exp > 0 => t.exp > brandClock)
Expiring(t) == UsableToken(t) /\ t.exp > 0 /\ t.exp <= brandClock + Refresh

(* pickLatestCostamarSessionCandidate *)
Latest(candidates) ==
  IF candidates = {} THEN None
  ELSE CHOOSE t \in candidates : \A u \in candidates : t.exp > u.exp \/ (t.exp = u.exp /\ t.iat >= u.iat)

Remembered == {runtime} \ {None}

(* A folder whose candidate can be used is the last that is read.          *)
ReadBrowsers ==
  LET upTo(i) == UNION {browsers[j] : j \in 1..i}
      enough == {i \in Folder : UsableToken(Latest(upTo(i)))}
  IN IF enough = {} THEN upTo(3) ELSE upTo(CHOOSE i \in enough : \A j \in enough : i <= j)

CacheServes == cachedSessions.at > 0 /\ brandClock - cachedSessions.at < SessionsTTL

(* readCostamarSessionCandidateFromChrome: what it keeps, and what it      *)
(* answers of that.                                                        *)
SessionsRead(bypass) ==
  IF CacheServes /\ ~bypass THEN cachedSessions
  ELSE [at |-> brandClock, tokens |-> cachedSessions.tokens \union Remembered \union ReadBrowsers]
Candidate(sessions) == Latest(Remembered \union sessions.tokens)

(* readCostamarTokenFile; where it cannot be read there is no token. *)
FileRead ==
  IF tokenFileCache.at > 0 /\ brandClock - tokenFileCache.at < FileInterval THEN tokenFileCache
  ELSE [at |-> brandClock, seen |-> tokenFile.version,
        token |-> IF tokenFileCache.seen = tokenFile.version THEN tokenFileCache.token ELSE tokenFile.token]

(* readConfiguredCostamarToken: the one that expires last, a tie the file. *)
Configured(fileToken) ==
  IF fileToken = None \/ (environment # None /\ environment.exp > fileToken.exp) THEN environment ELSE fileToken

(* Mutant: an expired token is kept where the candidate is not newer. *)
RefreshedByIssue(current, candidate, preferred) ==
  /\ candidate # None /\ candidate # current
  /\ \/ current = None
     \/ candidate.iat > current.iat /\ (current = Opaque => preferred)

(* shouldRefreshCostamarToken *)
Refreshed(current, candidate, preferred) ==
  /\ candidate # None /\ candidate # current
  /\ \/ current = None
     \/ current.exp > 0 /\ current.exp <= brandClock
     \/ /\ candidate.exp > brandClock \/ candidate.exp = 0
        /\ IF current = Opaque THEN preferred
           ELSE candidate.iat > current.iat \/ candidate.exp > current.exp

(* resolveCostamarProviderContext, and resolveLatest... which prefers a    *)
(* candidate to an opaque token. A request that brings its own token does  *)
(* not read the configured one.                                            *)
ResolveToken(preferred) ==
  LET fileSeen == FileRead
      configured == Configured(fileSeen.token)
      current == IF MatchesTerminal(configured) THEN configured ELSE None
      first == SessionsRead(FALSE)
      candidate == Candidate(first)
      again == IF UsableToken(current) \/ UsableToken(candidate)
               THEN Expiring(current) \/ Expiring(candidate) ELSE TRUE
      sessions == IF again
                  THEN [at |-> brandClock, tokens |-> first.tokens \union Remembered \union ReadBrowsers] ELSE first
      latest == Candidate(sessions)
      found == IF latest = None THEN candidate ELSE latest
  IN /\ answer = None
     /\ tokenFileCache' = fileSeen
     /\ cachedSessions' = sessions
     /\ answer' = [token |-> IF Refreshed(current, found, preferred) THEN found
                             ELSE IF current # None THEN current
                             ELSE IF found # None THEN found ELSE configured]
     /\ UNCHANGED <<brandClock, tokenFile, environment, runtime, browsers, issued>>

Issued == issued < MaxTokens /\ issued' = issued + 1 /\ answer' = None

(* rememberCostamarSessionCandidate: a sign-in obtained a token. *)
Remember ==
  /\ Issued
  /\ runtime' = Latest(Remembered \union {Mine(brandClock)})
  /\ UNCHANGED <<brandClock, tokenFile, tokenFileCache, environment, browsers, cachedSessions>>

RenewFile ==
  /\ Issued
  /\ tokenFile' = [version |-> tokenFile.version + 1, at |-> brandClock, token |-> Mine(brandClock)]
  /\ UNCHANGED <<brandClock, tokenFileCache, environment, runtime, browsers, cachedSessions>>

(* From some moment on the file cannot be read, until it is written again. *)
FileUnreadable ==
  /\ tokenFile.token # None
  /\ tokenFile' = [version |-> tokenFile.version + 1, at |-> brandClock, token |-> None]
  /\ answer' = None
  /\ UNCHANGED <<brandClock, tokenFileCache, environment, runtime, browsers, cachedSessions, issued>>

BrowserGets(folder) ==
  /\ Issued
  /\ browsers' = [browsers EXCEPT ![folder] = {Mine(brandClock)}]
  /\ UNCHANGED <<brandClock, tokenFile, tokenFileCache, environment, runtime, cachedSessions>>

ClockMoves ==
  /\ brandClock < MaxClock
  /\ brandClock' = brandClock + 1
  /\ answer' = None
  /\ UNCHANGED <<tokenFile, tokenFileCache, environment, runtime, browsers, cachedSessions, issued>>

BrandedInit ==
  /\ brandClock = 1
  /\ \E t \in {None, Mine(0)} : tokenFile = [version |-> 1, at |-> 0, token |-> t]
  /\ tokenFileCache = [at |-> 0, seen |-> 0, token |-> None]
  /\ environment \in {None, Opaque, Mine(0), Branded("other", 0)}
  /\ runtime = None
  /\ browsers = [f \in Folder |-> {}]
  /\ cachedSessions = [at |-> 0, tokens |-> {}]
  /\ issued = 0 /\ answer = None

BrandedNext ==
  \/ \E preferred \in BOOLEAN : ResolveToken(preferred)
  \/ Remember \/ RenewFile \/ FileUnreadable \/ ClockMoves
  \/ \E f \in Folder : BrowserGets(f)

BrandedSpec == BrandedInit /\ [][BrandedNext]_brandedVars

---------------------------------------------------------------------------
(* "Either way the current token is the one that expires last"             *)
(* (provider-context.ts:958-959): a request uses a token that cannot be    *)
(* used only when no file, environment, sign-in or browser holds one that  *)
(* says it can; and never an older one than its process obtained, or than the file *)
(* held when it was last due to be looked at.                              *)
LastTokenIsUsed ==
  answer # None =>
    LET known == Remembered \union {tokenFileCache.token, environment}
    IN /\ UsableToken(answer.token)
          \/ \A t \in known \union UNION {browsers[f] : f \in Folder} : t = Opaque \/ ~UsableToken(t)
       /\ UsableToken(answer.token) /\ answer.token # Opaque =>
            \A t \in known : UsableToken(t) => t.exp <= answer.token.exp
       /\ brandClock >= tokenFile.at + FileInterval => tokenFileCache.token = tokenFile.token
=============================================================================
