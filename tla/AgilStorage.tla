----------------------------- MODULE AgilStorage -----------------------------
(***************************************************************************)
(* Where an Agil session is found (extractBrowserStorageSnapshot and what  *)
(* it calls, src/src/local-agil.ts 609-1825): the storage of a Chrome that *)
(* is open, reached through any of several sources, then files of closed   *)
(* profiles, then a Chrome launched over a copy of one.                    *)
(*                                                                         *)
(* What a page stores is which fields it has; DevTools messages, command   *)
(* lines, paths and the decoding of the fields are left out. Tabs are      *)
(* BrowserTabs', copied profiles TempProfiles'.                            *)
(***************************************************************************)
EXTENDS Naturals, Sequences, FiniteSets

CONSTANTS
  Browser,         \* the Chromes a source may lead to
  SourceCount,     \* endpoints: configured, of running Chromes, of profiles
  Profile          \* of the user data directory that is read

ASSUME StorageAssumption ==
  /\ SourceCount \in Nat
  /\ Browser \intersect Profile = {}

Field == {"token", "user", "ip"}
NeededFields == {"user", "ip"}
OriginCount == 2     \* AGIL_STORAGE_ORIGINS
NotLoaded == {"error"}

(* What a page may hold: nothing, half a session, all of it, or it does    *)
(* not load.                                                               *)
StoredPage == {{}, {"token", "user"}, {"ip"}, NeededFields, Field, NotLoaded}

NoFiles == [fields |-> {}, fresh |-> 0]
ProfileFiles == {NoFiles, [fields |-> NeededFields, fresh |-> 1], [fields |-> Field, fresh |-> 1], [fields |-> NeededFields, fresh |-> 2]}

VARIABLES
  leads,         \* the browser each source leads to, if any
  profileFiles,  \* what the storage files of each profile hold, and their time
  allowed,       \* whether files are scanned, and a Chrome may be launched
  extraction,    \* where the extraction is
  gathered       \* the fields so far: each with whom it is of

storageVars == <<leads, profileFiles, allowed, extraction, gathered>>

NobodyThere == "nobody"

StorageInit ==
  /\ leads \in [1..SourceCount -> Browser \union {NobodyThere}]
  /\ profileFiles \in [Profile -> ProfileFiles]
  /\ allowed \in [scan : BOOLEAN, launch : BOOLEAN]
  /\ extraction = [at |-> "sources", source |-> 1, origin |-> 0, tried |-> <<>>, profile |-> {}]
  /\ gathered = {}

Owned(names, owner) == {[field |-> f, of |-> owner] : f \in names}
FieldsOf(owned) == {f.field : f \in owned}

(* Mutant: what an earlier browser gave is kept. *)
BegunOver(before) == before

(* Each browser is read into a snapshot of its own.                        *)
BegunFields(before) == {}

(* readAgilStorageSnapshotFromNavigable: what is still missing, from a     *)
(* page that loads.                                                        *)
MergedFields(before, page, owner) ==
  IF page = NotLoaded THEN before ELSE before \union Owned(page \ FieldsOf(before), owner)

LedTo == leads[extraction.source]
IsTried(b) == \E i \in DOMAIN extraction.tried : extraction.tried[i] = b

(* No endpoint answers, or it is a browser that failed already.            *)
SourceSkipped == LedTo = NobodyThere \/ IsTried(LedTo)

NextSource ==
  /\ extraction.at = "sources" /\ extraction.source <= SourceCount
  /\ SourceSkipped
  /\ extraction' = [extraction EXCEPT !.source = @ + 1]
  /\ UNCHANGED <<leads, profileFiles, allowed, gathered>>

(* readAgilStorageSnapshotFromDevToolsEndpoint begins; or cannot connect.  *)
ReadThisBrowser ==
  /\ extraction.at = "sources" /\ extraction.source <= SourceCount /\ ~SourceSkipped
  /\ \/ /\ extraction' = [extraction EXCEPT !.at = "browser", !.origin = 1, !.tried = Append(@, LedTo)]
        /\ gathered' = BegunFields(gathered)
     \/ /\ extraction' = [extraction EXCEPT !.source = @ + 1, !.tried = Append(@, LedTo)]
        /\ UNCHANGED gathered
  /\ UNCHANGED <<leads, profileFiles, allowed>>

(* One origin, in a tab of its own, which shows a page or fails; a whole   *)
(* session is not looked for further. Without user data or address the     *)
(* browser is given up.                                                    *)
ReadOrigin ==
  /\ extraction.at = "browser"
  /\ \E page \in StoredPage :
       LET merged == MergedFields(gathered, page, LedTo)
           ends == FieldsOf(merged) = Field \/ extraction.origin = OriginCount
       IN /\ gathered' = merged
          /\ extraction' = IF ~ends THEN [extraction EXCEPT !.origin = @ + 1]
                        ELSE IF NeededFields \subseteq FieldsOf(merged) THEN [extraction EXCEPT !.at = "found"]
                        ELSE [extraction EXCEPT !.at = "sources", !.source = @ + 1]
  /\ UNCHANGED <<leads, profileFiles, allowed>>

HasFiles == {p \in Profile : profileFiles[p] # NoFiles}

(* pickBestAgilStorageSnapshotCandidate: the freshest, then one with a     *)
(* token.                                                                  *)
BestFiles ==
  {p \in HasFiles : \A q \in HasFiles :
     \/ profileFiles[p].fresh > profileFiles[q].fresh
     \/ profileFiles[p].fresh = profileFiles[q].fresh /\ ("token" \in profileFiles[q].fields => "token" \in profileFiles[p].fields)}

(* readAgilStorageSnapshotFromProfileFiles of each profile.                *)
ScanFiles ==
  /\ extraction.at = "sources" /\ extraction.source > SourceCount
  /\ IF allowed.scan /\ HasFiles # {}
     THEN \E p \in BestFiles :
            gathered' = Owned(profileFiles[p].fields, p) /\ extraction' = [extraction EXCEPT !.at = "found"]
     ELSE /\ extraction' = [extraction EXCEPT !.at = IF allowed.launch THEN "launch" ELSE "failed"]
          /\ UNCHANGED gathered
  /\ UNCHANGED <<leads, profileFiles, allowed>>

(* A Chrome over a copy of each profile in turn: what it shows is what the *)
(* profile stored, or it does not start.                                   *)
LaunchOver(p) ==
  /\ extraction.at = "launch" /\ p \notin extraction.profile
  /\ \/ /\ profileFiles[p] # NoFiles
        /\ gathered' = Owned(profileFiles[p].fields, p)
        /\ extraction' = [extraction EXCEPT !.at = "found"]
     \/ /\ extraction' = [extraction EXCEPT !.profile = @ \union {p}]
        /\ UNCHANGED gathered
  /\ UNCHANGED <<leads, profileFiles, allowed>>

LaunchFails ==
  /\ extraction.at = "launch" /\ extraction.profile = Profile
  /\ extraction' = [extraction EXCEPT !.at = "failed"]
  /\ UNCHANGED <<leads, profileFiles, allowed, gathered>>

StorageNext ==
  NextSource \/ ReadThisBrowser \/ ReadOrigin \/ ScanFiles \/ (\E p \in Profile : LaunchOver(p)) \/ LaunchFails

StorageSpec == StorageInit /\ [][StorageNext]_storageVars

---------------------------------------------------------------------------
(* "a browser that failed once is not asked again"                         *)
(* (local-agil.ts:1685-1687): none is asked twice, through whatever        *)
(* sources; a session is of one browser or profile, never made of two, and *)
(* no fresher profile was passed over; and the extraction fails only when  *)
(* everything a source leads to was asked.                                 *)
SessionOfOneBrowser ==
  /\ \A i, j \in DOMAIN extraction.tried : extraction.tried[i] = extraction.tried[j] => i = j
  /\ extraction.at = "found" =>
       \E owner \in Browser \union Profile :
         /\ \A f \in gathered : f.of = owner
         /\ NeededFields \subseteq FieldsOf(gathered)
         /\ owner \in Profile /\ extraction.profile = {} /\ allowed.scan =>
              \A p \in HasFiles : profileFiles[p].fresh <= profileFiles[owner].fresh
  /\ extraction.at = "failed" =>
       \A s \in 1..SourceCount : leads[s] # NobodyThere => IsTried(leads[s])
=============================================================================
