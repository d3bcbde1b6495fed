--------------------------- MODULE LocationCache ----------------------------
(***************************************************************************)
(* The stations a provider answered a text with, kept for a week           *)
(* (LocationSuggestionCacheStore of location-suggestion-cache.ts): loaded  *)
(* once for all who ask at a time, bounded for each session and in all, and *)
(* written to rows that the web unit and the runner share and read as they *)
(* start. A statement may be refused (runSql of sqlite.ts: the file is busy *)
(* or full): what memory has done by then stays, and the rest is left out.  *)
(***************************************************************************)
EXTENDS Integers, FiniteSets, FiniteSetsExt

CONSTANTS
  Unit,            \* processes that open the file
  Lookup,          \* session, provider, text and limit
  SessionOf,       \* the session of each lookup
  PerSession,      \* LOCATION_SUGGESTION_CACHE_MAX_ENTRIES_PER_SESSION
  InAll,           \* LOCATION_SUGGESTION_CACHE_MAX_ENTRIES
  CacheTTL,        \* LOCATION_SUGGESTION_CACHE_TTL_MS
  MaxCacheTime,    \* bound of the clock
  MaxLoading,      \* bound: loads in flight at a time, of both units
  MaxRefused       \* bound: the statements that are refused

ASSUME CacheAssumption ==
  /\ {PerSession, InAll, CacheTTL, MaxCacheTime, MaxLoading, MaxRefused} \subseteq Nat
  /\ Lookup = DOMAIN SessionOf

VARIABLES
  cacheTime,
  entries,         \* each unit's entries, and the key index of its sessions
  inflight,        \* the keys each unit is loading
  stationRows,     \* location_suggestions
  refusals,        \* how many statements were refused
  untrimmed        \* history: keys each unit kept though their load was refused

cacheVars == <<cacheTime, entries, inflight, stationRows, refusals, untrimmed>>

(* loaded is when the provider answered, for the property. *)
NoEntry == [expires |-> 0, touched |-> 0, loaded |-> 0]
Loaded == [expires |-> cacheTime + CacheTTL, touched |-> cacheTime, loaded |-> cacheTime]

CacheInit ==
  /\ cacheTime = 1
  /\ entries = [u \in Unit |-> [k \in Lookup |-> NoEntry]]
  /\ inflight = [u \in Unit |-> {}]
  /\ stationRows = [k \in Lookup |-> NoEntry]
  /\ refusals = 0
  /\ untrimmed = [u \in Unit |-> {}]

HeldKeys(held) == {k \in Lookup : held[k] # NoEntry}
OfSession(held, session) == {k \in HeldKeys(held) : SessionOf[k] = session}
NotExpired(entry) == entry.expires > cacheTime

(* deleteKey, of several keys. *)
WithoutKeys(held, keys) == [k \in Lookup |-> IF k \in keys THEN NoEntry ELSE held[k]]

(* Mutant: a hit is good for another week. *)
HitRenewing(entry) == [entry EXCEPT !.touched = cacheTime, !.expires = cacheTime + CacheTTL]

(* A hit is touched, and its row is written again.                          *)
Hit(entry) == [entry EXCEPT !.touched = cacheTime]

Hits(u, k) ==
  /\ NotExpired(entries[u][k])
  /\ entries' = [entries EXCEPT ![u][k] = Hit(@)]
  /\ stationRows' = [stationRows EXCEPT ![k] = Hit(entries[u][k])]
  /\ UNCHANGED <<cacheTime, inflight, refusals, untrimmed>>

(* The file refuses a statement. *)
Refuses == refusals < MaxRefused /\ refusals' = refusals + 1

(* The row of a hit is refused, and so is who asked. *)
HitRefused(u, k) ==
  /\ Refuses
  /\ NotExpired(entries[u][k])
  /\ entries' = [entries EXCEPT ![u][k] = Hit(@)]
  /\ UNCHANGED <<cacheTime, inflight, stationRows, untrimmed>>

(* getOrLoad of what is not there: an expired entry goes, its row with it   *)
(* and with whatever the other unit wrote to it; who asks for what is being *)
(* loaded waits for it.                                                     *)
Misses(u, k) ==
  /\ ~NotExpired(entries[u][k]) /\ k \notin inflight[u]
  /\ Cardinality({load \in Unit \X Lookup : load[2] \in inflight[load[1]]}) < MaxLoading
  /\ entries' = [entries EXCEPT ![u][k] = NoEntry]
  /\ stationRows' = IF entries[u][k] = NoEntry THEN stationRows ELSE [stationRows EXCEPT ![k] = NoEntry]
  /\ inflight' = [inflight EXCEPT ![u] = @ \cup {k}]
  /\ UNCHANGED <<cacheTime, refusals, untrimmed>>

(* Its deletion is refused, and nothing is loaded. *)
MissRefused(u, k) ==
  /\ Refuses
  /\ ~NotExpired(entries[u][k]) /\ entries[u][k] # NoEntry
  /\ entries' = [entries EXCEPT ![u][k] = NoEntry]
  /\ UNCHANGED <<cacheTime, inflight, stationRows, untrimmed>>

(* Mutant: no more leave than the one that came. *)
OldestOne(held, keys, limit) ==
  IF Cardinality(keys) <= limit THEN {{}}
  ELSE {gone \in kSubset(1, keys) :
          \A g \in gone, k \in keys \ gone : held[g].touched <= held[k].touched}

(* trimSession and trimGlobal: the ones touched longest ago leave, in any   *)
(* order of those touched at once.                                          *)
Oldest(held, keys, limit) ==
  IF Cardinality(keys) <= limit THEN {{}}
  ELSE {gone \in kSubset(Cardinality(keys) - limit, keys) :
          \A g \in gone, k \in keys \ gone : held[g].touched <= held[k].touched}

(* A trim that is refused has taken some of them, the last in memory only.  *)
CutTrims(held, keys, limit) ==
  UNION {{[gone |-> gone, last |-> g] : g \in {g \in gone : \A h \in gone : held[h].touched <= held[g].touched}}
           : gone \in UNION {Oldest(held, keys, n) : n \in limit .. Cardinality(keys) - 1}}

LoadEnded(u, k) ==
  /\ k \in inflight[u] /\ inflight' = [inflight EXCEPT ![u] = @ \ {k}]
  /\ UNCHANGED cacheTime

(* What a load brings is written and the limits are kept.                   *)
LoadEnds(u, k) ==
  /\ LoadEnded(u, k)
  /\ LET held == [entries[u] EXCEPT ![k] = Loaded]
     IN \E own \in Oldest(held, OfSession(held, SessionOf[k]), PerSession) :
          LET kept == WithoutKeys(held, own)
          IN \E gone \in Oldest(kept, HeldKeys(kept), InAll) :
               /\ entries' = [entries EXCEPT ![u] = WithoutKeys(kept, gone)]
               /\ stationRows' = WithoutKeys([stationRows EXCEPT ![k] = Loaded], own \cup gone)
  /\ untrimmed' = [untrimmed EXCEPT ![u] = {l \in @ : SessionOf[l] # SessionOf[k]}]
  /\ UNCHANGED refusals

(* Its row is refused: the load fails for all who waited, its entry stays,  *)
(* and nothing is trimmed.                                                  *)
RowRefused(u, k) ==
  /\ Refuses
  /\ LoadEnded(u, k)
  /\ entries' = [entries EXCEPT ![u][k] = Loaded]
  /\ untrimmed' = [untrimmed EXCEPT ![u] = @ \cup {k}]
  /\ UNCHANGED stationRows

(* A deletion of the trims is refused: the load fails, half way through.    *)
TrimRefused(u, k) ==
  /\ Refuses
  /\ LoadEnded(u, k)
  /\ LET held == [entries[u] EXCEPT ![k] = Loaded]
         rows == [stationRows EXCEPT ![k] = Loaded]
     IN \/ \E cut \in CutTrims(held, OfSession(held, SessionOf[k]), PerSession) :
             /\ entries' = [entries EXCEPT ![u] = WithoutKeys(held, cut.gone)]
             /\ stationRows' = WithoutKeys(rows, cut.gone \ {cut.last})
        \/ \E own \in Oldest(held, OfSession(held, SessionOf[k]), PerSession) :
             LET kept == WithoutKeys(held, own)
             IN \E cut \in CutTrims(kept, HeldKeys(kept), InAll) :
                  /\ entries' = [entries EXCEPT ![u] = WithoutKeys(kept, cut.gone)]
                  /\ stationRows' = WithoutKeys(rows, own \cup (cut.gone \ {cut.last}))
  /\ untrimmed' = [untrimmed EXCEPT ![u] = @ \cup {k}]

(* A load that fails fails for all who waited, and is forgotten. *)
LoadFails(u, k) ==
  /\ LoadEnded(u, k)
  /\ UNCHANGED <<entries, stationRows, refusals, untrimmed>>

(* purgeExpired, which also removes the expired rows of the other unit.     *)
Expired(held) == {k \in HeldKeys(held) : ~NotExpired(held[k])}
PurgeStations(u) ==
  /\ Expired(entries[u]) \cup Expired(stationRows) # {}
  /\ entries' = [entries EXCEPT ![u] = WithoutKeys(@, Expired(@))]
  /\ stationRows' = WithoutKeys(stationRows, Expired(stationRows) \cup Expired(entries[u]))
  /\ UNCHANGED <<cacheTime, inflight, refusals, untrimmed>>

(* It is refused half way, at the row of an entry or at those of the other. *)
PurgeRefused(u) ==
  /\ Refuses
  /\ \E gone \in SUBSET Expired(entries[u]) :
       /\ entries' = [entries EXCEPT ![u] = WithoutKeys(@, gone)]
       /\ \/ \E last \in gone : stationRows' = WithoutKeys(stationRows, gone \ {last})
          \/ gone = Expired(entries[u]) /\ stationRows' = WithoutKeys(stationRows, gone)
  /\ UNCHANGED <<cacheTime, inflight, untrimmed>>

(* A unit restarts and reads the rows, the latest of them and of each       *)
(* session, and deletes the others (loadSqlitePayload); one that is refused *)
(* does not start.                                                          *)
SessionsOf(keys) == {SessionOf[k] : k \in keys}
UnitRestarts(u) ==
  LET rows == WithoutKeys(stationRows, Expired(stationRows))
  IN /\ \E gone \in Oldest(rows, HeldKeys(rows), InAll) :
          LET latest == WithoutKeys(rows, gone)
          IN \E over \in [SessionsOf(HeldKeys(latest)) -> SUBSET HeldKeys(latest)] :
               /\ \A s \in DOMAIN over : over[s] \in Oldest(latest, OfSession(latest, s), PerSession)
               /\ stationRows' = WithoutKeys(latest, UNION {over[s] : s \in DOMAIN over})
     /\ entries' = [entries EXCEPT ![u] = stationRows']
     /\ inflight' = [inflight EXCEPT ![u] = {}]
     /\ untrimmed' = [untrimmed EXCEPT ![u] = {}]
     /\ UNCHANGED <<cacheTime, refusals>>

CacheTimePasses ==
  /\ cacheTime < MaxCacheTime /\ cacheTime' = cacheTime + 1
  /\ UNCHANGED <<entries, inflight, stationRows, refusals, untrimmed>>

CacheNext ==
  \/ \E u \in Unit :
       \/ \E k \in Lookup :
            \/ Hits(u, k) \/ HitRefused(u, k) \/ Misses(u, k) \/ MissRefused(u, k)
            \/ LoadEnds(u, k) \/ LoadFails(u, k) \/ RowRefused(u, k) \/ TrimRefused(u, k)
       \/ PurgeStations(u) \/ PurgeRefused(u) \/ UnitRestarts(u)
  \/ CacheTimePasses

CacheSpec == CacheInit /\ [][CacheNext]_cacheVars

-----------------------------------------------------------------------------
(* What a unit answers from its cache was loaded within the TTL, whichever  *)
(* unit loaded it, however often it was read, written, refused and restored, *)
(* and nothing that is there is being loaded. No unit holds more than the   *)
(* limits, save for what it kept of loads that were refused, until the next *)
(* load of their session that is not (location-suggestion-cache.ts).        *)
StationsAreFresh ==
  \A u \in Unit :
    LET held == entries[u]
        counted == WithoutKeys(held, untrimmed[u])
    IN /\ \A k \in HeldKeys(held) :
            NotExpired(held[k]) => cacheTime - held[k].loaded < CacheTTL /\ k \notin inflight[u]
       /\ Cardinality(HeldKeys(counted)) <= InAll
       /\ \A k \in Lookup : Cardinality(OfSession(counted, SessionOf[k])) <= PerSession
=============================================================================
