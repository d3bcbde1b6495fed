---------------------------- MODULE LocationUsage ---------------------------
(***************************************************************************)
(* The stations a desk searches most and last                              *)
(* (src/src/location-usage-store.ts): one row per station with its life-   *)
(* time count, one per station and day, one per browser and station. The   *)
(* tables of SQLite and the maps kept without a file hold the same.        *)
(*                                                                         *)
(* Indexes, migrations and diagnostics are left out; a station is a number *)
(* in the order of its code.                                               *)
(***************************************************************************)
EXTENDS Integers, FiniteSets, FiniteSetsExt

CONSTANTS
  Station,         \* a set of numbers
  Browsing,        \* sessions of browsers: numbers too; 0 when none is sent
  DayLength,       \* ticks of a day
  CardLimit,       \* LOCATION_USAGE_CARD_LIMIT
  RankingDays,     \* LOCATION_USAGE_RANKING_WINDOW_DAYS
  RecentTTL,       \* recentTtlMs
  MaxRecent        \* LOCATION_USAGE_RECENT_MAX_ENTRIES

ASSUME UsageAssumption ==
  /\ (Station \union Browsing) \subseteq Nat \ {0} /\ IsFiniteSet(Station)
  /\ {CardLimit, MaxRecent, DayLength} \subseteq Nat \ {0}
  /\ {RankingDays, RecentTTL} \subseteq Nat

VARIABLES
  tick,
  lifetime,        \* location_usage: role and station -> how often, and when last
  daily,           \* location_usage_daily: role, station and day -> how often
  recent           \* location_recent_usage: its rows

usageVars == <<tick, lifetime, daily, recent>>

UsageDay(t) == t \div DayLength                    \* dayNumber
CutoffDay == UsageDay(tick) - RankingDays          \* cutoffDayFor

(* The order of the table: the later first, then session, role and code.   *)
Newer(q, r) ==
  \/ q.at > r.at
  \/ q.at = r.at /\ q.by < r.by
  \/ q.at = r.at /\ q.by = r.by /\ q.role = "destination" /\ r.role = "origin"
  \/ q.at = r.at /\ q.by = r.by /\ q.role = r.role /\ q.code < r.code
(* Its first n rows. *)
NewestOf(rows, n) == {r \in rows : Cardinality({q \in rows : Newer(q, r)}) < n}

(* deleteExpiredPersistedRecentEntries, trimPersistedRecentEntriesGlobally *)
RecentKept(rows) ==
  NewestOf({r \in rows : r.at >= tick - RecentTTL}, MaxRecent)

(* recordPersistedRecentLocations: a row for each role, which is trimmed to *)
(* the cards that can be shown.                                             *)
RecentRow(by, role, s) == [by |-> by, role |-> role, code |-> s, at |-> tick]
OfOne(rows, by, role) == {r \in rows : r.by = by /\ r.role = role}
WithRecent(rows, by, role, s) ==
  LET others == {r \in rows : ~(r.by = by /\ r.role = role /\ r.code = s)}
      put == others \union {RecentRow(by, role, s)}
  IN (put \ OfOne(put, by, role)) \union NewestOf(OfOne(put, by, role), CardLimit)

(* recordFromSearch: what normalizes is counted, in one transaction; then  *)
(* the recent ones, if the browser sent its session.                       *)
RecordFromSearch(from, to, by) ==
  LET used == {u \in {<<"origin", from>>, <<"destination", to>>} : u[2] \in Station}
      today == {<<u[1], u[2], UsageDay(tick)>> : u \in used}
      kept == {d \in DOMAIN daily : d[3] >= CutoffDay}
      both == IF by = 0 THEN recent
              ELSE LET one == IF from \in Station THEN WithRecent(RecentKept(recent), by, "origin", from)
                              ELSE RecentKept(recent)
                   IN IF to \in Station THEN WithRecent(one, by, "destination", to) ELSE one
  IN /\ lifetime' = [u \in DOMAIN lifetime \union used |->
                       IF u \notin used THEN lifetime[u]
                       ELSE IF u \in DOMAIN lifetime THEN [uses |-> lifetime[u].uses + 1, at |-> tick]
                       ELSE [uses |-> 1, at |-> tick]]
     /\ daily' = [d \in kept \union today |->
                    (IF d \in DOMAIN daily THEN daily[d] ELSE 0) + (IF d \in today THEN 1 ELSE 0)]
     /\ recent' = IF used = {} THEN recent ELSE RecentKept(both)

(* readPersistedRoleRanking *)
UsesOf(role, s) == MapThenSumSet(LAMBDA d : daily[d], {d \in DOMAIN daily : d[1] = role /\ d[2] = s /\ d[3] >= CutoffDay})
Leads(role, uses, s, u) ==
  LET last(x) == lifetime[<<role, x>>].at
  IN \/ uses[s] > uses[u]
     \/ uses[s] = uses[u] /\ (last(s) > last(u) \/ (last(s) = last(u) /\ s < u))
Leaders(role, uses, n) ==
  LET alive == {s \in Station : uses[s] > 0}
  IN {s \in alive : Cardinality({u \in alive : Leads(role, uses, u, s)}) < n}
Newest(role) ==
  {s \in Station : /\ <<role, s>> \in DOMAIN lifetime
                   /\ \A u \in Station : <<role, u>> \in DOMAIN lifetime =>
                        LET a == lifetime[<<role, s>>].at  b == lifetime[<<role, u>>].at
                        IN a > b \/ (a = b /\ s <= u)}

(* withNewestCard: the last card is the newest station's, unless it leads.  *)
Cards(role) ==
  LET uses == [s \in Station |-> UsesOf(role, s)]
      head == Leaders(role, uses, CardLimit - 1)
  IN IF CardLimit < 2 \/ Newest(role) \subseteq head THEN Leaders(role, uses, CardLimit)
     ELSE head \union Newest(role)

(* getUsageSuggestions of a browser: what is too old goes first.           *)
ReadCards ==
  /\ recent' = RecentKept(recent) /\ recent' # recent
  /\ UNCHANGED <<tick, lifetime, daily>>
=============================================================================
