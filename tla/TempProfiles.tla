---------------------------- MODULE TempProfiles ----------------------------
(***************************************************************************)
(* The copies of browser profiles the units leave in the temporary         *)
(* directory and the sweeps that take them away                            *)
(* (src/src/temp-artifacts.ts; made by local-agil.ts and local-costamar.ts, *)
(* swept by every unit's index.ts when it starts, every so often and as it *)
(* stops). A process may be killed at any step, and its number may be      *)
(* given to another one.                                                   *)
(*                                                                         *)
(* Names, prefixes, sizes and the atomic writing of a marker are left out. *)
(***************************************************************************)
EXTENDS Integers, FiniteSets

CONSTANTS
  TempMaker,       \* processes that make copies
  TempSweeper,     \* processes that sweep: makers, and others
  TempArtifact,    \* the copies that are made
  MinAge,          \* TEMP_ARTIFACT_SWEEP_MIN_AGE_MS
  UseLimit,        \* no use of a copy lasts longer: its steps have deadlines
  MaxHour          \* bound of the clock

ASSUME TempAssumption ==
  /\ {MinAge, UseLimit, MaxHour} \subseteq Nat
  /\ UseLimit < MinAge

VARIABLES
  hour,
  tempUser,        \* what each maker is at: with which copy, since when
  onDisk,          \* the copies there are, and when each was made
  marker,          \* whose marker a copy has
  activeSet,       \* activeTempArtifacts of each maker
  toTake,          \* the copies each sweeper chose and has still to remove
  taken            \* history: copies removed while they were in use

tempVars == <<hour, tempUser, onDisk, marker, activeSet, toTake, taken>>

NoUser == "nobody"
NotMade == -1
Removed == -2
Free == [at |-> "free", copy |-> NoUser, since |-> 0]

IsThere(a) == onDisk[a] \notin {NotMade, Removed}
InUse(a) == \E p \in TempMaker : tempUser[p].copy = a /\ tempUser[p].at # "free"

(* prepareTemporaryChromeProfile: the directory, and then its marker, which *)
(* may fail to be written: in this process it is known all the same. Each  *)
(* copy has a name of its own (mkdtemp).                                   *)
MakeCopy(p, a) ==
  /\ tempUser[p] = Free /\ onDisk[a] = NotMade
  /\ tempUser' = [tempUser EXCEPT ![p] = [at |-> "made", copy |-> a, since |-> hour]]
  /\ onDisk' = [onDisk EXCEPT ![a] = hour]
  /\ UNCHANGED <<hour, marker, activeSet, toTake, taken>>

RegisterActive(p) ==
  LET a == tempUser[p].copy
  IN /\ tempUser[p].at = "made"
     /\ tempUser' = [tempUser EXCEPT ![p].at = "used"]
     /\ activeSet' = [activeSet EXCEPT ![p] = @ \union {a}]
     /\ \E written \in BOOLEAN : marker' = IF written THEN [marker EXCEPT ![a] = p] ELSE marker
     /\ UNCHANGED <<hour, onDisk, toTake, taken>>

(* cleanupTemporaryChromeLaunch: removed, or not after every retry, and    *)
(* then no longer active.                                                  *)
CleanUp(p) ==
  LET a == tempUser[p].copy
  IN /\ tempUser[p].at = "used"
     /\ tempUser' = [tempUser EXCEPT ![p] = Free]
     /\ \E gone \in BOOLEAN : onDisk' = IF gone THEN [onDisk EXCEPT ![a] = Removed] ELSE onDisk
     /\ activeSet' = [activeSet EXCEPT ![p] = @ \ {a}]
     /\ marker' = [marker EXCEPT ![a] = NoUser]
     /\ UNCHANGED <<hour, toTake, taken>>

(* A worker is killed: what it knew is gone, its copy and marker are not.  *)
(* The process that replaces it is another, or has its number.             *)
Killed(p) ==
  /\ tempUser[p] # Free
  /\ tempUser' = [tempUser EXCEPT ![p] = Free]
  /\ activeSet' = [activeSet EXCEPT ![p] = {}]
  /\ toTake' = [s \in TempSweeper |-> IF s = p THEN {} ELSE toTake[s]]
  /\ \E reused \in BOOLEAN :
       marker' = IF reused THEN marker ELSE [a \in TempArtifact |-> IF marker[a] = p THEN "dead" ELSE marker[a]]
  /\ UNCHANGED <<hour, onDisk, taken>>

(* hasLiveActiveMarker, or known to be active in the process that sweeps.  *)
Active(s, a) ==
  \/ marker[a] \notin {NoUser, "dead"}
  \/ s \in TempMaker /\ a \in activeSet[s]

(* Mutant: a sweep takes what nobody marks, however new. *)
SweptAnyAge(s, a) == IsThere(a) /\ ~Active(s, a)

Swept(s, a) == IsThere(a) /\ ~Active(s, a) /\ onDisk[a] <= hour - MinAge

(* cleanupPrefixedTempArtifacts: one scan, and then one removal after      *)
(* another; runTempCleanup starts none while one runs.                     *)
ScanTemp(s) ==
  /\ toTake[s] = {}
  /\ toTake' = [toTake EXCEPT ![s] = {a \in TempArtifact : Swept(s, a)}]
  /\ toTake' # toTake
  /\ UNCHANGED <<hour, tempUser, onDisk, marker, activeSet, taken>>

RemoveSwept(s, a) ==
  /\ a \in toTake[s]
  /\ toTake' = [toTake EXCEPT ![s] = @ \ {a}]
  /\ \E gone \in BOOLEAN :
       /\ onDisk' = IF gone THEN [onDisk EXCEPT ![a] = Removed] ELSE onDisk
       /\ marker' = IF gone THEN [marker EXCEPT ![a] = NoUser] ELSE marker
       /\ taken' = IF gone /\ InUse(a) THEN taken \union {a} ELSE taken
  /\ UNCHANGED <<hour, tempUser, activeSet>>

(* The uses of a copy end within their deadlines.                          *)
HourPasses ==
  /\ hour < MaxHour
  /\ \A p \in TempMaker : tempUser[p] # Free => hour < tempUser[p].since + UseLimit
  /\ hour' = hour + 1
  /\ UNCHANGED <<tempUser, onDisk, marker, activeSet, toTake, taken>>

TempInit ==
  /\ hour = 0
  /\ tempUser = [p \in TempMaker |-> Free]
  /\ onDisk = [a \in TempArtifact |-> NotMade]
  /\ marker = [a \in TempArtifact |-> NoUser]
  /\ activeSet = [p \in TempMaker |-> {}]
  /\ toTake = [s \in TempSweeper |-> {}]
  /\ taken = {}

TempNext ==
  \/ \E p \in TempMaker :
       \/ \E a \in TempArtifact : MakeCopy(p, a)
       \/ RegisterActive(p) \/ CleanUp(p) \/ Killed(p)
  \/ \E s \in TempSweeper : ScanTemp(s) \/ \E a \in TempArtifact : RemoveSwept(s, a)
  \/ HourPasses

TempSpec == TempInit /\ [][TempNext]_tempVars

---------------------------------------------------------------------------
(* Units share one temporary directory: no sweep of any unit takes a copy  *)
(* that is in use, between its making and its marker, with a marker that   *)
(* could not be written, or chosen long before it is removed; and what a   *)
(* killed process left is chosen by the next sweep once it is old.         *)
SweepsTakeTheAbandoned ==
  /\ taken = {}
  /\ \A s \in TempSweeper, a \in TempArtifact :
       /\ IsThere(a) /\ ~InUse(a) /\ marker[a] \in {NoUser, "dead"}
       /\ hour >= onDisk[a] + MinAge
       => Swept(s, a)
=============================================================================
