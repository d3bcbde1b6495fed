----------------------- MODULE ProviderSessionProofs ------------------------
(***************************************************************************)
(* What the providers' sessions are made of: that the sweeps of the        *)
(* temporary directory take no copy that is in use (TempProfiles), that an *)
(* Agil session is one browser's or profile's (AgilStorage), that a        *)
(* request uses the token that expires last (BrandedToken), that a warm-up *)
(* and a worker leave no browser or tab behind (CostamarSession,           *)
(* BrowserTabs), that secrets are used once, waiters are told the truth    *)
(* and sign-ins are spaced (B2bPage, AgilSession, CostamarSession), and    *)
(* that what a search says of its GDS and of its dates is what they        *)
(* answered (AgilSearch, DateSweep).                                       *)
(* Each component is proved for any processes, browsers, profiles and      *)
(* times, from an inductive invariant of its own. The last theorem is that *)
(* a step of all of them together is, for each, a step of its own or none, *)
(* so what is proved of each holds of the whole that the run checks.       *)
(***************************************************************************)
EXTENDS MCProviders, FiniteSetTheorems, WellFoundedInduction, SequenceTheorems, TLAPS

-----------------------------------------------------------------------------
(* TEMPORARY PROFILES                                                      *)

TempUserRecord == [at : {"free", "made", "used"}, copy : TempArtifact \cup {NoUser}, since : Nat]

TempTypeOK ==
  /\ hour \in Nat
  /\ tempUser \in [TempMaker -> TempUserRecord]
  /\ onDisk \in [TempArtifact -> Nat \cup {NotMade, Removed}]
  /\ activeSet \in [TempMaker -> SUBSET TempArtifact]
  /\ toTake \in [TempSweeper -> SUBSET TempArtifact]

(* p is at work with the copy a. *)
Uses(p, a) == tempUser[p].copy = a /\ tempUser[p].at # "free"

(* A copy in use is on disk since its use began, which was not long ago,   *)
(* and is one process's.                                                   *)
UserIsRight(p) ==
  tempUser[p].at # "free" =>
    /\ tempUser[p].copy \in TempArtifact
    /\ onDisk[tempUser[p].copy] = tempUser[p].since
    /\ hour <= tempUser[p].since + UseLimit
UsersDiffer ==
  \A p, q \in TempMaker : \A a \in TempArtifact : Uses(p, a) /\ Uses(q, a) => p = q

(* What a process knows to be active it uses, and what a sweep chose was   *)
(* made and nobody uses.                                                   *)
ActiveIsUsed == \A p \in TempMaker : \A a \in activeSet[p] : Uses(p, a)
ChosenIsAbandoned ==
  \A s \in TempSweeper : \A a \in toTake[s] :
    onDisk[a] # NotMade /\ \A p \in TempMaker : ~Uses(p, a)

TempIInv ==
  /\ TempTypeOK /\ UsersDiffer /\ ActiveIsUsed /\ ChosenIsAbandoned /\ taken = {}
  /\ \A p \in TempMaker : UserIsRight(p)

(* The directory is empty when the processes begin.                        *)
LEMMA TempInitIsRight == TempInit => TempIInv
<1> SUFFICES ASSUME TempInit
             PROVE  TempIInv
  OBVIOUS
<1>1. Free \in TempUserRecord /\ Free.at = "free"
  BY DEF Free, TempUserRecord
<1> QED
  BY <1>1 DEF TempInit, TempIInv, TempTypeOK, UsersDiffer, ActiveIsUsed, ChosenIsAbandoned,
              UserIsRight, Uses

(* What is old enough for a sweep is in nobody's use: a use ends before    *)
(* its copy is that old.                                                   *)
LEMMA OldIsAbandoned ==
  ASSUME TempIInv, NEW s \in TempSweeper, NEW a \in TempArtifact, Swept(s, a), NEW p \in TempMaker
  PROVE  ~Uses(p, a) /\ onDisk[a] # NotMade
<1>1. onDisk[a] \in Nat /\ onDisk[a] <= hour - MinAge
  BY DEF TempIInv, TempTypeOK, Swept, IsThere
<1>2. ASSUME Uses(p, a)
      PROVE  FALSE
  <2>1. onDisk[a] = tempUser[p].since /\ hour <= tempUser[p].since + UseLimit
    BY <1>2 DEF TempIInv, UserIsRight, Uses
  <2> QED
    BY <1>1, <2>1, TempAssumption DEF TempIInv, TempTypeOK
<1> QED
  BY <1>1, <1>2 DEF NotMade

(* Copies that are made, marked, removed, left and swept, and time, keep   *)
(* what is in use apart from what is taken.                                *)
LEMMA TempStepIsRight == TempIInv /\ [TempNext]_tempVars => TempIInv'
<1> SUFFICES ASSUME TempIInv, [TempNext]_tempVars
             PROVE  TempIInv'
  OBVIOUS
<1>T. TempTypeOK /\ UsersDiffer /\ ActiveIsUsed /\ ChosenIsAbandoned /\ taken = {}
  BY DEF TempIInv
<1>U. \A p \in TempMaker : UserIsRight(p) /\ tempUser[p] \in TempUserRecord
  BY DEF TempIInv, TempTypeOK
<1>1. ASSUME NEW p \in TempMaker, NEW a \in TempArtifact, MakeCopy(p, a)
      PROVE  TempIInv'
  <2> DEFINE user == [at |-> "made", copy |-> a, since |-> hour]
  <2>1. /\ tempUser[p] = Free /\ onDisk[a] = NotMade
        /\ tempUser' = [tempUser EXCEPT ![p] = user] /\ onDisk' = [onDisk EXCEPT ![a] = hour]
        /\ UNCHANGED <<hour, marker, activeSet, toTake, taken>>
    BY <1>1 DEF MakeCopy
  <2>2. user \in TempUserRecord /\ user.at = "made" /\ user.copy = a /\ user.since = hour
    BY <1>T DEF TempUserRecord, TempTypeOK
  <2>3. Free.at = "free"
    BY DEF Free
  <2> HIDE DEF user
  <2>4. /\ TempTypeOK'
        /\ \A q \in TempMaker : tempUser'[q] = IF q = p THEN user ELSE tempUser[q]
        /\ \A b \in TempArtifact : onDisk'[b] = IF b = a THEN hour ELSE onDisk[b]
    BY <1>T, <2>1, <2>2 DEF TempTypeOK
  <2>5. \A q \in TempMaker : ~Uses(q, a)
    BY <1>T, <1>U, <2>1 DEF UserIsRight, Uses, NotMade, TempUserRecord
  <2>6. \A q \in TempMaker : \A b \in TempArtifact :
          Uses(q, b)' <=> IF q = p THEN b = a ELSE Uses(q, b)
    BY <2>2, <2>4 DEF Uses
  <2>7. UsersDiffer'
    BY <1>T, <2>5, <2>6 DEF UsersDiffer
  <2>8. ActiveIsUsed'
    <3>1. activeSet[p] = {}
      BY <1>T, <2>1, <2>3 DEF ActiveIsUsed, Uses
    <3> QED
      BY <1>T, <2>1, <2>4, <2>6, <3>1 DEF ActiveIsUsed, TempTypeOK
  <2>9. ChosenIsAbandoned'
    BY <1>T, <2>1, <2>4, <2>6 DEF ChosenIsAbandoned, TempTypeOK
  <2>10. \A q \in TempMaker : UserIsRight(q)'
    BY <1>T, <1>U, <2>1, <2>2, <2>4, <2>5, TempAssumption DEF UserIsRight, Uses, TempTypeOK
  <2> QED
    BY <1>T, <2>1, <2>4, <2>7, <2>8, <2>9, <2>10 DEF TempIInv
<1>2. ASSUME NEW p \in TempMaker, RegisterActive(p)
      PROVE  TempIInv'
  <2> DEFINE a == tempUser[p].copy
             user == [tempUser[p] EXCEPT !.at = "used"]
  <2>1. /\ tempUser[p].at = "made" /\ tempUser' = [tempUser EXCEPT ![p] = user]
        /\ activeSet' = [activeSet EXCEPT ![p] = @ \cup {a}]
        /\ UNCHANGED <<hour, onDisk, toTake, taken>>
    BY <1>2 DEF RegisterActive
  <2>2. /\ user \in TempUserRecord /\ user.at = "used"
        /\ user.copy = tempUser[p].copy /\ user.since = tempUser[p].since
    BY <1>U DEF TempUserRecord
  <2>3. a \in TempArtifact
    BY <1>U, <2>1 DEF UserIsRight
  <2> HIDE DEF user
  <2>4. /\ TempTypeOK'
        /\ \A q \in TempMaker : tempUser'[q] = IF q = p THEN user ELSE tempUser[q]
        /\ \A q \in TempMaker : activeSet'[q] = IF q = p THEN activeSet[p] \cup {a} ELSE activeSet[q]
    BY <1>T, <2>1, <2>2, <2>3 DEF TempTypeOK
  <2>5. \A q \in TempMaker : \A b \in TempArtifact : Uses(q, b)' <=> Uses(q, b)
    BY <2>1, <2>2, <2>4 DEF Uses
  <2>6. Uses(p, a)
    BY <2>1 DEF Uses
  <2>7. UsersDiffer' /\ ChosenIsAbandoned'
    BY <1>T, <2>1, <2>5 DEF UsersDiffer, ChosenIsAbandoned, TempTypeOK
  <2>8. ActiveIsUsed'
    BY <1>T, <2>3, <2>4, <2>5, <2>6 DEF ActiveIsUsed, TempTypeOK
  <2>9. \A q \in TempMaker : UserIsRight(q)'
    BY <1>U, <2>1, <2>2, <2>4 DEF UserIsRight
  <2> QED
    BY <1>T, <2>1, <2>4, <2>7, <2>8, <2>9 DEF TempIInv
<1>3. ASSUME NEW p \in TempMaker, CleanUp(p)
      PROVE  TempIInv'
  <2> DEFINE a == tempUser[p].copy
  <2>1. PICK vanished \in BOOLEAN : onDisk' = IF vanished THEN [onDisk EXCEPT ![a] = Removed] ELSE onDisk
    BY <1>3 DEF CleanUp
  <2>2. /\ tempUser[p].at = "used" /\ tempUser' = [tempUser EXCEPT ![p] = Free]
        /\ activeSet' = [activeSet EXCEPT ![p] = @ \ {a}]
        /\ UNCHANGED <<hour, toTake, taken>>
    BY <1>3 DEF CleanUp
  <2>3. Free \in TempUserRecord /\ Free.at = "free" /\ a \in TempArtifact
    BY <1>U, <2>2 DEF Free, TempUserRecord, UserIsRight
  <2> HIDE DEF Free
  <2>4. /\ TempTypeOK'
        /\ \A q \in TempMaker : tempUser'[q] = IF q = p THEN Free ELSE tempUser[q]
        /\ \A q \in TempMaker : activeSet'[q] = IF q = p THEN activeSet[p] \ {a} ELSE activeSet[q]
    BY <1>T, <2>1, <2>2, <2>3 DEF TempTypeOK
  <2>5. \A b \in TempArtifact : onDisk'[b] = onDisk[b] \/ (b = a /\ onDisk'[b] = Removed)
    BY <1>T, <2>1 DEF TempTypeOK
  <2>6. \A q \in TempMaker : \A b \in TempArtifact : Uses(q, b)' <=> q # p /\ Uses(q, b)
    BY <2>3, <2>4 DEF Uses
  <2>7. Uses(p, a)
    BY <2>2 DEF Uses
  <2>8. UsersDiffer'
    BY <1>T, <2>6 DEF UsersDiffer
  <2>9. ActiveIsUsed'
    <3>1. \A b \in activeSet[p] : b = a
      BY <1>T, <2>7 DEF ActiveIsUsed, Uses
    <3> QED
      BY <1>T, <2>4, <2>6, <3>1 DEF ActiveIsUsed, TempTypeOK
  <2>10. ChosenIsAbandoned'
    BY <1>T, <2>2, <2>5, <2>6 DEF ChosenIsAbandoned, TempTypeOK, NotMade, Removed
  <2>11. ASSUME NEW q \in TempMaker
         PROVE  UserIsRight(q)'
    <3>1. CASE q = p
      BY <2>3, <2>4, <3>1 DEF UserIsRight
    <3>2. CASE q # p /\ tempUser[q].at # "free"
      <4>1. tempUser'[q] = tempUser[q] /\ tempUser[q].copy \in TempArtifact
        BY <1>U, <2>4, <3>2 DEF UserIsRight
      <4>2. tempUser[q].copy # a
        BY <1>T, <2>3, <2>7, <3>2 DEF UsersDiffer, Uses
      <4>3. onDisk'[tempUser[q].copy] = onDisk[tempUser[q].copy]
        BY <2>5, <4>1, <4>2
      <4> QED
        BY <1>U, <2>2, <4>1, <4>3 DEF UserIsRight
    <3>3. CASE q # p /\ tempUser[q].at = "free"
      BY <2>4, <3>3 DEF UserIsRight
    <3> QED
      BY <3>1, <3>2, <3>3
  <2> QED
    BY <1>T, <2>2, <2>4, <2>8, <2>9, <2>10, <2>11 DEF TempIInv
<1>4. ASSUME NEW p \in TempMaker, Killed(p)
      PROVE  TempIInv'
  <2>1. /\ tempUser' = [tempUser EXCEPT ![p] = Free]
        /\ activeSet' = [activeSet EXCEPT ![p] = {}]
        /\ toTake' = [s \in TempSweeper |-> IF s = p THEN {} ELSE toTake[s]]
        /\ UNCHANGED <<hour, onDisk, taken>>
    BY <1>4 DEF Killed
  <2>2. Free \in TempUserRecord /\ Free.at = "free"
    BY DEF Free, TempUserRecord
  <2> HIDE DEF Free
  <2>3. /\ TempTypeOK'
        /\ \A q \in TempMaker : tempUser'[q] = IF q = p THEN Free ELSE tempUser[q]
        /\ \A q \in TempMaker : activeSet'[q] = IF q = p THEN {} ELSE activeSet[q]
        /\ \A s \in TempSweeper : toTake'[s] \subseteq toTake[s]
    BY <1>T, <2>1, <2>2 DEF TempTypeOK
  <2>4. \A q \in TempMaker : \A b \in TempArtifact : Uses(q, b)' <=> q # p /\ Uses(q, b)
    BY <2>2, <2>3 DEF Uses
  <2>5. UsersDiffer' /\ ActiveIsUsed' /\ ChosenIsAbandoned'
    BY <1>T, <2>1, <2>3, <2>4 DEF UsersDiffer, ActiveIsUsed, ChosenIsAbandoned, TempTypeOK
  <2>6. \A q \in TempMaker : UserIsRight(q)'
    BY <1>U, <2>1, <2>2, <2>3 DEF UserIsRight
  <2> QED
    BY <1>T, <2>1, <2>3, <2>5, <2>6 DEF TempIInv
<1>5. ASSUME NEW s \in TempSweeper, ScanTemp(s)
      PROVE  TempIInv'
  <2> DEFINE chosen == {a \in TempArtifact : Swept(s, a)}
  <2>1. toTake' = [toTake EXCEPT ![s] = chosen] /\ UNCHANGED <<hour, tempUser, onDisk, activeSet, taken>>
    BY <1>5 DEF ScanTemp
  <2>2. \A a \in chosen : onDisk[a] # NotMade /\ \A p \in TempMaker : ~Uses(p, a)
    <3>1. ASSUME NEW a \in TempArtifact, Swept(s, a)
          PROVE  onDisk[a] # NotMade /\ \A p \in TempMaker : ~Uses(p, a)
      <4>1. onDisk[a] # NotMade
        BY <3>1 DEF Swept, IsThere
      <4> QED
        BY <3>1, <4>1, OldIsAbandoned
    <3> QED
      BY <3>1
  <2>3. \A p \in TempMaker : \A a : Uses(p, a)' <=> Uses(p, a)
    BY <2>1 DEF Uses
  <2> HIDE DEF chosen
  <2>4. chosen \subseteq TempArtifact
    BY DEF chosen
  <2>5. TempTypeOK' /\ \A r \in TempSweeper : toTake'[r] = IF r = s THEN chosen ELSE toTake[r]
    BY <1>T, <2>1, <2>4 DEF TempTypeOK
  <2>6. ChosenIsAbandoned'
    BY <1>T, <2>1, <2>2, <2>3, <2>5 DEF ChosenIsAbandoned, TempTypeOK
  <2> QED
    BY <1>T, <1>U, <2>1, <2>3, <2>5, <2>6 DEF TempIInv, UsersDiffer, ActiveIsUsed, UserIsRight
<1>6. ASSUME NEW s \in TempSweeper, NEW a \in TempArtifact, RemoveSwept(s, a)
      PROVE  TempIInv'
  <2>1. PICK vanished \in BOOLEAN :
          /\ onDisk' = IF vanished THEN [onDisk EXCEPT ![a] = Removed] ELSE onDisk
          /\ taken' = IF vanished /\ InUse(a) THEN taken \cup {a} ELSE taken
    BY <1>6 DEF RemoveSwept
  <2>2. /\ a \in toTake[s] /\ toTake' = [toTake EXCEPT ![s] = @ \ {a}]
        /\ UNCHANGED <<hour, tempUser, activeSet>>
    BY <1>6 DEF RemoveSwept
  <2>3. \A p \in TempMaker : ~Uses(p, a)
    BY <1>T, <2>2 DEF ChosenIsAbandoned
  <2>4. taken' = {}
    BY <1>T, <2>1, <2>3 DEF InUse, Uses
  <2>5. /\ TempTypeOK'
        /\ \A r \in TempSweeper : toTake'[r] \subseteq toTake[r]
        /\ \A b \in TempArtifact : onDisk'[b] = onDisk[b] \/ (b = a /\ onDisk'[b] = Removed)
    BY <1>T, <2>1, <2>2 DEF TempTypeOK
  <2>6. \A p \in TempMaker : \A b : Uses(p, b)' <=> Uses(p, b)
    BY <2>2 DEF Uses
  <2>7. ChosenIsAbandoned'
    BY <1>T, <2>5, <2>6 DEF ChosenIsAbandoned, TempTypeOK, NotMade, Removed
  <2>8. \A p \in TempMaker : UserIsRight(p)'
    BY <1>U, <2>2, <2>3, <2>5 DEF UserIsRight, Uses
  <2> QED
    BY <1>T, <2>2, <2>4, <2>5, <2>6, <2>7, <2>8 DEF TempIInv, UsersDiffer, ActiveIsUsed
<1>7. CASE HourPasses
  <2>1. hour' = hour + 1 /\ UNCHANGED <<tempUser, onDisk, marker, activeSet, toTake, taken>>
    BY <1>7 DEF HourPasses
  <2>2. TempTypeOK' /\ UsersDiffer' /\ ActiveIsUsed' /\ ChosenIsAbandoned'
    BY <1>T, <2>1 DEF TempTypeOK, UsersDiffer, ActiveIsUsed, ChosenIsAbandoned, Uses
  <2>3. ASSUME NEW p \in TempMaker
        PROVE  UserIsRight(p)'
    <3>1. tempUser[p].at # "free" => hour < tempUser[p].since + UseLimit
      BY <1>7 DEF HourPasses, Free
    <3> QED
      BY <1>T, <1>U, <2>1, <3>1, TempAssumption DEF UserIsRight, TempTypeOK, TempUserRecord
  <2> QED
    BY <1>T, <2>1, <2>2, <2>3 DEF TempIInv
<1>8. CASE UNCHANGED tempVars
  BY <1>8 DEF TempIInv, TempTypeOK, UsersDiffer, ActiveIsUsed, ChosenIsAbandoned, UserIsRight,
              Uses, tempVars
<1> QED
  BY <1>1, <1>2, <1>3, <1>4, <1>5, <1>6, <1>7, <1>8 DEF TempNext

(* No sweep of any unit takes a copy that is in use, however long before   *)
(* its removal it was chosen, and the next one chooses whatever a killed   *)
(* process left, once it is old (cleanupPrefixedTempArtifacts).            *)
THEOREM SweepsAreSafe == TempSpec => []SweepsTakeTheAbandoned
<1>1. ASSUME TempIInv, NEW s \in TempSweeper, NEW a \in TempArtifact,
             IsThere(a), ~InUse(a), marker[a] \in {NoUser, "dead"}, hour >= onDisk[a] + MinAge
      PROVE  Swept(s, a)
  <2>1. onDisk[a] \in Nat /\ hour \in Nat /\ MinAge \in Nat
    BY <1>1, TempAssumption DEF TempIInv, TempTypeOK, IsThere
  <2>2. ~Active(s, a)
    BY <1>1 DEF TempIInv, ActiveIsUsed, Uses, InUse, Active
  <2> QED
    BY <1>1, <2>1, <2>2 DEF Swept
<1>2. TempIInv => SweepsTakeTheAbandoned
  BY <1>1 DEF SweepsTakeTheAbandoned, TempIInv
<1> QED
  BY <1>2, TempInitIsRight, TempStepIsRight, PTL DEF TempSpec

-----------------------------------------------------------------------------
(* AGIL SESSIONS                                                           *)

ExtractionRecord ==
  [at : {"sources", "browser", "launch", "found", "failed"}, source : Nat \ {0}, origin : Nat,
   tried : Seq(Browser), profile : SUBSET Profile]
Gathered == [field : Field, of : Browser \cup Profile]

StorageTypeOK ==
  /\ leads \in [1..SourceCount -> Browser \cup {NobodyThere}]
  /\ profileFiles \in [Profile -> ProfileFiles]
  /\ allowed \in [scan : BOOLEAN, launch : BOOLEAN]
  /\ extraction \in ExtractionRecord
  /\ gathered \subseteq Gathered

NoneTwice ==
  \A i, j \in DOMAIN extraction.tried : extraction.tried[i] = extraction.tried[j] => i = j

(* Sources are asked in order: those passed lead to a browser that was.    *)
Asked(upTo) == \A i \in 1..SourceCount : i < upTo /\ leads[i] # NobodyThere => IsTried(leads[i])
PassedAreTried == Asked(extraction.source)

(* While a browser is read, what there is is of it.                        *)
ReadingIsOfOne ==
  extraction.at = "browser" =>
    /\ extraction.source \in 1..SourceCount /\ LedTo \in Browser /\ IsTried(LedTo)
    /\ \A f \in gathered : f.of = LedTo

(* Files are read, and a Chrome launched, only after every source; and one *)
(* is launched though files may be scanned only where there are none.      *)
FilesComeLast ==
  /\ extraction.at \in {"launch", "failed"} => extraction.source > SourceCount
  /\ extraction.at \in {"launch", "failed"} /\ allowed.scan => HasFiles = {}

FoundIsOfOne ==
  extraction.at = "found" =>
    \E holder \in Browser \cup Profile :
      /\ \A f \in gathered : f.of = holder
      /\ NeededFields \subseteq FieldsOf(gathered)
      /\ (holder \in Profile /\ extraction.profile = {} /\ allowed.scan) =>
           \A p \in HasFiles : profileFiles[p].fresh <= profileFiles[holder].fresh

StorageIInv ==
  StorageTypeOK /\ NoneTwice /\ PassedAreTried /\ ReadingIsOfOne /\ FilesComeLast /\ FoundIsOfOne

(* The extraction begins with its first source.                            *)
LEMMA StorageInitIsRight == StorageInit => StorageIInv
<1> SUFFICES ASSUME StorageInit
             PROVE  StorageIInv
  OBVIOUS
<1>1. <<>> \in Seq(Browser)
  OBVIOUS
<1> DEFINE begun == [at |-> "sources", source |-> 1, origin |-> 0, tried |-> <<>>, profile |-> {}]
<1>2. /\ begun \in ExtractionRecord /\ begun.at = "sources" /\ begun.source = 1
      /\ begun.tried = <<>>
  BY <1>1 DEF ExtractionRecord
<1> HIDE DEF begun
<1>3. extraction = begun /\ gathered = {}
  BY DEF StorageInit, begun
<1>4. StorageTypeOK
  BY <1>2, <1>3 DEF StorageInit, StorageTypeOK
<1>5. NoneTwice /\ PassedAreTried
  BY <1>2, <1>3, StorageAssumption DEF NoneTwice, PassedAreTried, Asked
<1> QED
  BY <1>2, <1>3, <1>4, <1>5 DEF StorageIInv, ReadingIsOfOne, FilesComeLast, FoundIsOfOne

(* A browser that was not asked before is asked once, and those that were  *)
(* still were.                                                             *)
LEMMA AskedOnce ==
  ASSUME NEW tried \in Seq(Browser), NEW b \in Browser,
         \A i, j \in DOMAIN tried : tried[i] = tried[j] => i = j,
         \A i \in DOMAIN tried : tried[i] # b
  PROVE  LET later == Append(tried, b)
         IN /\ later \in Seq(Browser)
            /\ \A i, j \in DOMAIN later : later[i] = later[j] => i = j
            /\ \A i \in DOMAIN tried : i \in DOMAIN later /\ later[i] = tried[i]
            /\ \E i \in DOMAIN later : later[i] = b
<1> DEFINE later == Append(tried, b)
<1>1. /\ later \in Seq(Browser) /\ Len(later) = Len(tried) + 1 /\ Len(tried) \in Nat
      /\ \A i \in 1..Len(tried) : later[i] = tried[i]
      /\ later[Len(tried) + 1] = b
  OBVIOUS
<1>2. DOMAIN later = 1..Len(tried) + 1 /\ DOMAIN tried = 1..Len(tried)
  BY <1>1
<1> HIDE DEF later
<1>3. ASSUME NEW i \in DOMAIN later, NEW j \in DOMAIN later, later[i] = later[j]
      PROVE  i = j
  BY <1>1, <1>2, <1>3
<1>4. Len(tried) + 1 \in DOMAIN later
  BY <1>1, <1>2
<1> QED
  BY <1>1, <1>2, <1>3, <1>4 DEF later

(* A step that asks nobody keeps who was asked.                            *)
LEMMA TriedStay ==
  ASSUME extraction'.tried = extraction.tried, leads' = leads
  PROVE  /\ NoneTwice => NoneTwice'
         /\ \A b : IsTried(b)' <=> IsTried(b)
         /\ \A upTo : Asked(upTo) => Asked(upTo)'
BY DEF NoneTwice, IsTried, Asked

(* Whatever profile has files has what a session needs.                    *)
LEMMA FilesAreEnough ==
  ASSUME StorageTypeOK, NEW p \in HasFiles
  PROVE  /\ profileFiles[p].fields \subseteq Field /\ NeededFields \subseteq profileFiles[p].fields
         /\ \A q \in Profile : profileFiles[q].fresh \in Nat
<1>1. /\ profileFiles[p] \in ProfileFiles \ {NoFiles}
      /\ \A q \in Profile : profileFiles[q] \in ProfileFiles
  BY DEF StorageTypeOK, HasFiles
<1>2. \A files \in ProfileFiles : files.fresh \in Nat
  BY DEF ProfileFiles, NoFiles
<1>3. \A files \in ProfileFiles \ {NoFiles} : files.fields \in {NeededFields, Field}
  BY DEF ProfileFiles
<1> QED
  BY <1>1, <1>2, <1>3 DEF NeededFields, Field

(* What is all of one has one holder and its fields.                        *)
LEMMA OwnedIsOf ==
  ASSUME NEW names \in SUBSET Field, NEW holder \in Browser \cup Profile
  PROVE  /\ Owned(names, holder) \subseteq Gathered
         /\ \A f \in Owned(names, holder) : f.of = holder
         /\ FieldsOf(Owned(names, holder)) = names
<1>1. \A f \in names : [field |-> f, of |-> holder] \in Gathered
  BY DEF Gathered
<1>2. \A f \in Owned(names, holder) : \E n \in names : f = [field |-> n, of |-> holder]
  BY DEF Owned
<1>3. \A n \in names : [field |-> n, of |-> holder] \in Owned(names, holder)
  BY DEF Owned
<1>4. \A f \in Owned(names, holder) : f.of = holder /\ f.field \in names
  BY <1>2
<1>5. \A n \in names : \E f \in Owned(names, holder) : f.field = n
  BY <1>3
<1>6. FieldsOf(Owned(names, holder)) = names
  BY <1>4, <1>5 DEF FieldsOf
<1> QED
  BY <1>1, <1>2, <1>4, <1>6

(* What a profile's files give is a session of that profile.               *)
LEMMA SessionOfProfile ==
  ASSUME StorageIInv, UNCHANGED <<leads, profileFiles, allowed>>, NEW p \in HasFiles,
         gathered' = Owned(profileFiles[p].fields, p),
         extraction' = [extraction EXCEPT !.at = "found"],
         allowed.scan => p \in BestFiles
  PROVE  StorageIInv'
<1>1. p \in Profile /\ extraction \in ExtractionRecord
  BY DEF HasFiles, StorageIInv, StorageTypeOK
<1>2. /\ profileFiles[p].fields \subseteq Field /\ NeededFields \subseteq profileFiles[p].fields
      /\ \A q \in Profile : profileFiles[q].fresh \in Nat
  BY FilesAreEnough DEF StorageIInv
<1>3. /\ gathered' \subseteq Gathered /\ FieldsOf(gathered') = profileFiles[p].fields
      /\ \A f \in gathered' : f.of = p
  BY <1>1, <1>2, OwnedIsOf
<1>4. /\ extraction' \in ExtractionRecord /\ extraction'.at = "found"
      /\ extraction'.tried = extraction.tried /\ extraction'.source = extraction.source
      /\ extraction'.profile = extraction.profile
  BY <1>1 DEF ExtractionRecord
<1>5. StorageTypeOK'
  BY <1>3, <1>4 DEF StorageIInv, StorageTypeOK
<1>6. NoneTwice' /\ PassedAreTried'
  BY <1>4, TriedStay DEF StorageIInv, PassedAreTried, Asked
<1>7. allowed.scan => \A q \in HasFiles : profileFiles[q].fresh <= profileFiles[p].fresh
  BY <1>1, <1>2 DEF BestFiles, HasFiles
<1>8. FoundIsOfOne'
  <2>1. NeededFields \subseteq FieldsOf(gathered)'
    BY <1>2, <1>3
  <2>2. (allowed.scan => \A q \in HasFiles : profileFiles[q].fresh <= profileFiles[p].fresh)'
    BY <1>7 DEF HasFiles
  <2> QED
    BY <1>1, <1>3, <2>1, <2>2 DEF FoundIsOfOne
<1> QED
  BY <1>4, <1>5, <1>6, <1>8 DEF StorageIInv, ReadingIsOfOne, FilesComeLast

(* Sources that are skipped, cannot be reached, read in part or whole,     *)
(* files, and Chromes that start or do not, keep the extraction right.     *)
LEMMA StorageStepIsRight == StorageIInv /\ [StorageNext]_storageVars => StorageIInv'
<1> SUFFICES ASSUME StorageIInv, [StorageNext]_storageVars
             PROVE  StorageIInv'
  OBVIOUS
<1>T. /\ StorageTypeOK /\ NoneTwice /\ PassedAreTried /\ ReadingIsOfOne /\ FilesComeLast /\ FoundIsOfOne
      /\ extraction \in ExtractionRecord /\ SourceCount \in Nat
  BY StorageAssumption DEF StorageIInv, StorageTypeOK
<1>1. CASE NextSource
  <2>1. /\ extraction.at = "sources" /\ extraction.source <= SourceCount /\ SourceSkipped
        /\ extraction' = [extraction EXCEPT !.source = @ + 1]
        /\ UNCHANGED <<leads, profileFiles, allowed, gathered>>
    BY <1>1 DEF NextSource
  <2>2. /\ extraction' \in ExtractionRecord /\ extraction'.at = "sources"
        /\ extraction'.source = extraction.source + 1 /\ extraction'.tried = extraction.tried
    BY <1>T, <2>1 DEF ExtractionRecord
  <2>3. Asked(extraction.source + 1)
    BY <1>T, <2>1 DEF PassedAreTried, Asked, SourceSkipped, LedTo, ExtractionRecord
  <2>4. NoneTwice' /\ PassedAreTried'
    BY <1>T, <2>1, <2>2, <2>3, TriedStay DEF PassedAreTried, Asked
  <2> QED
    BY <1>T, <2>1, <2>2, <2>4 DEF StorageIInv, StorageTypeOK, ReadingIsOfOne, FilesComeLast, FoundIsOfOne
<1>2. CASE ReadThisBrowser
  <2> DEFINE later == Append(extraction.tried, LedTo)
  <2>1. /\ extraction.at = "sources" /\ extraction.source <= SourceCount /\ ~SourceSkipped
        /\ UNCHANGED <<leads, profileFiles, allowed>>
        /\ \/ /\ extraction' = [extraction EXCEPT !.at = "browser", !.origin = 1, !.tried = later]
              /\ gathered' = {}
           \/ /\ extraction' = [extraction EXCEPT !.source = @ + 1, !.tried = later]
              /\ gathered' = gathered
    BY <1>2 DEF ReadThisBrowser, BegunFields
  <2>2. extraction.source \in Nat \ {0} /\ extraction.tried \in Seq(Browser)
    BY <1>T DEF ExtractionRecord
  <2>3. StorageIInv'
    <3>1. extraction.source \in 1..SourceCount
      BY <1>T, <2>1, <2>2
    <3>2. LedTo \in Browser /\ \A i \in DOMAIN extraction.tried : extraction.tried[i] # LedTo
      BY <1>T, <2>1, <3>1 DEF SourceSkipped, IsTried, LedTo, StorageTypeOK
    <3>3. /\ later \in Seq(Browser)
          /\ \A i, j \in DOMAIN later : later[i] = later[j] => i = j
          /\ \A i \in DOMAIN extraction.tried : i \in DOMAIN later /\ later[i] = extraction.tried[i]
          /\ \E i \in DOMAIN later : later[i] = LedTo
      <4>1. \A i, j \in DOMAIN extraction.tried : extraction.tried[i] = extraction.tried[j] => i = j
        BY <1>T DEF NoneTwice
      <4> QED
        BY <2>2, <3>2, <4>1, AskedOnce
    <3> HIDE DEF later
    <3>4. extraction' \in ExtractionRecord /\ extraction'.tried = later
      <4>1. CASE extraction' = [extraction EXCEPT !.at = "browser", !.origin = 1, !.tried = later]
        BY <1>T, <3>3, <4>1 DEF ExtractionRecord
      <4>2. CASE extraction' = [extraction EXCEPT !.source = @ + 1, !.tried = later]
        <5> DEFINE next == extraction.source + 1
        <5>1. next \in Nat \ {0}
          BY <2>2
        <5> HIDE DEF next
        <5>2. extraction' = [extraction EXCEPT !.source = next, !.tried = later]
          BY <4>2 DEF next
        <5> QED
          BY <1>T, <3>3, <5>1, <5>2 DEF ExtractionRecord
      <4> QED
        BY <2>1, <4>1, <4>2
    <3>5. NoneTwice'
      BY <3>3, <3>4 DEF NoneTwice
    <3>6. \A b : IsTried(b) \/ b = LedTo => IsTried(b)'
      BY <3>3, <3>4 DEF IsTried
    <3>7. \/ /\ extraction'.at = "browser" /\ extraction'.source = extraction.source /\ gathered' = {}
          \/ /\ extraction'.at = "sources" /\ extraction'.source = extraction.source + 1
             /\ gathered' = gathered
      BY <1>T, <2>1 DEF ExtractionRecord
    <3>8. PassedAreTried'
      BY <1>T, <2>1, <2>2, <3>6, <3>7 DEF PassedAreTried, Asked, LedTo
    <3>9. ReadingIsOfOne'
      <4>1. CASE extraction'.at = "browser"
        <5>1. LedTo' = LedTo
          BY <2>1, <3>7, <4>1 DEF LedTo
        <5>2. IsTried(LedTo)'
          <6>1. \A b : b = LedTo => IsTried(b)'
            BY <3>6
          <6> QED
            BY <5>1, <6>1 DEF IsTried
        <5> QED
          BY <3>1, <3>2, <3>7, <4>1, <5>1, <5>2 DEF ReadingIsOfOne
      <4> QED
        BY <4>1 DEF ReadingIsOfOne
    <3>10. StorageTypeOK'
      BY <1>T, <2>1, <3>4, <3>7 DEF StorageTypeOK
    <3> QED
      BY <3>5, <3>7, <3>8, <3>9, <3>10 DEF StorageIInv, FilesComeLast, FoundIsOfOne
  <2> QED
    BY <2>3
<1>3. CASE ReadOrigin
  <2>1. extraction.at = "browser" /\ UNCHANGED <<leads, profileFiles, allowed>>
    BY <1>3 DEF ReadOrigin
  <2>2. PICK page \in StoredPage :
          LET merged == MergedFields(gathered, page, LedTo)
              ends == FieldsOf(merged) = Field \/ extraction.origin = OriginCount
          IN /\ gathered' = merged
             /\ extraction' = IF ~ends THEN [extraction EXCEPT !.origin = @ + 1]
                           ELSE IF NeededFields \subseteq FieldsOf(merged) THEN [extraction EXCEPT !.at = "found"]
                           ELSE [extraction EXCEPT !.at = "sources", !.source = @ + 1]
    BY <1>3 DEF ReadOrigin
  <2>3. /\ extraction.source \in 1..SourceCount /\ LedTo \in Browser /\ IsTried(LedTo)
        /\ \A f \in gathered : f.of = LedTo
    BY <1>T, <2>1 DEF ReadingIsOfOne
  <2>4. gathered' \subseteq Gathered /\ \A f \in gathered' : f.of = LedTo
    <3> DEFINE names == page \ FieldsOf(gathered)
    <3>1. CASE page = NotLoaded
      BY <1>T, <2>2, <2>3, <3>1 DEF MergedFields, StorageTypeOK
    <3>2. CASE page # NotLoaded
      <4>1. gathered' = gathered \cup Owned(names, LedTo)
        BY <2>2, <3>2 DEF MergedFields
      <4>2. page \subseteq Field
        BY <3>2 DEF StoredPage, Field, NeededFields
      <4>3. names \in SUBSET Field
        BY <4>2
      <4>4. Owned(names, LedTo) \subseteq Gathered /\ \A f \in Owned(names, LedTo) : f.of = LedTo
        BY <2>3, <4>3, OwnedIsOf
      <4> QED
        BY <1>T, <2>3, <4>1, <4>4 DEF StorageTypeOK
    <3> QED
      BY <3>1, <3>2
  <2>5. /\ extraction' \in ExtractionRecord /\ extraction'.tried = extraction.tried
        /\ extraction'.profile = extraction.profile
        /\ \/ extraction'.at = "browser" /\ extraction'.source = extraction.source
           \/ /\ extraction'.at = "found" /\ extraction'.source = extraction.source
              /\ NeededFields \subseteq FieldsOf(gathered')
           \/ extraction'.at = "sources" /\ extraction'.source = extraction.source + 1
    <3> DEFINE ends == FieldsOf(gathered') = Field \/ extraction.origin = OriginCount
               enough == NeededFields \subseteq FieldsOf(gathered')
    <3>1. extraction' = IF ~ends THEN [extraction EXCEPT !.origin = @ + 1]
                        ELSE IF enough THEN [extraction EXCEPT !.at = "found"]
                        ELSE [extraction EXCEPT !.at = "sources", !.source = @ + 1]
      BY <2>2
    <3> HIDE DEF ends
    <3>2. CASE ~ends
      BY <1>T, <2>1, <3>1, <3>2 DEF ExtractionRecord
    <3>3. CASE ends /\ enough
      BY <1>T, <2>1, <3>1, <3>3 DEF ExtractionRecord
    <3>4. CASE ends /\ ~enough
      <4> DEFINE next == extraction.source + 1
      <4>1. next \in Nat \ {0}
        BY <2>3, <1>T
      <4> HIDE DEF next
      <4>2. extraction' = [extraction EXCEPT !.at = "sources", !.source = next]
        BY <3>1, <3>4 DEF next
      <4>3. /\ extraction' \in ExtractionRecord /\ extraction'.tried = extraction.tried
            /\ extraction'.profile = extraction.profile
            /\ extraction'.at = "sources" /\ extraction'.source = next
        BY <1>T, <4>1, <4>2 DEF ExtractionRecord
      <4> QED
        BY <4>3 DEF next
    <3> QED
      BY <3>2, <3>3, <3>4
  <2>6. NoneTwice' /\ (\A b : IsTried(b)' <=> IsTried(b))
    BY <1>T, <2>1, <2>5, TriedStay
  <2>7. PassedAreTried'
    BY <1>T, <2>1, <2>3, <2>5, <2>6 DEF PassedAreTried, Asked, LedTo
  <2>8. ReadingIsOfOne'
    <3>1. CASE extraction'.at = "browser"
      <4>1. LedTo' = LedTo /\ extraction'.source = extraction.source
        BY <2>1, <2>5, <3>1 DEF LedTo
      <4>2. IsTried(LedTo)'
        BY <2>3, <2>6, <4>1 DEF IsTried
      <4> QED
        BY <2>3, <2>4, <4>1, <4>2 DEF ReadingIsOfOne
    <3> QED
      BY <3>1 DEF ReadingIsOfOne
  <2>9. FoundIsOfOne'
    <3>1. CASE extraction'.at = "found"
      <4>1. NeededFields \subseteq FieldsOf(gathered)'
        BY <2>5, <3>1 DEF FieldsOf
      <4>2. LedTo \in Browser \cup Profile /\ LedTo \notin Profile
        BY <2>3, StorageAssumption
      <4> QED
        BY <2>4, <4>1, <4>2 DEF FoundIsOfOne
    <3> QED
      BY <3>1 DEF FoundIsOfOne
  <2> QED
    BY <1>T, <2>1, <2>4, <2>5, <2>6, <2>7, <2>8, <2>9 DEF StorageIInv, StorageTypeOK, FilesComeLast
<1>4. CASE ScanFiles
  <2>1. /\ extraction.at = "sources" /\ extraction.source > SourceCount
        /\ UNCHANGED <<leads, profileFiles, allowed>>
    BY <1>4 DEF ScanFiles
  <2>2. CASE allowed.scan /\ HasFiles # {}
    <3>1. PICK p \in BestFiles :
            gathered' = Owned(profileFiles[p].fields, p) /\ extraction' = [extraction EXCEPT !.at = "found"]
      BY <1>4, <2>2 DEF ScanFiles
    <3>2. p \in HasFiles
      BY DEF BestFiles
    <3> QED
      BY <2>1, <3>1, <3>2, SessionOfProfile
  <2>3. CASE ~(allowed.scan /\ HasFiles # {})
    <3> DEFINE at == IF allowed.launch THEN "launch" ELSE "failed"
    <3>1. extraction' = [extraction EXCEPT !.at = at] /\ gathered' = gathered
      BY <1>4, <2>3 DEF ScanFiles
    <3>2. at \in {"launch", "failed"}
      OBVIOUS
    <3> HIDE DEF at
    <3>3. /\ extraction' \in ExtractionRecord /\ extraction'.at = at
          /\ extraction'.source = extraction.source /\ extraction'.tried = extraction.tried
      BY <1>T, <3>1, <3>2 DEF ExtractionRecord
    <3>4. NoneTwice' /\ PassedAreTried'
      BY <1>T, <2>1, <3>3, TriedStay DEF PassedAreTried, Asked
    <3>5. FilesComeLast'
      BY <2>1, <2>3, <3>3 DEF FilesComeLast, HasFiles
    <3> QED
      BY <1>T, <2>1, <3>1, <3>2, <3>3, <3>4, <3>5
         DEF StorageIInv, StorageTypeOK, ReadingIsOfOne, FoundIsOfOne
  <2> QED
    BY <2>2, <2>3
<1>5. ASSUME NEW p \in Profile, LaunchOver(p)
      PROVE  StorageIInv'
  <2>1. extraction.at = "launch" /\ UNCHANGED <<leads, profileFiles, allowed>>
    BY <1>5 DEF LaunchOver
  <2>2. CASE /\ profileFiles[p] # NoFiles /\ gathered' = Owned(profileFiles[p].fields, p)
             /\ extraction' = [extraction EXCEPT !.at = "found"]
    <3>1. p \in HasFiles /\ ~allowed.scan
      BY <1>T, <2>1, <2>2 DEF HasFiles, FilesComeLast
    <3> QED
      BY <2>1, <2>2, <3>1, SessionOfProfile
  <2>3. CASE extraction' = [extraction EXCEPT !.profile = @ \cup {p}] /\ gathered' = gathered
    <3>1. /\ extraction' \in ExtractionRecord /\ extraction'.at = "launch"
          /\ extraction'.source = extraction.source /\ extraction'.tried = extraction.tried
      BY <1>T, <2>1, <2>3 DEF ExtractionRecord
    <3>2. NoneTwice' /\ PassedAreTried'
      BY <1>T, <2>1, <3>1, TriedStay DEF PassedAreTried, Asked
    <3>3. FilesComeLast'
      BY <1>T, <2>1, <3>1 DEF FilesComeLast, HasFiles
    <3> QED
      BY <1>T, <2>1, <2>3, <3>1, <3>2, <3>3 DEF StorageIInv, StorageTypeOK, ReadingIsOfOne, FoundIsOfOne
  <2> QED
    BY <1>5, <2>2, <2>3 DEF LaunchOver
<1>6. CASE LaunchFails
  <2>1. /\ extraction.at = "launch" /\ extraction' = [extraction EXCEPT !.at = "failed"]
        /\ UNCHANGED <<leads, profileFiles, allowed, gathered>>
    BY <1>6 DEF LaunchFails
  <2>2. /\ extraction' \in ExtractionRecord /\ extraction'.at = "failed"
        /\ extraction'.source = extraction.source /\ extraction'.tried = extraction.tried
    BY <1>T, <2>1 DEF ExtractionRecord
  <2>3. NoneTwice' /\ PassedAreTried'
    BY <1>T, <2>1, <2>2, TriedStay DEF PassedAreTried, Asked
  <2>4. FilesComeLast'
    BY <1>T, <2>1, <2>2 DEF FilesComeLast, HasFiles
  <2> QED
    BY <1>T, <2>1, <2>2, <2>3, <2>4 DEF StorageIInv, StorageTypeOK, ReadingIsOfOne, FoundIsOfOne
<1>7. CASE UNCHANGED storageVars
  BY <1>7 DEF StorageIInv, StorageTypeOK, NoneTwice, PassedAreTried, Asked, IsTried, ReadingIsOfOne,
              LedTo, FilesComeLast, HasFiles, FoundIsOfOne, FieldsOf, storageVars
<1> QED
  BY <1>1, <1>2, <1>3, <1>4, <1>5, <1>6, <1>7 DEF StorageNext

(* A session is of one browser or profile, none is asked twice, and the    *)
(* extraction fails only when all that sources lead to was asked           *)
(* (extractBrowserStorageSnapshot).                                        *)
THEOREM SessionIsOfOne == StorageSpec => []SessionOfOneBrowser
<1>1. ASSUME StorageIInv, extraction.at = "failed", NEW i \in 1..SourceCount, leads[i] # NobodyThere
      PROVE  IsTried(leads[i])
  <2>1. i < extraction.source
    BY <1>1, StorageAssumption DEF StorageIInv, FilesComeLast, StorageTypeOK, ExtractionRecord
  <2> QED
    BY <1>1, <2>1 DEF StorageIInv, PassedAreTried, Asked
<1>2. StorageIInv => SessionOfOneBrowser
  BY <1>1 DEF StorageIInv, NoneTwice, FoundIsOfOne, SessionOfOneBrowser
<1> QED
  BY <1>2, StorageInitIsRight, StorageStepIsRight, PTL DEF StorageSpec

-----------------------------------------------------------------------------
(* TOKENS                                                                  *)

(* The terminal's tokens that were issued by now.                          *)
TokensBy(now) == {Mine(i) : i \in 0..now}
Environments == {None, Opaque, Mine(0), Branded("other", 0)}

(* What the kinds of token are.                                            *)
LEMMA TokenFields ==
  /\ \A now \in Nat : \A t \in TokensBy(now) :
       /\ t.of = "terminal" /\ t.iat \in 0..now /\ t.exp = t.iat + Life /\ t.exp \in Nat \ {0}
       /\ t = Mine(t.iat) /\ t # None /\ t # Opaque
  /\ \A i : Mine(i).of = "terminal" /\ Mine(i).iat = i /\ Mine(i).exp = i + Life
  /\ Branded("other", 0).of = "other" /\ Branded("other", 0).exp = Life
  /\ Opaque.of = "any" /\ Opaque.exp = 0
  /\ None.of = "none" /\ None.exp = 0
<1>1. \A i : Mine(i).of = "terminal" /\ Mine(i).iat = i /\ Mine(i).exp = i + Life
  BY DEF Mine, Branded
<1>2. /\ Branded("other", 0).of = "other" /\ Branded("other", 0).exp = Life
      /\ Opaque.of = "any" /\ Opaque.exp = 0
      /\ None.of = "none" /\ None.exp = 0
  BY BrandedAssumption DEF Branded, Opaque, None
<1>3. ASSUME NEW now \in Nat, NEW t \in TokensBy(now)
      PROVE  /\ t.of = "terminal" /\ t.iat \in 0..now /\ t.exp = t.iat + Life /\ t.exp \in Nat \ {0}
             /\ t = Mine(t.iat) /\ t # None /\ t # Opaque
  <2>1. PICK i \in 0..now : t = Mine(i)
    BY DEF TokensBy
  <2> HIDE DEF Mine
  <2>2. t.of = "terminal" /\ t.iat = i /\ t.exp = i + Life
    BY <1>1, <2>1
  <2> QED
    BY <1>2, <2>1, <2>2, BrandedAssumption
<1> QED
  BY <1>1, <1>2, <1>3

(* The latest of the terminal's tokens is one that expires last.           *)
LEMMA LatestIsLast ==
  ASSUME NEW now \in Nat, NEW S \in SUBSET TokensBy(now), S # {}
  PROVE  Latest(S) \in S /\ \A t \in S : t.exp <= Latest(S).exp
<1> DEFINE Less == OpToRel(<, Nat)
           left(t) == now - t.iat
           lefts == {left(t) : t \in S}
<1>1. \A t \in S : t.iat \in 0..now /\ t.exp = t.iat + Life /\ t.exp \in Nat \ {0}
  BY TokenFields
<1>2. lefts \subseteq Nat /\ lefts # {}
  BY <1>1
<1>3. \A x, y \in Nat : x < y => <<x, y>> \in Less
  BY DEF OpToRel
<1>4. IsWellFoundedOn(Less, Nat)
  BY NatLessThanWellFounded
<1> HIDE DEF Less, lefts
<1>5. PICK m \in lefts : \A n \in lefts : ~(<<n, m>> \in Less)
  BY <1>2, <1>4, WFMin, Zenon
<1>6. PICK t \in S : m = left(t)
  BY DEF lefts
<1>7. \A u \in S : left(u) \in lefts
  BY DEF lefts
<1>8. ASSUME NEW u \in S
      PROVE  u.iat <= t.iat
  <2>1. left(u) \in Nat /\ m \in Nat /\ ~(left(u) < m)
    <3>1. left(u) \in lefts
      BY <1>7
    <3> HIDE DEF left
    <3> QED
      BY <1>2, <1>3, <1>5, <3>1
  <2> QED
    BY <1>1, <1>6, <2>1
<1>9. \A u \in S : t.exp > u.exp \/ (t.exp = u.exp /\ t.iat >= u.iat)
  BY <1>1, <1>8, BrandedAssumption
<1>10. Latest(S) = CHOOSE u \in S : \A w \in S : u.exp > w.exp \/ (u.exp = w.exp /\ u.iat >= w.iat)
  BY DEF Latest
<1>11. Latest(S) \in S /\ \A w \in S : Latest(S).exp > w.exp \/ (Latest(S).exp = w.exp /\ Latest(S).iat >= w.iat)
  BY <1>9, <1>10
<1> QED
  BY <1>1, <1>11, BrandedAssumption

KnownTokens == TokensBy(brandClock) \cup {None}

BrandedTypeOK ==
  /\ brandClock \in Nat \ {0}
  /\ tokenFile \in [version : Nat, at : Nat, token : KnownTokens]
  /\ tokenFileCache \in [at : Nat, seen : Nat, token : KnownTokens]
  /\ environment \in Environments
  /\ runtime \in KnownTokens
  /\ browsers \in [Folder -> SUBSET TokensBy(brandClock)]
  /\ cachedSessions \in [at : Nat, tokens : SUBSET TokensBy(brandClock)]

(* What was read of the file is of one of its writings, of the last one    *)
(* when it was read after it.                                              *)
FileIsKnown ==
  /\ tokenFile.at <= brandClock
  /\ tokenFileCache.seen <= tokenFile.version
  /\ tokenFileCache.seen = tokenFile.version => tokenFileCache.token = tokenFile.token
  /\ tokenFileCache.at > tokenFile.at => tokenFileCache.seen = tokenFile.version
  /\ tokenFileCache.at <= brandClock

BrandedIInv == BrandedTypeOK /\ FileIsKnown /\ LastTokenIsUsed

(* A token of the terminal can be used until it expires.                   *)
LEMMA UsableUntil ==
  ASSUME brandClock \in Nat
  PROVE  /\ \A t \in TokensBy(brandClock) : UsableToken(t) <=> t.exp > brandClock
         /\ ~UsableToken(None)
BY TokenFields DEF UsableToken, MatchesTerminal

(* What a candidate is of a set of the terminal's tokens.                  *)
LEMMA LatestOf ==
  ASSUME brandClock \in Nat, NEW S \in SUBSET TokensBy(brandClock)
  PROVE  /\ S = {} => Latest(S) = None
         /\ S # {} => Latest(S) \in S
         /\ \A t \in S : t.exp <= Latest(S).exp
         /\ (\E t \in S : UsableToken(t)) => UsableToken(Latest(S))
<1>1. CASE S = {}
  BY <1>1 DEF Latest
<1>2. CASE S # {}
  <2>1. Latest(S) \in S /\ \A t \in S : t.exp <= Latest(S).exp
    BY <1>2, LatestIsLast
  <2>2. \A t \in S : t.exp \in Nat
    BY TokenFields
  <2> QED
    BY <1>2, <2>1, <2>2, UsableUntil
<1> QED
  BY <1>1, <1>2

(* The browsers are read until one holds a token that can be used: where   *)
(* any does, what was read does.                                           *)
LEMMA BrowsersReadOn ==
  ASSUME BrandedTypeOK
  PROVE  /\ ReadBrowsers \subseteq TokensBy(brandClock)
         /\ ReadBrowsers \subseteq UNION {browsers[f] : f \in Folder}
         /\ (\E t \in UNION {browsers[f] : f \in Folder} : UsableToken(t)) =>
              \E t \in ReadBrowsers : UsableToken(t)
<1> DEFINE upTo(i) == UNION {browsers[j] : j \in 1..i}
           enough == {i \in Folder : UsableToken(Latest(upTo(i)))}
           first == CHOOSE i \in enough : \A j \in enough : i <= j
<1>1. ReadBrowsers = IF enough = {} THEN upTo(3) ELSE upTo(first)
  BY DEF ReadBrowsers
<1>2. upTo(3) = UNION {browsers[f] : f \in Folder}
  BY DEF Folder
<1>3. ASSUME NEW i \in Folder
      PROVE  upTo(i) \subseteq upTo(3) /\ upTo(i) \subseteq TokensBy(brandClock)
  <2>1. \A j \in 1..i : j \in 1..3 /\ browsers[j] \subseteq TokensBy(brandClock)
    BY DEF Folder, BrandedTypeOK
  <2>2. upTo(i) \subseteq upTo(3)
    BY <2>1
  <2>3. upTo(i) \subseteq TokensBy(brandClock)
    BY <2>1
  <2> QED
    BY <2>2, <2>3
<1>4. CASE enough = {}
  <2>1. ReadBrowsers = UNION {browsers[f] : f \in Folder}
    BY <1>1, <1>2, <1>4
  <2>2. upTo(3) \subseteq TokensBy(brandClock)
    BY <1>3 DEF Folder
  <2>3. ReadBrowsers \subseteq TokensBy(brandClock)
    BY <1>2, <2>1, <2>2
  <2> QED
    BY <2>1, <2>3
<1>5. CASE enough # {}
  <2>1. enough \subseteq Folder
    OBVIOUS
  <2> HIDE DEF upTo
  <2>2. \E i \in enough : \A j \in enough : i <= j
    <3>1. CASE 1 \in enough
      BY <2>1, <3>1 DEF Folder
    <3>2. CASE 1 \notin enough /\ 2 \in enough
      BY <2>1, <3>2 DEF Folder
    <3>3. CASE 1 \notin enough /\ 2 \notin enough
      BY <1>5, <2>1, <3>3 DEF Folder
    <3> QED
      BY <3>1, <3>2, <3>3
  <2>3. first \in enough
    BY <2>2
  <2>4. first \in Folder /\ UsableToken(Latest(upTo(first)))
    BY <2>3
  <2> HIDE DEF first, enough
  <2>5. brandClock \in Nat /\ upTo(first) \in SUBSET TokensBy(brandClock)
    BY <1>3, <2>4 DEF BrandedTypeOK
  <2>6. \E t \in upTo(first) : UsableToken(t)
    BY <2>4, <2>5, LatestOf, UsableUntil
  <2> QED
    BY <1>1, <1>2, <1>3, <1>5, <2>4, <2>5, <2>6
<1> QED
  BY <1>4, <1>5

(* Of the file and the environment the configured token is the one that    *)
(* expires last.                                                           *)
LEMMA ConfiguredIsLast ==
  ASSUME BrandedTypeOK, NEW fileToken \in KnownTokens
  PROVE  /\ Configured(fileToken) \in KnownTokens \cup Environments
         /\ \A t \in {fileToken, environment} :
              (UsableToken(t) /\ t # Opaque) =>
                /\ MatchesTerminal(Configured(fileToken)) /\ t.exp <= Configured(fileToken).exp
                /\ Configured(fileToken).exp > brandClock
<1>1. brandClock \in Nat /\ Life \in Nat \ {0}
  BY BrandedAssumption DEF BrandedTypeOK
<1>2. fileToken = None \/ (fileToken.of = "terminal" /\ fileToken.exp \in Nat /\ fileToken.exp >= Life)
  BY <1>1, TokenFields DEF KnownTokens
<1>3. /\ environment \in {None, Opaque} => environment.exp = 0
      /\ environment \notin {None, Opaque} => environment.exp = Life /\ environment.of \in {"terminal", "other"}
      /\ environment = Mine(0) => environment.of = "terminal"
      /\ environment = Branded("other", 0) => environment.of = "other"
      /\ environment \in Environments
  BY <1>1, TokenFields DEF Environments, BrandedTypeOK
<1>4. Configured(fileToken) \in KnownTokens \cup Environments
  BY <1>3 DEF Configured
<1>5. ASSUME NEW t \in {fileToken, environment}, UsableToken(t), t # Opaque
      PROVE  /\ MatchesTerminal(Configured(fileToken)) /\ t.exp <= Configured(fileToken).exp
             /\ Configured(fileToken).exp > brandClock
  <2>1. t # None /\ t.of # "other" /\ (t.exp > 0 => t.exp > brandClock)
    BY <1>5 DEF UsableToken, MatchesTerminal
  <2>2. CASE fileToken = None
    <3>1. t = environment /\ Configured(fileToken) = environment
      BY <1>5, <2>1, <2>2 DEF Configured
    <3> QED
      BY <1>1, <1>3, <1>5, <2>1, <3>1 DEF MatchesTerminal
  <2>3. CASE fileToken # None /\ environment # None /\ environment.exp > fileToken.exp
    BY <1>1, <1>2, <1>3, <2>3
  <2>4. CASE fileToken # None /\ ~(environment # None /\ environment.exp > fileToken.exp)
    <3>1. Configured(fileToken) = fileToken
      BY <2>4 DEF Configured
    <3>2. environment.exp <= fileToken.exp \/ environment = None
      BY <1>1, <1>2, <1>3, <2>4
    <3>3. t.exp <= fileToken.exp /\ t.exp > brandClock
      BY <1>1, <1>2, <1>3, <1>5, <2>1, <2>4, <3>2
    <3> QED
      BY <1>1, <1>2, <1>3, <1>5, <2>4, <3>1, <3>3 DEF MatchesTerminal
  <2> QED
    BY <2>2, <2>3, <2>4
<1> QED
  BY <1>4, <1>5

(* What a request uses of what it found: its own, configured, token, or    *)
(* the candidate, whichever expires last of those that can be used.        *)
LEMMA ResolvedIsLast ==
  ASSUME BrandedTypeOK, NEW preferred \in BOOLEAN, NEW fileToken \in KnownTokens,
         NEW found \in KnownTokens,
         NEW used,
         LET configured == Configured(fileToken)
             current == IF MatchesTerminal(configured) THEN configured ELSE None
         IN used = IF Refreshed(current, found, preferred) THEN found
                   ELSE IF current # None THEN current
                   ELSE IF found # None THEN found ELSE configured,
         NEW elsewhere,
         ~UsableToken(IF MatchesTerminal(Configured(fileToken)) THEN Configured(fileToken) ELSE None)
           => \A t \in elsewhere : UsableToken(t) => UsableToken(found),
         \A t \in Remembered : t.exp <= found.exp
  PROVE  /\ UsableToken(used)
              \/ \A t \in Remembered \cup {fileToken, environment} \cup elsewhere : t = Opaque \/ ~UsableToken(t)
         /\ (UsableToken(used) /\ used # Opaque) =>
              \A t \in Remembered \cup {fileToken, environment} : UsableToken(t) => t.exp <= used.exp
<1> DEFINE configured == Configured(fileToken)
           current == IF MatchesTerminal(configured) THEN configured ELSE None
           refreshed == Refreshed(current, found, preferred)
<1>1. /\ brandClock \in Nat /\ Life \in Nat \ {0}
      /\ Remembered \subseteq TokensBy(brandClock)
  BY BrandedAssumption DEF BrandedTypeOK, Remembered, KnownTokens
<1>2. /\ used = IF refreshed THEN found ELSE IF current # None THEN current
                ELSE IF found # None THEN found ELSE configured
      /\ ~UsableToken(current) => \A t \in elsewhere : UsableToken(t) => UsableToken(found)
  OBVIOUS
<1>3. /\ configured \in KnownTokens \cup Environments
      /\ \A t \in {fileToken, environment} :
           (UsableToken(t) /\ t # Opaque) =>
             MatchesTerminal(configured) /\ t.exp <= configured.exp /\ configured.exp > brandClock
  BY ConfiguredIsLast
<1>4. current = IF MatchesTerminal(configured) THEN configured ELSE None
  OBVIOUS
<1>5. \A t \in KnownTokens \cup Environments : t.exp \in Nat
  BY <1>1, TokenFields DEF KnownTokens, Environments
<1> HIDE DEF configured, current
<1>6. \A t \in {fileToken, environment} :
        (UsableToken(t) /\ t # Opaque) => UsableToken(current) /\ t.exp <= current.exp
  <2> SUFFICES ASSUME NEW t \in {fileToken, environment}, UsableToken(t), t # Opaque
               PROVE  UsableToken(current) /\ t.exp <= current.exp
    OBVIOUS
  <2>1. current = configured /\ MatchesTerminal(current) /\ t.exp <= current.exp /\ current.exp > brandClock
    BY <1>3, <1>4
  <2>2. current # None
    BY <1>1, <2>1, TokenFields
  <2> QED
    BY <2>1, <2>2 DEF UsableToken
<1>7. current \in KnownTokens \cup Environments /\ current.exp \in Nat /\ found.exp \in Nat
  BY <1>3, <1>4, <1>5 DEF KnownTokens
<1>8. UsableToken(found) <=> found # None /\ found.exp > brandClock
  BY <1>1, UsableUntil, TokenFields DEF KnownTokens
<1>9. UsableToken(current) <=> current # None /\ (current.exp = 0 \/ current.exp > brandClock)
  <2>1. MatchesTerminal(current)
    BY <1>4, TokenFields DEF MatchesTerminal
  <2> QED
    BY <1>7, <2>1 DEF UsableToken
<1>10. \A t \in Remembered : UsableToken(t) => UsableToken(found) /\ t.exp \in Nat
  <2> SUFFICES ASSUME NEW t \in Remembered, UsableToken(t)
               PROVE  UsableToken(found) /\ t.exp \in Nat
    OBVIOUS
  <2>1. t.exp > brandClock /\ t.exp \in Nat /\ t.exp <= found.exp
    BY <1>1, UsableUntil, TokenFields
  <2>2. found # None
    BY <1>1, <2>1, TokenFields
  <2> QED
    BY <1>1, <1>7, <1>8, <2>1, <2>2
<1>11. Opaque.exp = 0
  BY TokenFields
<1>12. refreshed <=>
         /\ found # None /\ found # current
         /\ \/ current = None
            \/ current.exp > 0 /\ current.exp <= brandClock
            \/ /\ found.exp > brandClock \/ found.exp = 0
               /\ IF current = Opaque THEN preferred
                  ELSE found.iat > current.iat \/ found.exp > current.exp
  BY DEF Refreshed
<1> HIDE DEF refreshed
<1>13. found # None => found.exp # 0 /\ found.iat \in Nat /\ found.exp = found.iat + Life
  BY <1>1, TokenFields DEF KnownTokens
<1>14. (UsableToken(current) /\ current # Opaque) => current.iat \in Nat /\ current.exp = current.iat + Life
  <2> SUFFICES ASSUME UsableToken(current), current # Opaque
               PROVE  current.iat \in Nat /\ current.exp = current.iat + Life
    OBVIOUS
  <2>1. current # None /\ current.of # "other"
    BY DEF UsableToken, MatchesTerminal
  <2>2. current \in TokensBy(brandClock) \/ current = Mine(0)
    BY <1>7, <2>1, TokenFields DEF KnownTokens, Environments
  <2> QED
    BY <1>1, <2>2, TokenFields
<1>15. CASE ~UsableToken(current) /\ ~UsableToken(found)
  <2>1. \A t \in Remembered \cup {fileToken, environment} \cup elsewhere : t = Opaque \/ ~UsableToken(t)
    BY <1>2, <1>6, <1>10, <1>15
  <2>2. used.exp \in Nat
    BY <1>2, <1>3, <1>5, <1>7
  <2> QED
    BY <1>11, <2>1, <2>2
<1>16. CASE UsableToken(current) /\ ~UsableToken(found)
  <2>1. ~refreshed
    BY <1>1, <1>7, <1>8, <1>9, <1>12, <1>13, <1>16
  <2>2. used = current
    BY <1>2, <1>9, <1>16, <2>1
  <2> QED
    BY <1>6, <1>7, <1>10, <1>11, <1>16, <2>2
<1>17. CASE ~UsableToken(current) /\ UsableToken(found)
  <2>1. refreshed
    BY <1>1, <1>7, <1>8, <1>9, <1>12, <1>17
  <2> QED
    BY <1>2, <1>6, <1>7, <1>11, <1>17, <2>1
<1>18. CASE UsableToken(current) /\ UsableToken(found) /\ refreshed
  <2>1. used = found
    BY <1>2, <1>18
  <2>2. current.exp <= found.exp
    BY <1>1, <1>7, <1>9, <1>11, <1>12, <1>13, <1>14, <1>18
  <2>3. \A t \in {fileToken, environment} : UsableToken(t) => t.exp <= found.exp
    <3>1. \A t \in {fileToken, environment} : t.exp \in Nat
      BY <1>5 DEF BrandedTypeOK
    <3> QED
      BY <1>6, <1>7, <1>11, <2>2, <3>1
  <2> QED
    BY <1>18, <2>1, <2>3
<1>19. CASE UsableToken(current) /\ UsableToken(found) /\ ~refreshed
  <2>1. used = current
    BY <1>2, <1>9, <1>19
  <2>2. current # Opaque => found.exp <= current.exp
    BY <1>1, <1>7, <1>8, <1>9, <1>12, <1>13, <1>14, <1>19
  <2>3. current # Opaque => \A t \in Remembered : UsableToken(t) => t.exp <= current.exp
    BY <1>7, <1>10, <2>2
  <2> QED
    BY <1>6, <1>7, <1>11, <1>19, <2>1, <2>3
<1> QED
  BY <1>15, <1>16, <1>17, <1>18, <1>19

(* Nothing is read, and nothing obtained, when the process starts.         *)
LEMMA BrandedInitIsRight == BrandedInit => BrandedIInv
<1> SUFFICES ASSUME BrandedInit
             PROVE  BrandedIInv
  OBVIOUS
<1>1. Mine(0) \in TokensBy(1) /\ brandClock = 1
  BY DEF BrandedInit, TokensBy
<1>2. PICK t \in {None, Mine(0)} : tokenFile = [version |-> 1, at |-> 0, token |-> t]
  BY DEF BrandedInit
<1>3. t \in KnownTokens /\ None \in KnownTokens
  BY <1>1 DEF KnownTokens
<1>4. BrandedTypeOK
  BY <1>1, <1>2, <1>3 DEF BrandedInit, BrandedTypeOK, Environments, KnownTokens
<1>5. FileIsKnown
  BY <1>1, <1>2 DEF BrandedInit, FileIsKnown
<1> QED
  BY <1>4, <1>5 DEF BrandedInit, BrandedIInv, LastTokenIsUsed

(* A request reads the file when it is due, and then knows what is in it.  *)
LEMMA FileIsReadInTime ==
  ASSUME BrandedTypeOK, FileIsKnown
  PROVE  LET seen == FileRead
         IN /\ seen \in [at : Nat, seen : Nat, token : KnownTokens]
            /\ seen.at <= brandClock /\ seen.seen <= tokenFile.version
            /\ seen.seen = tokenFile.version => seen.token = tokenFile.token
            /\ seen.at > tokenFile.at => seen.seen = tokenFile.version
            /\ brandClock >= tokenFile.at + FileInterval => seen.token = tokenFile.token
<1> DEFINE token == IF tokenFileCache.seen = tokenFile.version THEN tokenFileCache.token ELSE tokenFile.token
           read == [at |-> brandClock, seen |-> tokenFile.version, token |-> token]
<1>1. /\ tokenFileCache \in [at : Nat, seen : Nat, token : KnownTokens]
      /\ tokenFile \in [version : Nat, at : Nat, token : KnownTokens]
      /\ brandClock \in Nat /\ FileInterval \in Nat
  BY BrandedAssumption DEF BrandedTypeOK
<1>2. CASE tokenFileCache.at > 0 /\ brandClock - tokenFileCache.at < FileInterval
  <2>1. FileRead = tokenFileCache
    BY <1>2 DEF FileRead
  <2>2. brandClock >= tokenFile.at + FileInterval => tokenFileCache.at > tokenFile.at
    BY <1>1, <1>2
  <2> QED
    BY <1>1, <2>1, <2>2 DEF FileIsKnown
<1>3. CASE ~(tokenFileCache.at > 0 /\ brandClock - tokenFileCache.at < FileInterval)
  <2>1. FileRead = read
    BY <1>3 DEF FileRead
  <2>2. token = tokenFile.token
    BY DEF FileIsKnown
  <2> QED
    BY <1>1, <2>1, <2>2
<1> QED
  BY <1>2, <1>3

(* A token is issued now, and none that is known expires, when time or     *)
(* another token comes.                                                    *)
LEMMA TokensGrow ==
  ASSUME brandClock \in Nat
  PROVE  /\ TokensBy(brandClock) \subseteq TokensBy(brandClock + 1)
         /\ Mine(brandClock) \in TokensBy(brandClock)
BY DEF TokensBy

(* A request keeps all of it: what it reads is the terminal's, and what it *)
(* uses is the last to expire.                                             *)
LEMMA ResolveIsRight ==
  ASSUME BrandedIInv, NEW preferred \in BOOLEAN, ResolveToken(preferred)
  PROVE  BrandedIInv'
<1> DEFINE fileSeen == FileRead
           configured == Configured(fileSeen.token)
           current == IF MatchesTerminal(configured) THEN configured ELSE None
           first == SessionsRead(FALSE)
           candidate == Candidate(first)
           again == IF UsableToken(current) \/ UsableToken(candidate)
                    THEN Expiring(current) \/ Expiring(candidate) ELSE TRUE
           more == [at |-> brandClock, tokens |-> first.tokens \union Remembered \union ReadBrowsers]
           sessions == IF again THEN more ELSE first
           latest == Candidate(sessions)
           found == IF latest = None THEN candidate ELSE latest
           used == IF Refreshed(current, found, preferred) THEN found
                   ELSE IF current # None THEN current
                   ELSE IF found # None THEN found ELSE configured
<1>1. /\ tokenFileCache' = fileSeen /\ cachedSessions' = sessions /\ answer' = [token |-> used]
      /\ UNCHANGED <<brandClock, tokenFile, environment, runtime, browsers, issued>>
  BY DEF ResolveToken
<1>2. BrandedTypeOK /\ FileIsKnown
  BY DEF BrandedIInv
<1>3. /\ fileSeen \in [at : Nat, seen : Nat, token : KnownTokens]
      /\ fileSeen.at <= brandClock /\ fileSeen.seen <= tokenFile.version
      /\ fileSeen.seen = tokenFile.version => fileSeen.token = tokenFile.token
      /\ fileSeen.at > tokenFile.at => fileSeen.seen = tokenFile.version
      /\ brandClock >= tokenFile.at + FileInterval => fileSeen.token = tokenFile.token
  BY <1>2, FileIsReadInTime
<1>4. /\ brandClock \in Nat /\ Remembered \subseteq TokensBy(brandClock)
      /\ ReadBrowsers \subseteq TokensBy(brandClock)
      /\ cachedSessions \in [at : Nat, tokens : SUBSET TokensBy(brandClock)]
  BY <1>2, BrowsersReadOn DEF BrandedTypeOK, Remembered, KnownTokens
<1>5. first \in [at : Nat, tokens : SUBSET TokensBy(brandClock)]
  <2> DEFINE read == [at |-> brandClock, tokens |-> cachedSessions.tokens \union Remembered \union ReadBrowsers]
  <2>1. first = cachedSessions \/ first = read
    BY DEF SessionsRead
  <2>2. read \in [at : Nat, tokens : SUBSET TokensBy(brandClock)]
    BY <1>4
  <2> QED
    BY <1>4, <2>1, <2>2
<1> HIDE DEF fileSeen, first
<1>6. more \in [at : Nat, tokens : SUBSET TokensBy(brandClock)]
  BY <1>4, <1>5
<1>7. /\ sessions \in [at : Nat, tokens : SUBSET TokensBy(brandClock)]
      /\ first.tokens \subseteq sessions.tokens
      /\ again => ReadBrowsers \subseteq sessions.tokens
  <2>1. first.tokens \subseteq more.tokens /\ ReadBrowsers \subseteq more.tokens
    OBVIOUS
  <2> HIDE DEF again, more
  <2> QED
    BY <1>5, <1>6, <2>1
<1> DEFINE all == Remembered \cup sessions.tokens
           before == Remembered \cup first.tokens
<1>8. latest = Latest(all) /\ candidate = Latest(before)
  BY DEF Candidate
<1>9. ~UsableToken(current) /\ ~UsableToken(candidate) => again
  OBVIOUS
<1>10. found = IF latest = None THEN candidate ELSE latest
  OBVIOUS
<1>11. all \in SUBSET TokensBy(brandClock) /\ before \in SUBSET TokensBy(brandClock) /\ before \subseteq all
  <2> HIDE DEF sessions
  <2> QED
    BY <1>4, <1>5, <1>7
<1>12. (again => ReadBrowsers \subseteq all) /\ Remembered \subseteq all
  BY <1>7
<1> HIDE DEF all, before, again, more, sessions, latest, candidate
<1>13. /\ (all = {} => latest = None) /\ (all # {} => latest \in all)
       /\ (\A t \in all : t.exp <= latest.exp)
       /\ (\E t \in all : UsableToken(t)) => UsableToken(latest)
  BY <1>4, <1>8, <1>11, LatestOf
<1>14. (before = {} => candidate = None) /\ (before # {} => candidate \in before)
  BY <1>4, <1>8, <1>11, LatestOf
<1>15. found = latest /\ found \in KnownTokens
  <2>1. CASE all = {}
    BY <1>10, <1>11, <1>13, <1>14, <2>1 DEF KnownTokens
  <2>2. CASE all # {}
    <3>1. latest \in TokensBy(brandClock)
      BY <1>11, <1>13, <2>2
    <3>2. latest # None
      BY <1>4, <3>1, TokenFields
    <3> QED
      BY <1>10, <3>1, <3>2 DEF KnownTokens
  <2> QED
    BY <2>1, <2>2
<1>16. UsableToken(candidate) => UsableToken(found)
  BY <1>4, <1>11, <1>13, <1>14, <1>15, UsableUntil
<1> DEFINE elsewhere == UNION {browsers[f] : f \in Folder}
<1>17. ~UsableToken(current) => \A t \in elsewhere : UsableToken(t) => UsableToken(found)
  <2> SUFFICES ASSUME ~UsableToken(current), ~UsableToken(found), NEW t \in elsewhere, UsableToken(t)
               PROVE  FALSE
    OBVIOUS
  <2>1. again
    BY <1>9, <1>16
  <2>2. \E u \in ReadBrowsers : UsableToken(u)
    BY <1>2, BrowsersReadOn
  <2> QED
    BY <1>12, <1>13, <1>15, <2>1, <2>2
<1>18. \A t \in Remembered : t.exp <= found.exp
  BY <1>12, <1>13, <1>15
<1>19. fileSeen.token \in KnownTokens
  BY <1>3
<1> HIDE DEF elsewhere, found
<1>20. /\ UsableToken(used)
            \/ \A t \in Remembered \cup {fileSeen.token, environment} \cup elsewhere : t = Opaque \/ ~UsableToken(t)
       /\ (UsableToken(used) /\ used # Opaque) =>
            \A t \in Remembered \cup {fileSeen.token, environment} : UsableToken(t) => t.exp <= used.exp
  BY <1>2, <1>15, <1>17, <1>18, <1>19, ResolvedIsLast
<1> HIDE DEF used
<1>21. Remembered' = Remembered /\ elsewhere' = elsewhere /\ \A t : UsableToken(t)' <=> UsableToken(t)
  BY <1>1 DEF Remembered, elsewhere, UsableToken
<1>22. LastTokenIsUsed'
  BY <1>1, <1>3, <1>20, <1>21 DEF LastTokenIsUsed, elsewhere
<1>23. BrandedTypeOK'
  BY <1>1, <1>2, <1>3, <1>7 DEF BrandedTypeOK, KnownTokens
<1>24. FileIsKnown'
  BY <1>1, <1>2, <1>3 DEF FileIsKnown
<1> QED
  BY <1>22, <1>23, <1>24 DEF BrandedIInv

(* Requests, sign-ins, the file, browsers and time keep it.                *)
LEMMA BrandedStepIsRight == BrandedIInv /\ [BrandedNext]_brandedVars => BrandedIInv'
<1> SUFFICES ASSUME BrandedIInv, [BrandedNext]_brandedVars
             PROVE  BrandedIInv'
  OBVIOUS
<1>T. BrandedTypeOK /\ FileIsKnown /\ brandClock \in Nat
  BY DEF BrandedIInv, BrandedTypeOK
<1>M. TokensBy(brandClock) \subseteq TokensBy(brandClock + 1) /\ Mine(brandClock) \in TokensBy(brandClock)
  BY <1>T, TokensGrow
<1>1. ASSUME NEW preferred \in BOOLEAN, ResolveToken(preferred)
      PROVE  BrandedIInv'
  BY <1>1, ResolveIsRight
<1>2. CASE Remember
  <2> DEFINE tokens == Remembered \cup {Mine(brandClock)}
  <2>1. /\ answer' = None /\ runtime' = Latest(tokens)
        /\ UNCHANGED <<brandClock, tokenFile, tokenFileCache, environment, browsers, cachedSessions>>
    BY <1>2 DEF Remember, Issued
  <2>2. tokens \in SUBSET TokensBy(brandClock) /\ tokens # {}
    BY <1>T, <1>M DEF Remembered, BrandedTypeOK, KnownTokens
  <2>3. Latest(tokens) \in TokensBy(brandClock)
    BY <1>T, <2>2, LatestIsLast
  <2> QED
    BY <1>T, <2>1, <2>3 DEF BrandedIInv, BrandedTypeOK, KnownTokens, FileIsKnown, LastTokenIsUsed
<1>3. CASE RenewFile
  <2> DEFINE written == [version |-> tokenFile.version + 1, at |-> brandClock, token |-> Mine(brandClock)]
  <2>1. /\ answer' = None /\ tokenFile' = written
        /\ UNCHANGED <<brandClock, tokenFileCache, environment, runtime, browsers, cachedSessions>>
    BY <1>3 DEF RenewFile, Issued
  <2>2. /\ written \in [version : Nat, at : Nat, token : KnownTokens]
        /\ written.version = tokenFile.version + 1 /\ written.at = brandClock
    BY <1>T, <1>M DEF BrandedTypeOK, KnownTokens
  <2> HIDE DEF written
  <2> QED
    BY <1>T, <2>1, <2>2 DEF BrandedIInv, BrandedTypeOK, KnownTokens, FileIsKnown, LastTokenIsUsed
<1>U. CASE FileUnreadable
  <2> DEFINE unread == [version |-> tokenFile.version + 1, at |-> brandClock, token |-> None]
  <2>1. /\ answer' = None /\ tokenFile' = unread
        /\ UNCHANGED <<brandClock, tokenFileCache, environment, runtime, browsers, cachedSessions>>
    BY <1>U DEF FileUnreadable
  <2>2. /\ unread \in [version : Nat, at : Nat, token : KnownTokens]
        /\ unread.version = tokenFile.version + 1 /\ unread.at = brandClock
    BY <1>T DEF BrandedTypeOK, KnownTokens
  <2> HIDE DEF unread
  <2> QED
    BY <1>T, <2>1, <2>2 DEF BrandedIInv, BrandedTypeOK, KnownTokens, FileIsKnown, LastTokenIsUsed
<1>4. ASSUME NEW f \in Folder, BrowserGets(f)
      PROVE  BrandedIInv'
  <2>1. /\ answer' = None /\ browsers' = [browsers EXCEPT ![f] = {Mine(brandClock)}]
        /\ UNCHANGED <<brandClock, tokenFile, tokenFileCache, environment, runtime, cachedSessions>>
    BY <1>4 DEF BrowserGets, Issued
  <2>2. browsers' \in [Folder -> SUBSET TokensBy(brandClock)]
    BY <1>T, <1>M, <2>1 DEF BrandedTypeOK
  <2> QED
    BY <1>T, <2>1, <2>2 DEF BrandedIInv, BrandedTypeOK, KnownTokens, FileIsKnown, LastTokenIsUsed
<1>5. CASE ClockMoves
  <2>1. /\ brandClock' = brandClock + 1 /\ answer' = None
        /\ UNCHANGED <<tokenFile, tokenFileCache, environment, runtime, browsers, cachedSessions, issued>>
    BY <1>5 DEF ClockMoves
  <2>2. KnownTokens \subseteq KnownTokens' /\ TokensBy(brandClock) \subseteq TokensBy(brandClock)'
    BY <1>M, <2>1 DEF KnownTokens
  <2>3. BrandedTypeOK'
    BY <1>T, <2>1, <2>2 DEF BrandedTypeOK
  <2>4. FileIsKnown'
    BY <1>T, <2>1 DEF FileIsKnown, BrandedTypeOK
  <2> QED
    BY <2>1, <2>3, <2>4 DEF BrandedIInv, LastTokenIsUsed
<1>6. CASE UNCHANGED brandedVars
  BY <1>6 DEF BrandedIInv, BrandedTypeOK, KnownTokens, FileIsKnown, LastTokenIsUsed, Remembered,
              UsableToken, brandedVars
<1> QED
  BY <1>1, <1>2, <1>3, <1>U, <1>4, <1>5, <1>6 DEF BrandedNext

(* A request uses, of all tokens the file, the environment, a sign-in or a *)
(* browser holds, one that can be used if there is any, never an older one *)
(* than its process knows, and knows the file when it was due to be looked *)
(* at (resolveCostamarProviderContext).                                    *)
THEOREM LastTokenUsed == BrandedSpec => []LastTokenIsUsed
<1>1. BrandedIInv => LastTokenIsUsed
  BY DEF BrandedIInv
<1> QED
  BY <1>1, BrandedInitIsRight, BrandedStepIsRight, PTL DEF BrandedSpec

-----------------------------------------------------------------------------
(* THE BROWSERS OF A WARM-UP, AND THE TABS OF A WORKER                     *)

CostamarAttempt == [step : {"rest", "prompt", "http", "live", "launch", "isolated", "settle", "poll"}, until : Nat]
CostamarAsker == [step : {"idle", "waiting", "resolved", "failed"},
                  on : Attempt \cup {NoAttempt}, token : Nat, retried : BOOLEAN]

CostamarTypes ==
  /\ tick \in 0..MaxTick /\ known \in Nat /\ credentials \in BOOLEAN
  /\ pending \in Attempt \cup {NoAttempt}
  /\ attempt \in [Attempt -> CostamarAttempt]
  /\ launch \in [Attempt -> {"none", "launching", "late", "open"}]
  /\ profile \subseteq Attempt
  /\ asker \in [CostamarCaller -> CostamarAsker]

(* Only the warm-up that is pending runs: who comes later waits on it.     *)
OnePending == \A a \in Attempt : attempt[a].step # "rest" => pending = a

CostamarIInv == CostamarTypes /\ OnePending /\ NoBrowserLeft

(* With no browser and no attempt, the invariant holds.                    *)
LEMMA CostamarInitHolds == CostamarInit => CostamarIInv
<1> SUFFICES ASSUME CostamarInit PROVE CostamarIInv
  OBVIOUS
<1>1. CostamarTypes
  BY CostamarAssumption
  DEF CostamarInit, CostamarTypes, CostamarAttempt, CostamarAsker, Rest, Idle, NoToken
<1>2. OnePending /\ NoBrowserLeft
  BY DEF CostamarInit, OnePending, NoBrowserLeft, Rest
<1> QED
  BY <1>1, <1>2 DEF CostamarIInv

(* A search that waits, on the warm-up in progress or on its own.          *)
LEMMA WaitsOn ==
  ASSUME CostamarTypes, NEW c \in CostamarCaller, NEW a \in Attempt, NEW again \in BOOLEAN,
         asker' = [asker EXCEPT ![c].step = "waiting", ![c].on = a, ![c].retried = again]
  PROVE  asker' \in [CostamarCaller -> CostamarAsker] /\ asker'[c].on = a
<1> DEFINE new == [asker[c] EXCEPT !.step = "waiting", !.on = a, !.retried = again]
<1>1. asker[c] \in CostamarAsker /\ asker \in [CostamarCaller -> CostamarAsker]
  BY DEF CostamarTypes
<1>2. new \in CostamarAsker /\ new.on = a
  BY <1>1 DEF CostamarAsker
<1>3. asker' = [asker EXCEPT ![c] = new]
  BY <1>1
<1> HIDE DEF new
<1> QED
  BY <1>1, <1>2, <1>3, ZenonT(60)

(* What a search does when it warms the session up keeps the rest.         *)
LEMMA WarmKeeps ==
  ASSUME CostamarIInv, NEW c \in CostamarCaller, NEW force \in BOOLEAN, NEW again \in BOOLEAN,
         Warm(c, force, again), UNCHANGED <<tick, known, credentials, launch, profile>>
  PROVE  CostamarIInv'
<1>0. CostamarTypes /\ OnePending /\ NoBrowserLeft
  BY DEF CostamarIInv
<1>1. ASSUME UNCHANGED <<pending, recent, attempt>>,
             \/ asker' = [asker EXCEPT ![c] = [step |-> "resolved", on |-> NoAttempt, token |-> known, retried |-> again]]
             \/ /\ pending # NoAttempt
                /\ asker' = [asker EXCEPT ![c].step = "waiting", ![c].on = pending, ![c].retried = again]
      PROVE  CostamarIInv'
  <2>1. CASE asker' = [asker EXCEPT ![c] = [step |-> "resolved", on |-> NoAttempt, token |-> known, retried |-> again]]
    <3>1. [step |-> "resolved", on |-> NoAttempt, token |-> known, retried |-> again] \in CostamarAsker
      BY <1>0 DEF CostamarTypes, CostamarAsker
    <3>2. asker' \in [CostamarCaller -> CostamarAsker]
      BY <2>1, <3>1, <1>0 DEF CostamarTypes
    <3> QED
      BY <1>0, <1>1, <3>2 DEF CostamarIInv, CostamarTypes, OnePending, NoBrowserLeft
  <2>2. CASE /\ pending \in Attempt
             /\ asker' = [asker EXCEPT ![c].step = "waiting", ![c].on = pending, ![c].retried = again]
    <3>2. asker' \in [CostamarCaller -> CostamarAsker]
      BY <2>2, WaitsOn, <1>0
    <3> QED
      BY <1>0, <1>1, <3>2 DEF CostamarIInv, CostamarTypes, OnePending, NoBrowserLeft
  <2> QED
    BY <1>0, <1>1, <2>1, <2>2 DEF CostamarTypes
<1>2. ASSUME NEW a \in Attempt, Begins(a), pending = NoAttempt,
             asker' = [asker EXCEPT ![c].step = "waiting", ![c].on = a, ![c].retried = again]
      PROVE  CostamarIInv'
  <2>1. asker' \in [CostamarCaller -> CostamarAsker]
    BY <1>0, <1>2, WaitsOn
  <2>2. \A b \in Attempt : attempt[b].step = "rest"
    BY <1>0, <1>2, CostamarAssumption DEF OnePending
  <2>3. attempt' \in [Attempt -> CostamarAttempt] /\ \A b \in Attempt \ {a} : attempt'[b] = attempt[b]
    BY <1>0, <1>2 DEF Begins, CostamarTypes, CostamarAttempt
  <2>4. pending' = a /\ launch[a] = "none"
    BY <1>2 DEF Begins
  <2> QED
    BY <1>0, <2>1, <2>2, <2>3, <2>4 DEF CostamarIInv, CostamarTypes, OnePending, NoBrowserLeft
<1> QED
  BY <1>1, <1>2 DEF Warm

(* A warm-up that ends frees the place of the one in progress.             *)
LEMMA EndsKeep ==
  ASSUME CostamarTypes, OnePending, NEW a \in Attempt, attempt[a].step # "rest", Ends(a), known' \in Nat
  PROVE  /\ attempt' \in [Attempt -> CostamarAttempt] /\ attempt'[a].step = "rest"
         /\ \A b \in Attempt : attempt'[b].step = "rest"
         /\ pending' = NoAttempt
         /\ asker' \in [CostamarCaller -> CostamarAsker]
<1>1. \A b \in Attempt \ {a} : attempt[b].step = "rest"
  BY DEF OnePending
<1>2. Rest \in CostamarAttempt /\ Rest.step = "rest"
  BY DEF Rest, CostamarAttempt
<1>3. attempt' = [attempt EXCEPT ![a] = Rest] /\ pending' = NoAttempt
  BY DEF Ends
<1>4. ASSUME NEW c \in CostamarCaller
      PROVE  [asker[c] EXCEPT !.step = "resolved", !.on = NoAttempt, !.token = known'] \in CostamarAsker
  BY DEF CostamarTypes, CostamarAsker
<1>5. asker' \in [CostamarCaller -> CostamarAsker]
  BY <1>4 DEF Ends, CostamarTypes
<1> QED
  BY <1>1, <1>2, <1>3, <1>5 DEF CostamarTypes

(* Each step of an attempt to sign in keeps the invariant, with the        *)
(* browser it launched and gave up.                                        *)
LEMMA WarmupStepKeeps ==
  ASSUME CostamarIInv, NEW a \in Attempt, WarmupStep(a)
  PROVE  CostamarIInv'
<1>0. CostamarTypes /\ OnePending /\ NoBrowserLeft
  BY DEF CostamarIInv
<1>N. Found \in Nat /\ \A n \in Nat : n + WarmupTimeout \in Nat
  BY <1>0, CostamarAssumption DEF Found, CostamarTypes
<1>A. AfterHttp \in {"settle", "live", "launch"}
  BY CostamarAssumption DEF AfterHttp
<1>P. credentials' \in BOOLEAN /\ profile' \subseteq Attempt
  BY <1>0
  DEF CostamarTypes, WarmupStep, PromptAnswered, SignInHttp, SignInLive, LaunchBrowser, BrowserLaunched,
      SignInIsolated, CloseIsolated, AwaitRenewal, PollEnded
(* Where a warm-up's end, and where its next step, leaves the invariant. *)
<1>E. ASSUME attempt[a].step # "rest", Ends(a), known' \in Nat, UNCHANGED tick,
             launch' \in [Attempt -> {"none", "launching", "late", "open"}],
             \A b \in Attempt : launch'[b] \notin {"open", "launching"},
             \A b \in Attempt : b \in profile' => launch'[b] # "none"
      PROVE  CostamarIInv'
  BY <1>0, <1>P, <1>E, EndsKeep DEF CostamarIInv, CostamarTypes, OnePending, NoBrowserLeft
<1>M. ASSUME attempt[a].step # "rest", UNCHANGED <<tick, pending, asker>>, known' \in Nat,
             attempt' \in [Attempt -> CostamarAttempt],
             \A b \in Attempt \ {a} : attempt'[b] = attempt[b] /\ launch'[b] = launch[b],
             attempt'[a].step # "rest",
             launch' \in [Attempt -> {"none", "launching", "late", "open"}],
             profile' \ {a} = profile \ {a},
             launch'[a] = "open" => attempt'[a].step = "isolated",
             launch'[a] = "launching" => attempt'[a].step = "launch",
             a \in profile' => launch'[a] # "none"
      PROVE  CostamarIInv'
  BY <1>0, <1>P, <1>M DEF CostamarIInv, CostamarTypes, OnePending, NoBrowserLeft
<1>L. ASSUME attempt[a].step # "rest", attempt[a].step \notin {"launch", "isolated"}
      PROVE  \A b \in Attempt : launch[b] \notin {"open", "launching"}
  BY <1>0, <1>L DEF OnePending, NoBrowserLeft
<1>1. CASE PromptAnswered(a)
  <2>1. attempt' \in [Attempt -> CostamarAttempt] /\ attempt'[a].step = "http"
    BY <1>0, <1>1 DEF PromptAnswered, CostamarTypes, CostamarAttempt
  <2> QED
    BY <1>0, <1>1, <1>L, <1>M, <2>1 DEF PromptAnswered, CostamarTypes, NoBrowserLeft
<1>2. CASE SignInHttp(a)
  <2>1. CASE known' = Found /\ Ends(a)
    BY <1>0, <1>2, <1>N, <1>L, <1>E, <2>1 DEF SignInHttp, CostamarTypes, NoBrowserLeft
  <2>2. CASE attempt' = [attempt EXCEPT ![a].step = AfterHttp] /\ UNCHANGED <<known, pending, asker>>
    <3>1. attempt' \in [Attempt -> CostamarAttempt] /\ attempt'[a].step = AfterHttp
      BY <1>0, <1>A, <2>2 DEF CostamarTypes, CostamarAttempt
    <3> QED
      BY <1>0, <1>2, <1>A, <1>L, <1>M, <2>2, <3>1 DEF SignInHttp, CostamarTypes, NoBrowserLeft
  <2> QED
    BY <1>2, <2>1, <2>2 DEF SignInHttp
<1>3. CASE SignInLive(a)
  <2>1. CASE known' = Found /\ Ends(a)
    BY <1>0, <1>3, <1>N, <1>L, <1>E, <2>1 DEF SignInLive, CostamarTypes, NoBrowserLeft
  <2>2. CASE attempt' = [attempt EXCEPT ![a].step = "launch"] /\ UNCHANGED <<known, pending, asker>>
    <3>1. attempt' \in [Attempt -> CostamarAttempt] /\ attempt'[a].step = "launch"
      BY <1>0, <2>2 DEF CostamarTypes, CostamarAttempt
    <3> QED
      BY <1>0, <1>3, <1>L, <1>M, <2>2, <3>1 DEF SignInLive, CostamarTypes, NoBrowserLeft
  <2> QED
    BY <1>3, <2>1, <2>2 DEF SignInLive
<1>4. CASE LaunchBrowser(a)
  BY <1>0, <1>4, <1>M DEF LaunchBrowser, CostamarTypes, NoBrowserLeft
<1>5. CASE BrowserLaunched(a)
  <2>1. attempt[a].step = "launch"
    BY <1>0, <1>5 DEF BrowserLaunched, NoBrowserLeft
  <2>2. \/ launch' = [launch EXCEPT ![a] = "open"] /\ attempt' = [attempt EXCEPT ![a].step = "isolated"] /\ UNCHANGED profile
        \/ launch' = [launch EXCEPT ![a] = "none"] /\ attempt' = [attempt EXCEPT ![a].step = "settle"] /\ profile' = profile \ {a}
        \/ launch' = [launch EXCEPT ![a] = "late"] /\ attempt' = [attempt EXCEPT ![a].step = "settle"] /\ UNCHANGED profile
    BY <1>5 DEF BrowserLaunched
  <2>3. attempt' \in [Attempt -> CostamarAttempt]
    BY <1>0, <2>2 DEF CostamarTypes, CostamarAttempt
  <2> QED
    BY <1>0, <1>5, <1>M, <2>1, <2>2, <2>3, SMTT(30) DEF BrowserLaunched, CostamarTypes, CostamarAttempt, NoBrowserLeft
<1>6. CASE SignInIsolated(a)
  <2>1. launch' = [launch EXCEPT ![a] = "none"] /\ profile' = profile \ {a}
    BY <1>6 DEF SignInIsolated, CloseIsolated
  <2>2. attempt[a].step = "isolated" /\ UNCHANGED tick
    BY <1>6 DEF SignInIsolated
  <2>3. \A b \in Attempt \ {a} : launch[b] \notin {"open", "launching"}
    BY <1>0, <2>2 DEF OnePending, NoBrowserLeft
  <2>4. CASE known' = Found /\ Ends(a)
    BY <1>0, <1>N, <1>E, <2>1, <2>2, <2>3, <2>4 DEF CostamarTypes, NoBrowserLeft
  <2>5. CASE attempt' = [attempt EXCEPT ![a].step = "settle"] /\ UNCHANGED <<known, pending, asker>>
    <3>1. attempt' \in [Attempt -> CostamarAttempt] /\ attempt'[a].step = "settle"
      BY <1>0, <2>5 DEF CostamarTypes, CostamarAttempt
    <3> QED
      BY <1>0, <1>M, <2>1, <2>2, <2>5, <3>1 DEF CostamarTypes, NoBrowserLeft
  <2> QED
    BY <1>6, <2>4, <2>5 DEF SignInIsolated
<1>7. CASE AwaitRenewal(a)
  <2>1. PICK until \in {tick + WarmupTimeout, MaxTick} :
           attempt' = [attempt EXCEPT ![a] = [step |-> "poll", until |-> until]]
    BY <1>7 DEF AwaitRenewal
  <2>2. until \in Nat
    BY <1>0, <1>N, CostamarAssumption DEF CostamarTypes
  <2>3. attempt' \in [Attempt -> CostamarAttempt] /\ attempt'[a].step = "poll"
    BY <1>0, <2>1, <2>2 DEF CostamarTypes, CostamarAttempt
  <2> QED
    BY <1>0, <1>7, <1>L, <1>M, <2>1, <2>3 DEF AwaitRenewal, CostamarTypes, NoBrowserLeft
<1>8. CASE PollEnded(a)
  BY <1>0, <1>8, <1>L, <1>E DEF PollEnded, CostamarTypes, NoBrowserLeft
<1> QED
  BY <1>1, <1>2, <1>3, <1>4, <1>5, <1>6, <1>7, <1>8 DEF WarmupStep

(* Every step of the Costamar session keeps its invariant.                 *)
LEMMA CostamarStep == CostamarIInv /\ [CostamarNext]_costamarVars => CostamarIInv'
<1> SUFFICES ASSUME CostamarIInv, [CostamarNext]_costamarVars PROVE CostamarIInv'
  OBVIOUS
<1>0. CostamarTypes /\ OnePending /\ NoBrowserLeft
  BY DEF CostamarIInv
<1>1. ASSUME NEW c \in CostamarCaller, ResolveContext(c) \/ TokenRefused(c) PROVE CostamarIInv'
  BY <1>1, WarmKeeps DEF ResolveContext, TokenRefused
<1>2. ASSUME NEW c \in CostamarCaller, CostamarSearchEnds(c) PROVE CostamarIInv'
  <2>1. Idle \in CostamarAsker
    BY DEF Idle, CostamarAsker, NoToken
  <2>2. asker' \in [CostamarCaller -> CostamarAsker]
    BY <1>0, <1>2, <2>1 DEF CostamarSearchEnds, CostamarTypes
  <2> QED
    BY <1>0, <1>2, <2>2 DEF CostamarSearchEnds, CostamarIInv, CostamarTypes, OnePending, NoBrowserLeft
<1>3. ASSUME NEW a \in Attempt, WarmupStep(a) PROVE CostamarIInv'
  BY <1>3, WarmupStepKeeps
<1>4. ASSUME NEW a \in Attempt, LateLaunch(a) PROVE CostamarIInv'
  BY <1>0, <1>4 DEF LateLaunch, CostamarIInv, CostamarTypes, OnePending, NoBrowserLeft
<1>5. CASE CostamarTick \/ TokenRenewed
  BY <1>0, <1>5, CostamarAssumption
  DEF CostamarTick, TokenRenewed, Found, CostamarIInv, CostamarTypes, OnePending, NoBrowserLeft
<1>6. CASE UNCHANGED costamarVars
  BY <1>0, <1>6 DEF costamarVars, CostamarIInv, CostamarTypes, OnePending, NoBrowserLeft
<1> QED
  BY <1>1, <1>2, <1>3, <1>4, <1>5, <1>6 DEF CostamarNext

(* A warm-up begins when none runs, and unasked for not before the cooldown *)
(* of the last one is over.                                                *)
LEMMA SpacedStep ==
  ASSUME CostamarIInv, [CostamarNext]_costamarVars, NEW a \in Attempt,
         attempt[a].step = "rest", attempt'[a].step # "rest"
  PROVE  /\ Running = {}
         /\ \/ tick - recent >= Cooldown
            \/ \E c \in CostamarCaller : asker[c].step = "resolved" /\ asker'[c].on = a
<1>0. CostamarTypes /\ OnePending /\ NoBrowserLeft
  BY DEF CostamarIInv
<1>1. PICK c \in CostamarCaller : ResolveContext(c) \/ TokenRefused(c)
  <2>1. ASSUME NEW b \in Attempt, WarmupStep(b) PROVE attempt'[a].step = "rest"
    <3>1. attempt[b].step # "rest"
      BY <1>0, <2>1 DEF WarmupStep, PromptAnswered, SignInHttp, SignInLive, LaunchBrowser, BrowserLaunched,
         SignInIsolated, AwaitRenewal, PollEnded, NoBrowserLeft
    <3>2. a # b
      BY <3>1
    <3>3. attempt'[a] = attempt[a]
      BY <1>0, <2>1, <3>2
      DEF WarmupStep, PromptAnswered, SignInHttp, SignInLive, LaunchBrowser, BrowserLaunched,
          SignInIsolated, AwaitRenewal, PollEnded, Ends, CostamarTypes
    <3> QED
      BY <3>3
  <2> QED
    BY <2>1 DEF CostamarNext, costamarVars, CostamarSearchEnds, LateLaunch, CostamarTick, TokenRenewed
<1>2. PICK force \in BOOLEAN, again \in BOOLEAN :
        /\ Warm(c, force, again)
        /\ force => asker[c].step = "resolved"
  BY <1>1 DEF ResolveContext, TokenRefused
<1>3. PICK b \in Attempt :
        /\ Begins(b)
        /\ pending = NoAttempt
        /\ force \/ tick - recent >= Cooldown
        /\ asker' = [asker EXCEPT ![c].step = "waiting", ![c].on = b, ![c].retried = again]
  BY <1>2 DEF Warm
<1>4. Running = {}
  BY <1>0, <1>3, CostamarAssumption DEF Running, OnePending
<1>5. a = b
  BY <1>0, <1>3 DEF Begins, CostamarTypes
<1>6. asker'[c].on = a
  BY <1>0, <1>3, <1>5, WaitsOn
<1> QED
  BY <1>2, <1>3, <1>4, <1>6

(* A tab given to its owner is one the stop will close or has closed.      *)
TabIInv ==
  /\ TabTypeOK
  /\ \A t \in Tab : owner[t] = "using" => t \in IF closing THEN closeSent ELSE openTargets \cup closeSent

(* Every step of the tabs keeps theirs.                                    *)
LEMMA TabStep == TabIInv /\ [TabNext]_tabVars => TabIInv'
<1> SUFFICES ASSUME TabIInv, [TabNext]_tabVars PROVE TabIInv'
  OBVIOUS
<1> USE DEF TabIInv, TabTypeOK
<1>1. ASSUME NEW t \in Tab, AskTab(t) \/ ChromeOpens(t) \/ AskTimesOut(t) \/ ChromeCloses(t) PROVE TabIInv'
  BY <1>1 DEF AskTab, ChromeOpens, AskTimesOut, ChromeCloses
<1>2. ASSUME NEW t \in Tab, TabAnswered(t) PROVE TabIInv'
  BY <1>2 DEF TabAnswered, Tracked
<1>3. ASSUME NEW t \in Tab, TabUsed(t) PROVE TabIInv'
  BY <1>3 DEF TabUsed
<1>4. CASE ReaderEnds \/ CloseOpenTargets \/ WorkerExits
  <2>1. socket \in BOOLEAN /\ closing \in BOOLEAN /\ exited \in BOOLEAN
    OBVIOUS
  <2>2. socket' \in BOOLEAN /\ closing' \in BOOLEAN /\ exited' \in BOOLEAN
    BY <1>4, <2>1 DEF ReaderEnds, CloseOpenTargets, WorkerExits
  <2>3. /\ tab' = tab /\ owner' = owner /\ reply' \subseteq reply
        /\ openTargets' \subseteq openTargets /\ closeSent' \subseteq closeSent \cup openTargets
    BY <1>4 DEF ReaderEnds, CloseOpenTargets, WorkerExits
  <2>4. /\ tab' \in [Tab -> {"none", "asked", "open", "closed"}]
        /\ owner' \in [Tab -> {"idle", "asking", "using", "gone"}]
        /\ reply' \subseteq Tab /\ openTargets' \subseteq Tab /\ closeSent' \subseteq Tab
    BY <2>3
  <2>5. CASE CloseOpenTargets
    BY <2>2, <2>4, <2>5 DEF CloseOpenTargets
  <2>6. CASE ReaderEnds \/ WorkerExits
    BY <2>2, <2>4, <2>6 DEF ReaderEnds, WorkerExits
  <2> QED
    BY <1>4, <2>5, <2>6
<1>5. CASE UNCHANGED tabVars
  BY <1>5 DEF tabVars
<1> QED
  BY <1>1, <1>2, <1>3, <1>4, <1>5 DEF TabNext

(* No isolated browser outlives its warm-up and no tab of a worker its     *)
(* stop (the finally of the isolated sign-in, closeOpenBrowserTargets).    *)
THEOREM BrowsersClosed == CostamarSpec /\ TabSpec => []BrowsersAreClosed
<1>1. CostamarIInv /\ TabIInv => BrowsersAreClosed
  BY DEF CostamarIInv, TabIInv, BrowsersAreClosed, KnownTabsAreClosed
<1>2. TabInit => TabIInv
  BY DEF TabInit, TabIInv, TabTypeOK
<1> QED
  BY <1>1, <1>2, CostamarInitHolds, CostamarStep, TabStep, PTL DEF CostamarSpec, TabSpec

-----------------------------------------------------------------------------
(* THE PAGES OF A SIGN-IN, AND WHO WAITS FOR THE SESSION                   *)

SiteScreen == {"blank", "login", "code", "home", "foreign", "closed"}
SiteStage == {"off", "opened", "looks", "asks", "types", "submitted", "looks for code", "asks code",
              "types code", "code submitted", "signed in", "polls", "ended"}
SiteDriver == [at : SiteStage, with : Int, code : {"none", "right", "wrong"}]

(* Where a page's driver is says what may be on its screen: a page nobody  *)
(* waits for is closed, and one that is driven shows the site.             *)
PageIsRight(at, screenOf, isHeard) ==
  /\ at = "off" => ~isHeard /\ screenOf = "blank"
  /\ at # "off" /\ ~isHeard => screenOf = "closed"
  /\ at \notin {"off", "opened", "ended"} => screenOf # "blank"
  /\ isHeard => screenOf # "closed"

B2bIInv ==
  /\ screen \in [SitePage -> SiteScreen]
  /\ driver \in [SitePage -> SiteDriver]
  /\ heard \subseteq SitePage /\ given \in Nat
  /\ \E n \in Nat : DOMAIN answers = 1..n
  /\ \A p \in SitePage : PageIsRight(driver[p].at, screen[p], p \in heard)

(* A driver's move changes its stage alone.                                *)
LEMMA StageMoves ==
  ASSUME B2bIInv, NEW p \in SitePage, NEW stage \in SiteStage,
         driver' = [driver EXCEPT ![p].at = stage]
  PROVE  /\ driver' \in [SitePage -> SiteDriver]
         /\ driver'[p].at = stage
         /\ \A q \in SitePage \ {p} : driver'[q] = driver[q]
BY DEF B2bIInv, SiteDriver

(* A move of one page, which leaves the others and who is heard alone.     *)
LEMMA PageMoves ==
  ASSUME B2bIInv, NEW p \in SitePage,
         driver' \in [SitePage -> SiteDriver], screen' \in [SitePage -> SiteScreen],
         \A q \in SitePage \ {p} : driver'[q] = driver[q] /\ screen'[q] = screen[q],
         UNCHANGED <<heard, answers>>, given' \in Nat,
         PageIsRight(driver'[p].at, screen'[p], p \in heard)
  PROVE  B2bIInv'
BY DEF B2bIInv

(* Every step of a page but its opening and its closing is such a move.    *)
LEMMA FlowMoves ==
  ASSUME B2bIInv, NEW p \in SitePage, NEW stage \in SiteStage, ~At(p, "off"), stage # "off",
         driver' = [driver EXCEPT ![p].at = stage],
         \/ UNCHANGED screen /\ (At(p, "opened") => stage = "ended")
         \/ /\ screen[p] # "closed"
            /\ \E s \in SiteScreen \ {"blank", "closed"} : screen' = [screen EXCEPT ![p] = s],
         At(p, "ended") => stage = "ended",
         UNCHANGED <<heard, answers>>, given' \in Nat
  PROVE  B2bIInv'
<1>1. /\ driver' \in [SitePage -> SiteDriver] /\ driver'[p].at = stage
      /\ \A q \in SitePage \ {p} : driver'[q] = driver[q]
  BY StageMoves
<1>2. PageIsRight(driver[p].at, screen[p], p \in heard) /\ screen \in [SitePage -> SiteScreen]
  BY DEF B2bIInv
<1>3. CASE UNCHANGED screen /\ (At(p, "opened") => stage = "ended")
  BY <1>1, <1>2, <1>3, PageMoves DEF PageIsRight, At, SiteStage
<1>4. CASE /\ screen[p] # "closed"
           /\ \E s \in SiteScreen \ {"blank", "closed"} : screen' = [screen EXCEPT ![p] = s]
  <2>1. PICK s \in SiteScreen \ {"blank", "closed"} : screen' = [screen EXCEPT ![p] = s]
    BY <1>4
  <2> QED
    BY <1>1, <1>2, <1>4, <2>1, PageMoves DEF PageIsRight, At, SiteScreen
<1> QED
  BY <1>3, <1>4

NoneSignsIn == \A p \in SitePage : driver'[p].at = "signed in" => driver[p].at = "signed in"

(* A driver that was answered types what it was given, or ends.            *)
LEMMA AnsweredMoves ==
  ASSUME B2bIInv, NEW stage \in {"asks", "asks code"},
         driver' \in [SitePage -> SiteDriver],
         \A p \in SitePage :
           IF At(p, stage) THEN driver'[p].at \in {"types", "types code", "ended"} ELSE driver'[p] = driver[p],
         UNCHANGED <<screen, heard>>, given' \in Nat,
         \E n \in Nat : DOMAIN answers' = 1..n
  PROVE  B2bIInv' /\ NoneSignsIn
<1>1. ASSUME NEW p \in SitePage PROVE PageIsRight(driver'[p].at, screen[p], p \in heard)
  <2>1. PageIsRight(driver[p].at, screen[p], p \in heard)
    BY DEF B2bIInv
  <2> QED
    BY <2>1 DEF PageIsRight, At
<1> QED
  BY <1>1 DEF B2bIInv, NoneSignsIn, At

(* The secrets given are as many as the numbers up to the last.            *)
LEMMA CountOfAnswers ==
  ASSUME NEW n \in Nat
  PROVE  Cardinality(1..n) = n
BY FS_Interval

(* The person gives a user and a password to whoever waits for them, and   *)
(* none is overwritten.                                                    *)
LEMMA AnswerCredentialsKeeps ==
  ASSUME B2bIInv, AnswerCredentials
  PROVE  B2bIInv' /\ NoneSignsIn /\ (given # 0 => given' # 0)
<1>0. PICK k \in Nat : DOMAIN answers = 1..k
  BY DEF B2bIInv
<1>1. Cardinality(DOMAIN answers) = k
  BY <1>0, CountOfAnswers
<1>2. ASSUME NEW n \in Nat, n = k + 1, given' = n, DOMAIN answers' = 1..n,
             driver' = [p \in SitePage |->
               IF At(p, "asks") THEN [driver[p] EXCEPT !.at = "types", !.with = n] ELSE driver[p]]
      PROVE  B2bIInv' /\ NoneSignsIn /\ given' # 0
  <2>9. n = k + 1 /\ given' = n
    BY <1>2
  <2>0. n \in Int /\ n # 0 /\ given' \in Nat
    BY <2>9
  <2>1. ASSUME NEW p \in SitePage PROVE [driver[p] EXCEPT !.at = "types", !.with = n] \in SiteDriver
    BY <2>0 DEF B2bIInv, SiteDriver, SiteStage
  <2>2. driver' \in [SitePage -> SiteDriver]
    BY <1>2, <2>1 DEF B2bIInv
  <2>3. \A p \in SitePage : IF At(p, "asks") THEN driver'[p].at = "types" ELSE driver'[p] = driver[p]
    BY <1>2 DEF B2bIInv, SiteDriver
  <2>4. UNCHANGED <<screen, heard>>
    BY DEF AnswerCredentials
  <2>5. B2bIInv' /\ NoneSignsIn
    BY <1>2, <2>0, <2>2, <2>3, <2>4, AnsweredMoves
  <2> QED
    BY <1>2, <2>0, <2>5
<1>3. ASSUME UNCHANGED <<answers, given>>,
             driver' = [p \in SitePage |-> IF At(p, "asks") THEN Pending("ended") ELSE driver[p]]
      PROVE  B2bIInv' /\ NoneSignsIn
  <2>1. Pending("ended") \in SiteDriver /\ Pending("ended").at = "ended"
    BY DEF Pending, SiteDriver, SiteStage
  <2>2. driver' \in [SitePage -> SiteDriver]
    BY <1>3, <2>1 DEF B2bIInv
  <2>3. \A p \in SitePage : IF At(p, "asks") THEN driver'[p].at = "ended" ELSE driver'[p] = driver[p]
    BY <1>3, <2>1
  <2>4. UNCHANGED <<screen, heard>> /\ given' \in Nat /\ \E n \in Nat : DOMAIN answers' = 1..n
    BY <1>0, <1>3 DEF AnswerCredentials, B2bIInv
  <2> QED
    BY <2>2, <2>3, <2>4, AnsweredMoves
<1>4. CASE \E a \in {"right", "wrong"}, n \in {Cardinality(DOMAIN answers) + 1} :
             /\ answers' = [i \in 1..n |-> IF i = n THEN a ELSE answers[i]]
             /\ given' = n
             /\ driver' = [p \in SitePage |->
                  IF At(p, "asks") THEN [driver[p] EXCEPT !.at = "types", !.with = n] ELSE driver[p]]
  <2>1. k + 1 \in Nat /\ Cardinality(DOMAIN answers) + 1 = k + 1
    BY <1>1
  <2>2. /\ DOMAIN answers' = 1..(k + 1) /\ given' = k + 1
        /\ driver' = [p \in SitePage |->
             IF At(p, "asks") THEN [driver[p] EXCEPT !.at = "types", !.with = k + 1] ELSE driver[p]]
    BY <1>4, <2>1
  <2> QED
    BY <1>2, <2>1, <2>2
<1>5. CASE /\ driver' = [p \in SitePage |-> IF At(p, "asks") THEN Pending("ended") ELSE driver[p]]
           /\ UNCHANGED <<answers, given>>
  BY <1>3, <1>5
<1> QED
  BY <1>4, <1>5 DEF AnswerCredentials

(* The person gives a code to whoever waits for one.                       *)
LEMMA AnswerCodeKeeps ==
  ASSUME B2bIInv, AnswerCode
  PROVE  B2bIInv' /\ NoneSignsIn /\ given' = given
<1>0. given' \in Nat /\ \E n \in Nat : DOMAIN answers' = 1..n
  BY DEF AnswerCode, B2bIInv
<1>1. ASSUME NEW c \in {"right", "wrong"},
             driver' = [p \in SitePage |->
               IF At(p, "asks code") THEN [driver[p] EXCEPT !.at = "types code", !.code = c] ELSE driver[p]]
      PROVE  B2bIInv' /\ NoneSignsIn
  <2>1. ASSUME NEW p \in SitePage PROVE [driver[p] EXCEPT !.at = "types code", !.code = c] \in SiteDriver
    BY DEF B2bIInv, SiteDriver, SiteStage
  <2>2. driver' \in [SitePage -> SiteDriver]
    BY <1>1, <2>1 DEF B2bIInv
  <2>3. \A p \in SitePage : IF At(p, "asks code") THEN driver'[p].at = "types code" ELSE driver'[p] = driver[p]
    BY <1>1 DEF B2bIInv, SiteDriver
  <2> QED
    BY <1>0, <2>2, <2>3, AnsweredMoves DEF AnswerCode
<1>2. ASSUME driver' = [p \in SitePage |-> IF At(p, "asks code") THEN Pending("ended") ELSE driver[p]]
      PROVE  B2bIInv' /\ NoneSignsIn
  <2>1. Pending("ended") \in SiteDriver /\ Pending("ended").at = "ended"
    BY DEF Pending, SiteDriver, SiteStage
  <2>2. driver' \in [SitePage -> SiteDriver]
    BY <1>2, <2>1 DEF B2bIInv
  <2>3. \A p \in SitePage : IF At(p, "asks code") THEN driver'[p].at = "ended" ELSE driver'[p] = driver[p]
    BY <1>2, <2>1
  <2> QED
    BY <1>0, <2>2, <2>3, AnsweredMoves DEF AnswerCode
<1> QED
  BY <1>1, <1>2 DEF AnswerCode

(* A step forgets what a person gave only if it is of a page that is       *)
(* waited for and shows the login again, and a page is signed in only from *)
(* a screen that asks for nothing.                                         *)
KeepsSecrets ==
  /\ given # 0 /\ given' = 0 => \E p \in heard : At(p, "submitted") /\ screen[p] = "login"
  /\ \A p \in heard : driver'[p].at = "signed in" /\ driver[p].at # "signed in" =>
       screen[p] = "home" \/ (screen[p] = "login" /\ At(p, "looks for code"))

(* Where one driver moves, and not to be signed in, no other is.           *)
LEMMA QuietMoves ==
  ASSUME B2bIInv, NEW p \in SitePage, NEW stage \in SiteStage \ {"signed in"},
         driver' = [driver EXCEPT ![p].at = stage], UNCHANGED given
  PROVE  KeepsSecrets
BY StageMoves DEF KeepsSecrets, B2bIInv

(* What ends a flow, or moves it on, is right wherever the page is.        *)
LEMMA FlowEndsKeeps ==
  ASSUME B2bIInv, NEW p \in SitePage, ~At(p, "off"), driver' = [driver EXCEPT ![p].at = "ended"],
         UNCHANGED <<screen, heard, given, answers>>
  PROVE  B2bIInv' /\ KeepsSecrets
<1>1. "ended" \in SiteStage \ {"signed in"} /\ "ended" # "off"
  BY DEF SiteStage
<1>2. given' \in Nat
  BY DEF B2bIInv
<1> QED
  BY <1>1, <1>2, FlowMoves, QuietMoves

(* A driver that goes on to another stage, with the page as it was or      *)
(* turned, keeps the invariant.                                            *)
LEMMA FlowMovesKeep ==
  ASSUME B2bIInv, NEW p \in SitePage, NEW stage \in SiteStage \ {"off", "ended", "signed in"},
         ~At(p, "off"), ~At(p, "ended"), driver' = [driver EXCEPT ![p].at = stage],
         \/ UNCHANGED screen /\ ~At(p, "opened")
         \/ /\ screen[p] # "closed"
            /\ \E s \in SiteScreen \ {"blank", "closed"} : screen' = [screen EXCEPT ![p] = s],
         UNCHANGED <<heard, given, answers>>
  PROVE  B2bIInv' /\ KeepsSecrets
<1>2. given' \in Nat
  BY DEF B2bIInv
<1> QED
  BY <1>2, FlowMoves, QuietMoves

(* A driver that is given something to type.                               *)
LEMMA TypesKeeps ==
  ASSUME B2bIInv, NEW p \in SitePage, driver[p].at \notin {"off", "opened", "ended"},
         NEW d \in SiteDriver, d.at \in {"types", "types code"}, driver' = [driver EXCEPT ![p] = d],
         UNCHANGED <<screen, heard, given, answers>>
  PROVE  B2bIInv' /\ KeepsSecrets
<1>1. driver' \in [SitePage -> SiteDriver] /\ driver'[p] = d /\ \A q \in SitePage \ {p} : driver'[q] = driver[q]
  BY DEF B2bIInv
<1>2. PageIsRight(driver'[p].at, screen'[p], p \in heard)
  BY <1>1 DEF B2bIInv, PageIsRight
<1>3. B2bIInv'
  BY <1>1, <1>2, PageMoves DEF B2bIInv
<1> QED
  BY <1>1, <1>3 DEF KeepsSecrets, B2bIInv

(* A driver looks for the form of the sign-in and asks for what it lacks.  *)
LEMMA LookForLoginKeeps ==
  ASSUME B2bIInv, NEW p \in SitePage, LookForLogin(p)
  PROVE  B2bIInv' /\ KeepsSecrets
<1>0. driver[p].at = "looks" /\ UNCHANGED <<screen, heard, given, answers>>
  BY DEF LookForLogin, At
<1>1. \/ driver' = [driver EXCEPT ![p].at = "ended"]
      \/ driver' = [driver EXCEPT ![p].at = "looks for code"]
      \/ driver' = [driver EXCEPT ![p].at = "asks"]
      \/ \E n \in {0, given} : driver' = [driver EXCEPT ![p] = [@ EXCEPT !.at = "types", !.with = n]]
  BY DEF LookForLogin, FlowEnds, MoveTo
<1>2. CASE driver' = [driver EXCEPT ![p].at = "ended"]
  BY <1>0, <1>2, FlowEndsKeeps DEF At
<1>3. ASSUME NEW stage \in {"looks for code", "asks"}, driver' = [driver EXCEPT ![p].at = stage]
      PROVE  B2bIInv' /\ KeepsSecrets
  <2>1. stage \in SiteStage \ {"off", "ended", "signed in"}
    BY DEF SiteStage
  <2> QED
    BY <1>0, <1>3, <2>1, FlowMovesKeep DEF At
<1>4. ASSUME NEW n \in {0, given}, driver' = [driver EXCEPT ![p] = [@ EXCEPT !.at = "types", !.with = n]]
      PROVE  B2bIInv' /\ KeepsSecrets
  <2> DEFINE d == [driver[p] EXCEPT !.at = "types", !.with = n]
  <2>1. n \in Int
    BY DEF B2bIInv
  <2>2. d \in SiteDriver /\ d.at = "types"
    BY <2>1 DEF B2bIInv, SiteDriver, SiteStage
  <2>3. driver' = [driver EXCEPT ![p] = d]
    BY <1>4
  <2> HIDE DEF d
  <2> QED
    BY <1>0, <2>2, <2>3, TypesKeeps
<1> QED
  BY <1>1, <1>2, <1>3, <1>4

(* A driver looks for the form of the code and asks for one.               *)
LEMMA LookForCodeKeeps ==
  ASSUME B2bIInv, NEW p \in SitePage, LookForCode(p)
  PROVE  B2bIInv' /\ KeepsSecrets
<1>0. driver[p].at = "looks for code" /\ UNCHANGED <<screen, heard, given, answers>>
  BY DEF LookForCode, At
<1>1. \/ driver' = [driver EXCEPT ![p].at = "ended"]
      \/ driver' = [driver EXCEPT ![p].at = "signed in"] /\ AtHome(p) /\ ~ShowsCode(p)
      \/ driver' = [driver EXCEPT ![p].at = "asks code"]
      \/ driver' = [driver EXCEPT ![p] = [@ EXCEPT !.at = "types code", !.code = "right"]]
  BY DEF LookForCode, FlowEnds, MoveTo
<1>2. CASE driver' = [driver EXCEPT ![p].at = "ended"]
  BY <1>0, <1>2, FlowEndsKeeps DEF At
<1>3. CASE driver' = [driver EXCEPT ![p].at = "asks code"]
  <2>1. "asks code" \in SiteStage \ {"off", "ended", "signed in"}
    BY DEF SiteStage
  <2> QED
    BY <1>0, <1>3, <2>1, FlowMovesKeep DEF At
<1>4. CASE driver' = [driver EXCEPT ![p] = [@ EXCEPT !.at = "types code", !.code = "right"]]
  <2> DEFINE d == [driver[p] EXCEPT !.at = "types code", !.code = "right"]
  <2>2. d \in SiteDriver /\ d.at = "types code"
    BY DEF B2bIInv, SiteDriver, SiteStage
  <2>3. driver' = [driver EXCEPT ![p] = d]
    BY <1>4
  <2> HIDE DEF d
  <2> QED
    BY <1>0, <2>2, <2>3, TypesKeeps
<1>5. CASE driver' = [driver EXCEPT ![p].at = "signed in"] /\ AtHome(p) /\ ~ShowsCode(p)
  <2>1. "signed in" \in SiteStage /\ "signed in" # "off"
    BY DEF SiteStage
  <2>2. B2bIInv'
    BY <1>0, <1>5, <2>1, FlowMoves DEF At, B2bIInv
  <2>3. p \in heard => screen[p] \in {"home", "login"}
    BY <1>0, <1>5 DEF B2bIInv, PageIsRight, SiteScreen, AtHome, ShowsCode
  <2>4. \A q \in SitePage \ {p} : driver'[q] = driver[q]
    BY <1>5, <2>1, StageMoves
  <2> QED
    BY <1>0, <2>2, <2>3, <2>4 DEF KeepsSecrets, B2bIInv, At
<1> QED
  BY <1>1, <1>2, <1>3, <1>4, <1>5

(* The steps that leave every driver where it is.                          *)
LEMMA ScreensMove ==
  ASSUME B2bIInv, NEW p \in SitePage, NEW s \in SiteScreen,
         screen' = [screen EXCEPT ![p] = s], UNCHANGED <<driver, given, answers>>, p \in heard,
         \/ /\ s \notin {"blank", "closed"} /\ UNCHANGED heard
         \/ /\ s = "closed" /\ heard' = heard \ {p}
  PROVE  B2bIInv' /\ KeepsSecrets
<1>1. \A q \in SitePage : PageIsRight(driver[q].at, screen[q], q \in heard)
  BY DEF B2bIInv
<1>2. \A q \in SitePage : PageIsRight(driver'[q].at, screen'[q], q \in heard')
  BY <1>1 DEF B2bIInv, PageIsRight
<1> QED
  BY <1>2 DEF B2bIInv, KeepsSecrets

(* Each step of a page's driver keeps the invariant, and throws no secret  *)
(* away.                                                                   *)
LEMMA SitePageStep ==
  ASSUME B2bIInv, NEW p \in SitePage,
         \/ OpenSitePage(p) \/ GoToSite(p) \/ LookForLogin(p) \/ TypeCredentials(p) \/ AfterCredentials(p)
         \/ LookForCode(p) \/ TypeCode(p) \/ AfterCode(p) \/ SubmitFlightSearch(p) \/ PageShows(p) \/ Poll(p)
         \/ Leave(p) \/ SiteMoves(p)
  PROVE  B2bIInv' /\ KeepsSecrets
<1>S. {"opened", "looks", "submitted", "looks for code", "code submitted", "polls"} \subseteq
        SiteStage \ {"off", "ended", "signed in"}
  BY DEF SiteStage
<1>P. PageIsRight(driver[p].at, screen[p], p \in heard)
  BY DEF B2bIInv
<1>1. CASE OpenSitePage(p)
  <2>1. /\ driver' \in [SitePage -> SiteDriver] /\ driver'[p].at = "opened"
        /\ \A q \in SitePage \ {p} : driver'[q] = driver[q]
    BY <1>1, <1>S, StageMoves DEF OpenSitePage, MoveTo
  <2>2. heard' = heard \cup {p} /\ UNCHANGED <<screen, given, answers>>
    BY <1>1 DEF OpenSitePage
  <2>3. screen[p] # "closed"
    BY <1>1, <1>P DEF OpenSitePage, At, PageIsRight
  <2>4. B2bIInv'
    BY <2>1, <2>2, <2>3 DEF B2bIInv, PageIsRight
  <2> QED
    BY <2>1, <2>2, <2>4 DEF KeepsSecrets, B2bIInv
<1>2. CASE GoToSite(p)
  <2>1. At(p, "opened") /\ UNCHANGED <<heard, given, answers>>
    BY <1>2 DEF GoToSite
  <2>2. CASE screen[p] = "closed"
    BY <1>2, <2>1, <2>2, FlowEndsKeeps DEF GoToSite, FlowEnds, At
  <2>3. CASE screen[p] # "closed"
    <3>1. PICK s \in {"login", "code", "home", "foreign"} : screen' = [screen EXCEPT ![p] = s]
      BY <1>2, <2>3 DEF GoToSite
    <3>2. s \in SiteScreen \ {"blank", "closed"} /\ driver' = [driver EXCEPT ![p].at = "looks"]
      BY <1>2, <2>3 DEF GoToSite, MoveTo, SiteScreen
    <3> QED
      BY <1>S, <2>1, <2>3, <3>1, <3>2, FlowMovesKeep DEF At
  <2> QED
    BY <2>2, <2>3
<1>3. CASE LookForLogin(p)
  BY <1>3, LookForLoginKeeps
<1>4. CASE TypeCredentials(p)
  <2>1. At(p, "types") /\ UNCHANGED <<heard, given, answers>>
    BY <1>4 DEF TypeCredentials
  <2>2. CASE ~AtHome(p) \/ screen[p] = "closed"
    BY <1>4, <2>1, <2>2, FlowEndsKeeps DEF TypeCredentials, FlowEnds, At
  <2>3. CASE ~(~AtHome(p) \/ screen[p] = "closed")
    <3>1. PICK s \in {"login", "code", "home"} : screen' = [screen EXCEPT ![p] = s]
      BY <1>4, <2>3 DEF TypeCredentials
    <3>2. s \in SiteScreen \ {"blank", "closed"} /\ driver' = [driver EXCEPT ![p].at = "submitted"]
      BY <1>4, <2>3 DEF TypeCredentials, MoveTo, SiteScreen
    <3> QED
      BY <1>S, <2>1, <2>3, <3>1, <3>2, FlowMovesKeep DEF At
  <2> QED
    BY <2>2, <2>3
<1>5. CASE AfterCredentials(p)
  <2>1. At(p, "submitted") /\ UNCHANGED <<screen, heard, answers>>
    BY <1>5 DEF AfterCredentials
  <2>2. CASE ~AtHome(p)
    BY <1>5, <2>1, <2>2, FlowEndsKeeps DEF AfterCredentials, FlowEnds, At
  <2>3. CASE AtHome(p) /\ ~ShowsLogin(p)
    <3>1. UNCHANGED given /\ driver' = [driver EXCEPT ![p].at = "looks for code"]
      BY <1>5, <2>3 DEF AfterCredentials, MoveTo, Forgets
    <3> QED
      BY <1>S, <2>1, <3>1, FlowMovesKeep DEF At
  <2>4. CASE AtHome(p) /\ ShowsLogin(p)
    <3>1. given' = 0 /\ driver' = [driver EXCEPT ![p].at = "ended"]
      BY <1>5, <2>4 DEF AfterCredentials, FlowEnds, Forgets
    <3>2. "ended" \in SiteStage /\ "ended" # "off"
      BY DEF SiteStage
    <3>3. B2bIInv'
      BY <2>1, <3>1, <3>2, FlowMoves DEF At
    <3>4. p \in heard /\ screen[p] = "login"
      BY <1>P, <2>1, <2>4 DEF PageIsRight, At, ShowsLogin
    <3>5. driver'[p].at = "ended" /\ \A q \in SitePage \ {p} : driver'[q] = driver[q]
      BY <3>1, <3>2, StageMoves
    <3> QED
      BY <2>1, <3>3, <3>4, <3>5 DEF KeepsSecrets, B2bIInv
  <2> QED
    BY <2>2, <2>3, <2>4
<1>6. CASE LookForCode(p)
  BY <1>6, LookForCodeKeeps
<1>7. CASE TypeCode(p)
  <2>1. At(p, "types code") /\ UNCHANGED <<heard, given, answers>>
    BY <1>7 DEF TypeCode
  <2>2. CASE ~AtHome(p) \/ screen[p] = "closed"
    BY <1>7, <2>1, <2>2, FlowEndsKeeps DEF TypeCode, FlowEnds, At
  <2>3. CASE ~(~AtHome(p) \/ screen[p] = "closed")
    <3>1. PICK s \in {"login", "code", "home"} : screen' = [screen EXCEPT ![p] = s]
      BY <1>7, <2>3 DEF TypeCode
    <3>2. s \in SiteScreen \ {"blank", "closed"} /\ driver' = [driver EXCEPT ![p].at = "code submitted"]
      BY <1>7, <2>3 DEF TypeCode, MoveTo, SiteScreen
    <3> QED
      BY <1>S, <2>1, <2>3, <3>1, <3>2, FlowMovesKeep DEF At
  <2> QED
    BY <2>2, <2>3
<1>8. CASE AfterCode(p)
  <2>1. At(p, "code submitted") /\ UNCHANGED <<screen, heard, given, answers>>
    BY <1>8 DEF AfterCode
  <2>2. CASE ~Confirmed(p)
    BY <1>8, <2>1, <2>2, FlowEndsKeeps DEF AfterCode, FlowEnds, At
  <2>3. CASE Confirmed(p)
    <3>1. driver' = [driver EXCEPT ![p].at = "signed in"]
      BY <1>8, <2>3 DEF AfterCode, MoveTo
    <3>2. "signed in" \in SiteStage /\ "signed in" # "off"
      BY DEF SiteStage
    <3>3. B2bIInv'
      BY <2>1, <3>1, <3>2, FlowMoves DEF At, B2bIInv
    <3>4. p \in heard => screen[p] = "home"
      BY <1>P, <2>1, <2>3
      DEF B2bIInv, PageIsRight, SiteScreen, Confirmed, AtHome, ShowsLogin, ShowsCode, At
    <3>5. \A q \in SitePage \ {p} : driver'[q] = driver[q]
      BY <3>1, <3>2, StageMoves
    <3> QED
      BY <2>1, <3>3, <3>4, <3>5 DEF KeepsSecrets, B2bIInv
  <2> QED
    BY <2>2, <2>3
<1>9. CASE SubmitFlightSearch(p)
  <2>1. At(p, "signed in") /\ UNCHANGED <<screen, heard, given, answers>>
    BY <1>9 DEF SubmitFlightSearch
  <2>2. driver' = [driver EXCEPT ![p].at = "ended"] \/ driver' = [driver EXCEPT ![p].at = "polls"]
    BY <1>9 DEF SubmitFlightSearch, FlowEnds, MoveTo
  <2> QED
    BY <1>S, <2>1, <2>2, FlowEndsKeeps, FlowMovesKeep DEF At
<1>10. CASE PageShows(p)
  BY <1>10 DEF PageShows, B2bIInv, KeepsSecrets
<1>11. CASE Poll(p)
  <2>1. At(p, "polls") /\ UNCHANGED <<screen, heard, given, answers>>
    BY <1>11 DEF Poll
  <2>2. driver' = [driver EXCEPT ![p].at = "ended"]
    BY <1>11 DEF Poll, FlowEnds
  <2> QED
    BY <2>1, <2>2, FlowEndsKeeps DEF At
<1>12. CASE Leave(p)
  <2>1. "closed" \in SiteScreen
    BY DEF SiteScreen
  <2> QED
    BY <1>12, <2>1, ScreensMove DEF Leave
<1>13. CASE SiteMoves(p)
  <2>1. PICK s \in {"login", "foreign", "home", "code"} : screen' = [screen EXCEPT ![p] = s]
    BY <1>13 DEF SiteMoves
  <2>2. s \in SiteScreen /\ s \notin {"blank", "closed"}
    BY DEF SiteScreen
  <2> QED
    BY <1>13, <2>1, <2>2, ScreensMove DEF SiteMoves
<1> QED
  BY <1>1, <1>2, <1>3, <1>4, <1>5, <1>6, <1>7, <1>8, <1>9, <1>10, <1>11, <1>12, <1>13

(* Every step of the sign-in keeps its invariant, and throws no secret     *)
(* away.                                                                   *)
LEMMA B2bStep ==
  ASSUME B2bIInv, [B2bNext]_b2bVars
  PROVE  B2bIInv' /\ (UNCHANGED b2bVars \/ KeepsSecrets)
<1>1. CASE UNCHANGED b2bVars
  BY <1>1 DEF b2bVars, B2bIInv
<1>2. ASSUME AnswerCredentials PROVE B2bIInv' /\ KeepsSecrets
  <2>1. B2bIInv' /\ NoneSignsIn /\ (given # 0 => given' # 0)
    BY <1>2, AnswerCredentialsKeeps
  <2> QED
    BY <2>1 DEF NoneSignsIn, KeepsSecrets, B2bIInv
<1>3. ASSUME AnswerCode PROVE B2bIInv' /\ KeepsSecrets
  <2>1. B2bIInv' /\ NoneSignsIn /\ given' = given
    BY <1>3, AnswerCodeKeeps
  <2> QED
    BY <2>1 DEF NoneSignsIn, KeepsSecrets, B2bIInv
<1> QED
  BY <1>1, <1>2, <1>3, SitePageStep DEF B2bNext

(* With no page open, the invariant holds.                                 *)
LEMMA B2bInitHolds == B2bInit => B2bIInv
<1> SUFFICES ASSUME B2bInit PROVE B2bIInv
  OBVIOUS
<1>1. Pending("off") \in SiteDriver /\ Pending("off").at = "off"
  BY DEF Pending, SiteDriver, SiteStage
<1>2. DOMAIN answers = 1..0 /\ 0 \in Nat
  BY DEF B2bInit
<1> QED
  BY <1>1, <1>2 DEF B2bInit, B2bIInv, PageIsRight, SiteScreen

(* A load began no longer ago than its requests may take, so that what it  *)
(* found usable then is not over now.                                      *)
AgilHeld == Session \cup {NoSession}
AgilLoad == [step : {"none", "file", "mint", "browser", "refresh"}, force : BOOLEAN, at : Nat,
             identity : Identity \cup {NoIdentity}]

AgilIInv ==
  /\ clock \in 0..MaxNow
  /\ account \in Identity
  /\ chrome \in Identity \cup {NoIdentity} /\ file \in Identity \cup {NoIdentity}
  /\ cached \in AgilHeld
  /\ load \in AgilLoad /\ load.at <= clock
  /\ load # NoLoad => clock - load.at <= MaxLoadTime
  /\ caller \in [AgilCaller -> {"idle", "waiting", "serving", "failed", "cancelled"}]
  /\ held \in [AgilCaller -> AgilHeld]
  /\ stopped \subseteq AgilCaller

(* A session that names an identity is one that was minted.                *)
LEMMA HeldFields ==
  /\ NoSession \in AgilHeld
  /\ \A s \in AgilHeld :
       /\ s.identity \in Identity \cup {NoIdentity} /\ s.expires \in Nat /\ s.captured \in Nat
       /\ s.identity \in Identity =>
            \A n \in Nat : [s EXCEPT !.captured = n] \in AgilHeld /\ [s EXCEPT !.captured = n].expires = s.expires
BY AgilAssumption DEF AgilHeld, Session, NoSession

(* With nothing held and nobody asking, the invariant holds.               *)
LEMMA AgilInitHolds == AgilInit => AgilIInv
BY AgilAssumption, HeldFields DEF AgilInit, AgilIInv, AgilHeld, AgilLoad, NoLoad

(* The end of a load clears it and tells all who wait for it.              *)
LEMMA LoadEndsTypes ==
  ASSUME AgilIInv, NEW s \in AgilHeld, NEW how \in {"serving", "failed"}, LoadEnds(s, how)
  PROVE  /\ load' = NoLoad /\ NoLoad \in AgilLoad /\ NoLoad.at <= clock
         /\ caller' \in [AgilCaller -> {"idle", "waiting", "serving", "failed", "cancelled"}]
         /\ held' \in [AgilCaller -> AgilHeld]
         /\ \A c \in AgilCaller : caller[c] = "waiting" => caller'[c] = how /\ held'[c] = s
         /\ \A c \in AgilCaller : caller[c] # "waiting" => caller'[c] = caller[c]
BY AgilAssumption DEF AgilIInv, LoadEnds, Waiting, NoLoad, AgilLoad

(* What a step may tell those who wait.                                    *)
TellsTruly ==
  \A c \in AgilCaller :
    /\ caller[c] \in {"idle", "waiting"} /\ caller'[c] = "serving" => held'[c].expires > clock
    /\ caller[c] = "waiting" /\ caller'[c] = "failed" =>
         load.step \in {"browser", "refresh"} /\ stopped' = stopped

(* A load that ends keeps the invariant, and tells those who wait what it  *)
(* found.                                                                  *)
LEMMA LoadStepTells ==
  ASSUME AgilIInv, LoadStep
  PROVE  AgilIInv' /\ TellsTruly
<1> USE DEF AgilIInv
<1>N. NoSession \in AgilHeld /\ account \in Identity
  BY HeldFields
<1>M. Minted(account) \in AgilHeld /\ Minted(account).expires > clock
  BY AgilAssumption DEF Minted, AgilHeld, Session
<1>T. load.at \in Nat /\ clock \in Nat /\ cached.expires \in Nat
  BY AgilAssumption, HeldFields DEF AgilLoad
<1>C. ASSUME NEW i \in Identity, Confirms(i)
      PROVE  /\ [cached EXCEPT !.captured = load.at] \in AgilHeld
             /\ [cached EXCEPT !.captured = load.at].expires = cached.expires
  BY <1>C, <1>T, HeldFields DEF Confirms
<1>0. load # NoLoad /\ UNCHANGED <<clock, stopped, account, chrome>> /\ file' \in Identity \cup {NoIdentity}
  BY DEF LoadStep, ReadFile, MintFromIdentity, ReadBrowser, RefreshAgilToken, NoLoad
<1>1. ASSUME NEW s \in AgilHeld, s.expires > clock, LoadEnds(s, "serving"), cached' \in AgilHeld
      PROVE  AgilIInv' /\ TellsTruly
  BY <1>0, <1>1, LoadEndsTypes DEF TellsTruly
<1>2. ASSUME LoadEnds(NoSession, "failed"), cached' \in AgilHeld, load.step \in {"browser", "refresh"}
      PROVE  AgilIInv' /\ TellsTruly
  BY <1>0, <1>2, <1>N, LoadEndsTypes DEF TellsTruly
<1>3. ASSUME NEW i \in Identity, Confirms(i)
      PROVE  cached.expires > clock
  BY <1>0, <1>3, <1>T, AgilAssumption DEF Confirms
<1>4. ASSUME NEW step \in {"mint", "browser", "refresh"}, NEW i \in Identity \cup {NoIdentity},
             load' = [load EXCEPT !.step = step, !.identity = i] \/ load' = [load EXCEPT !.step = step],
             UNCHANGED <<cached, caller, held>>
      PROVE  AgilIInv' /\ TellsTruly
  <2>1. load' \in AgilLoad /\ load'.at = load.at
    BY <1>4 DEF AgilLoad
  <2> QED
    BY <1>0, <1>4, <2>1 DEF TellsTruly
<1>5. CASE ReadFile
  <2>1. CASE file # NoIdentity /\ Confirms(file)
    BY <1>5, <1>C, <1>1, <1>3, <2>1 DEF ReadFile
  <2>2. CASE ~(file # NoIdentity /\ Confirms(file))
    BY <1>5, <1>4, <2>2 DEF ReadFile
  <2> QED
    BY <2>1, <2>2
<1>6. CASE MintFromIdentity
  BY <1>6, <1>M, <1>1, <1>4 DEF MintFromIdentity
<1>7. CASE ReadBrowser
  BY <1>7, <1>C, <1>1, <1>2, <1>3, <1>4 DEF ReadBrowser
<1>8. CASE RefreshAgilToken
  BY <1>8, <1>M, <1>1, <1>2 DEF RefreshAgilToken
<1> QED
  BY <1>5, <1>6, <1>7, <1>8 DEF LoadStep

(* A load begins now, and within its time.                                 *)
LEMMA BeginTypes ==
  ASSUME AgilIInv, NEW force \in BOOLEAN, Begin(force)
  PROVE  load' \in AgilLoad /\ load'.at <= clock /\ (load' # NoLoad => clock - load'.at <= MaxLoadTime)
BY AgilAssumption DEF AgilIInv, Begin, AgilLoad, NoLoad

(* Every step of the Agil session keeps its invariant, and tells callers   *)
(* truly.                                                                  *)
LEMMA AgilStep ==
  ASSUME AgilIInv, [AgilNext]_agilVars
  PROVE  AgilIInv' /\ (UNCHANGED agilVars \/ TellsTruly)
<1> USE DEF AgilIInv
<1>1. ASSUME NEW c \in AgilCaller, GetAgilSession(c) PROVE AgilIInv' /\ TellsTruly
  <2>1. CASE Reusable(cached) /\ caller' = [caller EXCEPT ![c] = "serving"] /\ held' = [held EXCEPT ![c] = cached] /\ UNCHANGED load
    <3>1. cached.expires > clock
      BY <2>1, AgilAssumption, HeldFields DEF Reusable
    <3> QED
      BY <1>1, <2>1, <3>1 DEF GetAgilSession, TellsTruly
  <2>2. CASE caller' = [caller EXCEPT ![c] = "waiting"] /\ Begin(FALSE) /\ UNCHANGED held
    BY <1>1, <2>2, BeginTypes DEF GetAgilSession, TellsTruly
  <2> QED
    BY <1>1, <2>1, <2>2 DEF GetAgilSession
<1>2. ASSUME NEW c \in AgilCaller, PrewarmSession(c) PROVE AgilIInv' /\ TellsTruly
  BY <1>2, BeginTypes DEF PrewarmSession, TellsTruly
<1>3. ASSUME NEW c \in AgilCaller, RenewRefused(c) PROVE AgilIInv' /\ TellsTruly
  <2>1. Minted(account) \in AgilHeld
    BY AgilAssumption DEF Minted, AgilHeld, Session
  <2> QED
    BY <1>3, <2>1 DEF RenewRefused, TellsTruly
<1>4. ASSUME NEW c \in AgilCaller, StopCaller(c) \/ SeesStop(c) PROVE AgilIInv' /\ TellsTruly
  BY <1>4 DEF StopCaller, SeesStop, TellsTruly
<1>5. ASSUME NEW c \in AgilCaller, SearchEnds(c) PROVE AgilIInv' /\ TellsTruly
  <2>1. NoSession \in AgilHeld
    BY HeldFields
  <2> QED
    BY <1>5, <2>1 DEF SearchEnds, TellsTruly
<1>6. CASE LoadStep
  BY <1>6, LoadStepTells
<1>7. CASE AgilTick
  BY <1>7, AgilAssumption DEF AgilTick, TellsTruly, AgilLoad
<1>8. CASE AccountChanges \/ SignIn
  BY <1>8 DEF AccountChanges, SignIn, TellsTruly
<1>9. CASE UNCHANGED agilVars
  BY <1>9 DEF agilVars
<1> QED
  BY <1>1, <1>2, <1>3, <1>4, <1>5, <1>6, <1>7, <1>8, <1>9 DEF AgilNext

(* A person's answer is forgotten only by a page that is waited for and    *)
(* was shown the login again, a waiting search is told the truth of the    *)
(* session, and the provider is signed in to by one warm-up at a time, not *)
(* more often than the cooldown (B2bPage, AgilSession, CostamarSession).   *)
THEOREM SessionsKept == B2bSpec /\ AgilSpec /\ CostamarSpec => ProviderSessionsAreKept
<1>1. B2bIInv /\ [B2bNext]_b2bVars => B2bIInv' /\ [KeepsSecrets]_b2bVars
  BY B2bStep
<1>2. KeepsSecrets =>
        /\ given # 0 /\ given' = 0 =>
             \E p \in heard : At(p, "submitted") /\ screen[p] = "login"
        /\ \A p \in heard : driver'[p].at = "signed in" /\ driver[p].at # "signed in" =>
             screen[p] = "home" \/ (screen[p] = "login" /\ At(p, "looks for code"))
  BY DEF KeepsSecrets
<1>3. B2bSpec => SecretsAreKept
  BY <1>1, <1>2, B2bInitHolds, PTL DEF B2bSpec, SecretsAreKept
<1>4. AgilIInv /\ [AgilNext]_agilVars => AgilIInv' /\ [TellsTruly]_agilVars
  BY AgilStep
<1>5. TellsTruly =>
        \A c \in AgilCaller :
          /\ caller[c] \in {"idle", "waiting"} /\ caller'[c] = "serving" => held'[c].expires > clock
          /\ caller[c] = "waiting" /\ caller'[c] = "failed" =>
               load.step \in {"browser", "refresh"} /\ stopped' = stopped
  BY DEF TellsTruly
<1>6. AgilSpec => WaitersToldTruly
  BY <1>4, <1>5, AgilInitHolds, PTL DEF AgilSpec, WaitersToldTruly
<1>7. CostamarIInv /\ [CostamarNext]_costamarVars =>
        [\A a \in Attempt :
           attempt[a].step = "rest" /\ attempt'[a].step # "rest" =>
             /\ Running = {}
             /\ \/ tick - recent >= Cooldown
                \/ \E c \in CostamarCaller : asker[c].step = "resolved" /\ asker'[c].on = a]_costamarVars
  BY SpacedStep
<1>8. CostamarSpec => SignInsAreSpaced
  BY <1>7, CostamarInitHolds, CostamarStep, PTL DEF CostamarSpec, SignInsAreSpaced
<1> QED
  BY <1>3, <1>6, <1>8, PTL DEF ProviderSessionsAreKept

-----------------------------------------------------------------------------
(* AN EXACT SEARCH AND THE SLOTS (AgilSearch)                              *)

(* A set of numbers that is not empty has a smallest one.                  *)
LEMMA SmallestNat ==
  ASSUME NEW S \in SUBSET Nat, S # {}
  PROVE  \E m \in S : \A n \in S : m <= n
<1> DEFINE Less == OpToRel(<, Nat)
<1>1. \A x, y \in Nat : x < y => <<x, y>> \in Less
  BY DEF OpToRel
<1>2. IsWellFoundedOn(Less, Nat)
  BY NatLessThanWellFounded
<1> HIDE DEF Less
<1>3. PICK m \in S : \A n \in S : ~(<<n, m>> \in Less)
  BY <1>2, WFMin, Zenon
<1>4. \A n \in S : ~(n < m)
  BY <1>1, <1>3
<1>5. \A n \in S : m <= n
  BY <1>4
<1> QED
  BY <1>5

(* A set that holds 0 and, with each number below a bound, the next one,   *)
(* holds all numbers up to the bound.                                      *)
LEMMA UpTo ==
  ASSUME NEW N \in Nat, NEW S, 0 \in S, \A n \in Nat : n < N /\ n \in S => n + 1 \in S
  PROVE  \A n \in 0..N : n \in S
<1> DEFINE missing == {n \in 0..N : n \notin S}
<1>1. SUFFICES ASSUME missing # {} PROVE FALSE
  OBVIOUS
<1>2. missing \in SUBSET Nat
  OBVIOUS
<1>3. \E m \in missing : \A n \in missing : m <= n
  <2> HIDE DEF missing
  <2> QED
    BY <1>1, <1>2, SmallestNat
<1>4. PICK m \in missing : \A n \in missing : m <= n
  BY <1>3
<1>5. m \in Nat /\ m # 0 /\ m <= N /\ m - 1 \in Nat /\ m - 1 < N
  BY <1>4
<1>6. m - 1 \in S
  BY <1>4, <1>5
<1>7. (m - 1) + 1 \in S
  BY <1>5, <1>6
<1> QED
  BY <1>4, <1>5, <1>7

OnlyOnce(q) == \A i, j \in 1..Len(q) : q[i] = q[j] => i = j

(* Who joins a queue is the last of it.                                    *)
LEMMA JoinsQueue ==
  ASSUME NEW T, NEW q \in Seq(T), NEW x \in T
  PROVE  /\ Append(q, x) \in Seq(T)
         /\ ToSet(Append(q, x)) = ToSet(q) \cup {x}
         /\ OnlyOnce(q) /\ x \notin ToSet(q) => OnlyOnce(Append(q, x))
<1>1. /\ Append(q, x) \in Seq(T) /\ Len(Append(q, x)) = Len(q) + 1 /\ Len(q) \in Nat
      /\ Append(q, x)[Len(q) + 1] = x
      /\ \A i \in 1..Len(q) : Append(q, x)[i] = q[i]
  OBVIOUS
<1>2. DOMAIN q = 1..Len(q) /\ DOMAIN Append(q, x) = 1..(Len(q) + 1)
  BY <1>1
<1>3. ToSet(Append(q, x)) = ToSet(q) \cup {x}
  <2>1. ToSet(q) = {q[i] : i \in 1..Len(q)} /\ ToSet(Append(q, x)) = {Append(q, x)[i] : i \in 1..(Len(q) + 1)}
    BY <1>2 DEF ToSet
  <2> QED
    BY <1>1, <2>1
<1>4. ASSUME OnlyOnce(q), x \notin ToSet(q) PROVE OnlyOnce(Append(q, x))
  <2>1. \A i \in 1..Len(q) : q[i] # x
    BY <1>2, <1>4 DEF ToSet
  <2>2. SUFFICES ASSUME NEW i \in 1..(Len(q) + 1), NEW j \in 1..(Len(q) + 1), Append(q, x)[i] = Append(q, x)[j] PROVE i = j
    BY <1>1 DEF OnlyOnce
  <2>3. CASE i \in 1..Len(q) /\ j \in 1..Len(q)
    BY <1>1, <1>4, <2>2, <2>3 DEF OnlyOnce
  <2>4. CASE i = Len(q) + 1 \/ j = Len(q) + 1
    BY <1>1, <2>1, <2>2, <2>4
  <2> QED
    BY <2>3, <2>4
<1> QED
  BY <1>1, <1>3, <1>4

(* Who leaves it first is its head.                                        *)
LEMMA LeavesQueue ==
  ASSUME NEW T, NEW q \in Seq(T), q # <<>>, OnlyOnce(q)
  PROVE  /\ Head(q) \in ToSet(q) /\ Tail(q) \in Seq(T)
         /\ ToSet(Tail(q)) = ToSet(q) \ {Head(q)}
         /\ OnlyOnce(Tail(q))
<1>1. /\ Len(q) \in Nat \ {0} /\ Head(q) = q[1] /\ Tail(q) \in Seq(T) /\ Len(Tail(q)) = Len(q) - 1
      /\ \A i \in 1..(Len(q) - 1) : Tail(q)[i] = q[i + 1]
  OBVIOUS
<1>2. DOMAIN q = 1..Len(q) /\ DOMAIN Tail(q) = 1..(Len(q) - 1)
  BY <1>1
<1>3. /\ ToSet(q) = {q[i] : i \in 1..Len(q)}
      /\ ToSet(Tail(q)) = {Tail(q)[i] : i \in 1..(Len(q) - 1)}
  BY <1>2 DEF ToSet
<1>4. OnlyOnce(Tail(q))
  BY <1>1 DEF OnlyOnce
<1>5. ToSet(Tail(q)) \subseteq ToSet(q) \ {Head(q)}
  BY <1>1, <1>3 DEF OnlyOnce
<1>6. ASSUME NEW x \in ToSet(q) \ {Head(q)} PROVE x \in ToSet(Tail(q))
  <2>1. PICK i \in 1..Len(q) : q[i] = x
    BY <1>3, <1>6
  <2>2. i # 1 /\ i - 1 \in 1..(Len(q) - 1) /\ Tail(q)[i - 1] = x
    BY <1>1, <1>6, <2>1
  <2> QED
    BY <1>3, <2>2
<1> QED
  BY <1>1, <1>3, <1>4, <1>5, <1>6

(* The queue without a search's requests has the others, each once.        *)
LEMMA OthersAreLeft ==
  ASSUME waiters \in Seq(Task), OnlyOnce(waiters), NEW s
  PROVE  /\ WaitersLeft(s) \in Seq(Task) /\ OnlyOnce(WaitersLeft(s))
         /\ ToSet(WaitersLeft(s)) = {t \in ToSet(waiters) : t[1] # s}
<1> DEFINE N == Len(waiters)
           Longer(q, n) == IF waiters[n][1] = s THEN q ELSE Append(q, waiters[n])
           IsLeft(g, m) == g = [n \in 0..m |-> IF n = 0 THEN <<>> ELSE Longer(g[n - 1], n)]
           left[n \in 0..N] == IF n = 0 THEN <<>>
                               ELSE IF waiters[n][1] = s THEN left[n - 1] ELSE Append(left[n - 1], waiters[n])
           Known == {m \in Nat : \E g : IsLeft(g, m)}
<1>1. N \in Nat /\ DOMAIN waiters = 1..N
  OBVIOUS
<1>2. \A m \in 0..N : m \in Known
  <2>1. 0 \in Known
    <3>1. IsLeft([n \in 0..0 |-> <<>>], 0)
      OBVIOUS
    <3> QED
      BY <3>1
  <2>2. ASSUME NEW m \in Nat, m < N, m \in Known PROVE m + 1 \in Known
    <3>1. PICK g : IsLeft(g, m)
      BY <2>2
    <3> DEFINE h == [n \in 0..(m + 1) |-> IF n = m + 1 THEN Longer(g[m], m + 1) ELSE g[n]]
    <3> HIDE DEF Longer
    <3>2. \A n \in 0..m : h[n] = IF n = 0 THEN <<>> ELSE Longer(h[n - 1], n)
      BY <3>1
    <3>3. h[m + 1] = Longer(h[m], m + 1) /\ m + 1 # 0 /\ (m + 1) - 1 = m
      OBVIOUS
    <3>4. \A n \in 0..(m + 1) : n \in 0..m \/ n = m + 1
      OBVIOUS
    <3>5. \A n \in 0..(m + 1) : h[n] = IF n = 0 THEN <<>> ELSE Longer(h[n - 1], n)
      BY <3>2, <3>3, <3>4
    <3>6. IsLeft(h, m + 1)
      BY <3>5
    <3>7. m + 1 \in Nat
      OBVIOUS
    <3> HIDE DEF h, IsLeft
    <3> QED
      BY <3>6, <3>7
  <2> HIDE DEF Known
  <2> QED
    BY <1>1, <2>1, <2>2, UpTo
<1>3. \E g : IsLeft(g, N)
  BY <1>1, <1>2
<1>4. left = CHOOSE g : IsLeft(g, N)
  BY DEF left
<1>5. WaitersLeft(s) = left[N]
  BY DEF WaitersLeft
<1> HIDE DEF left, Longer
<1>6. IsLeft(left, N)
  BY <1>3, <1>4
<1>7. left[0] = <<>> /\ \A n \in Nat : n < N => left[n + 1] = Longer(left[n], n + 1)
  BY <1>1, <1>6
<1> DEFINE Passed(n) == {waiters[i] : i \in {j \in 1..n : waiters[j][1] # s}}
           Right == {n \in Nat : left[n] \in Seq(Task) /\ OnlyOnce(left[n]) /\ ToSet(left[n]) = Passed(n)}
<1>8. 0 \in Right
  <2>1. <<>> \in Seq(Task) /\ Len(<<>>) = 0 /\ DOMAIN <<>> = {}
    OBVIOUS
  <2>2. OnlyOnce(<<>>) /\ ToSet(<<>>) = {}
    BY <2>1 DEF OnlyOnce, ToSet
  <2>3. Passed(0) = {}
    OBVIOUS
  <2> HIDE DEF Passed
  <2> QED
    BY <1>7, <2>1, <2>2, <2>3
<1>9. ASSUME NEW n \in Nat, n < N, n \in Right PROVE n + 1 \in Right
  <2>1. waiters[n + 1] \in Task /\ n + 1 \in 1..N
    BY <1>1, <1>9
  <2>2. CASE waiters[n + 1][1] = s
    <3>1. left[n + 1] = left[n]
      BY <1>7, <1>9, <2>2 DEF Longer
    <3>2. Passed(n + 1) = Passed(n)
      BY <2>2
    <3>3. n + 1 \in Nat
      OBVIOUS
    <3> HIDE DEF Passed
    <3> QED
      BY <1>9, <3>1, <3>2, <3>3
  <2>3. CASE waiters[n + 1][1] # s
    <3>1. left[n + 1] = Append(left[n], waiters[n + 1])
      BY <1>7, <1>9, <2>3 DEF Longer
    <3>2. Passed(n + 1) = Passed(n) \cup {waiters[n + 1]}
      BY <2>3
    <3>3. waiters[n + 1] \notin Passed(n)
      BY <1>9, <2>1 DEF OnlyOnce
    <3>4. left[n] \in Seq(Task) /\ OnlyOnce(left[n]) /\ ToSet(left[n]) = Passed(n)
      BY <1>9
    <3> HIDE DEF Passed
    <3>5. /\ left[n + 1] \in Seq(Task) /\ OnlyOnce(left[n + 1])
          /\ ToSet(left[n + 1]) = Passed(n) \cup {waiters[n + 1]}
      BY <2>1, <3>1, <3>3, <3>4, JoinsQueue
    <3>6. n + 1 \in Nat
      OBVIOUS
    <3> QED
      BY <3>2, <3>5, <3>6
  <2> QED
    BY <2>2, <2>3
<1>10. N \in Right
  <2> HIDE DEF Right
  <2>1. \A n \in 0..N : n \in Right
    BY <1>1, <1>8, <1>9, UpTo
  <2> QED
    BY <1>1, <2>1
<1>11. Passed(N) = {t \in ToSet(waiters) : t[1] # s}
  BY <1>1 DEF ToSet
<1> QED
  BY <1>5, <1>10, <1>11

AgilQueryRecord ==
  [kind : {"exact", "every"}, phase : {"idle", "start", "ask", "renew", "answered", "failed"},
   round : Round, halted : BOOLEAN, partial : BOOLEAN, reason : {"none", "failed", "refused"}]

AllTodo(s, r) == \A t \in TasksOf(s, r) : task[t] = "todo"
Failures(s) == {t \in TasksOf(s, query[s].round) : task[t] \in {"failed", "refused"}}
NoneAnswered(s) == \A t \in TasksOf(s, query[s].round) : task[t] # "answered"
WasRefused(s) == query[s].kind = "every" /\ \E t \in Task : t[1] = s /\ task[t] = "refused"

(* What a search's phase says of its requests: a round that was not begun  *)
(* has asked nothing, one that was given up was refused the token, and the *)
(* others are over when the search is.                                     *)
QueryIsRight(s) ==
  /\ query[s].halted => query[s].kind = "exact" /\ s \in aborted
  /\ query[s].phase = "idle" => query[s].round = 1 /\ ~query[s].halted
  /\ query[s].phase \in {"idle", "start"} => AllTodo(s, query[s].round)
  /\ query[s].round = 1 => AllTodo(s, 2)
  /\ query[s].kind = "exact" => \A r \in Round \ {query[s].round} : AllTodo(s, r)
  /\ query[s].phase = "renew" => query[s].round = 1 /\ (AllTodo(s, 1) \/ WasRefused(s))
  /\ query[s].phase = "answered" => AllAsked(s) /\ query[s].partial = (Failures(s) # {} \/ query[s].halted)
  /\ query[s].phase = "failed" =>
       WasRefused(s) \/ AllTodo(s, query[s].round) \/ (AllAsked(s) /\ NoneAnswered(s))

AgilSearchIInv ==
  /\ AgilSearchTypeOK /\ SlotsAreShared /\ OnlyOnce(waiters) /\ IsFiniteSet(In("inflight"))
  /\ \A s \in AgilQuery : QueryIsRight(s)

(* At the start nothing is asked and every slot is free.                   *)
LEMMA AgilSearchInitHolds == AgilSearchInit => AgilSearchIInv
<1> SUFFICES ASSUME AgilSearchInit PROVE AgilSearchIInv
  OBVIOUS
<1>1. /\ query = [s \in AgilQuery |-> Resting] /\ expired = {} /\ aborted = {}
      /\ task = [t \in Task |-> "todo"] /\ inFlight = 0 /\ waiters = <<>>
  BY DEF AgilSearchInit
<1>2. AgilSearchTypeOK
  <2>1. query \in [AgilQuery -> AgilQueryRecord]
    BY <1>1 DEF Resting, AgilQueryRecord, Round
  <2>2. <<>> \in Seq(Task)
    OBVIOUS
  <2> QED
    BY <1>1, <2>1, <2>2 DEF AgilSearchTypeOK, AgilQueryRecord
<1>3. In("inflight") = {} /\ In("waiting") = {}
  BY <1>1 DEF In
<1>4. ToSet(<<>>) = {} /\ OnlyOnce(<<>>)
  BY DEF ToSet, OnlyOnce
<1>5. IsFiniteSet({}) /\ Cardinality({}) = 0
  BY FS_EmptySet
<1>6. SlotsAreShared
  <2>1. inFlight = Cardinality(In("inflight")) /\ inFlight <= SlotLimit
    <3>1. SlotLimit \in Nat
      BY AgilSearchAssumption
    <3>2. Cardinality(In("inflight")) = 0
      BY <1>3, <1>5
    <3> QED
      BY <1>1, <3>1, <3>2
  <2>2. ToSet(waiters) = {}
    BY <1>1, <1>4
  <2> QED
    BY <1>1, <1>3, <2>1, <2>2 DEF SlotsAreShared
<1>7. \A s \in AgilQuery : QueryIsRight(s)
  BY <1>1 DEF QueryIsRight, Resting, AllTodo, TasksOf, Round
<1> QED
  BY <1>1, <1>2, <1>3, <1>4, <1>5, <1>6, <1>7 DEF AgilSearchIInv

(* A search that nothing happened to but that requests of its go on stays  *)
(* as right as it was.                                                     *)
LEMMA OtherQueryKeeps ==
  ASSUME NEW s \in AgilQuery, QueryIsRight(s), query'[s] = query[s], aborted \subseteq aborted',
         \A t \in Task : t[1] = s /\ task[t] \in Settled \cup {"todo"} => task'[t] = task[t]
  PROVE  QueryIsRight(s)'
<1>1. \A r : AllTodo(s, r) => AllTodo(s, r)'
  BY DEF AllTodo, TasksOf
<1>2. WasRefused(s) => WasRefused(s)'
  BY DEF WasRefused, Settled
<1>3. AllAsked(s) => AllAsked(s)' /\ Failures(s)' = Failures(s) /\ (NoneAnswered(s) => NoneAnswered(s)')
  BY DEF AllAsked, Failures, NoneAnswered, TasksOf, Settled
<1> QED
  BY <1>1, <1>2, <1>3 DEF QueryIsRight

(* A worker takes a GDS only for a round that was begun and not stopped.   *)
LEMMA TakeKeepsQuery ==
  ASSUME AgilSearchTypeOK, NEW t \in Task, QueryIsRight(t[1]), MayTake(t),
         NEW state, task' = [task EXCEPT ![t] = state], aborted' = aborted,
         query' = query \/ query' = Reported(t[1])
  PROVE  QueryIsRight(t[1])'
<1> DEFINE s == t[1]
<1>1. s \in AgilQuery /\ t[2] \in Round /\ query[s] \in AgilQueryRecord /\ task[t] = "todo" /\ ~query[s].halted
  BY DEF Task, AgilSearchTypeOK, MayTake, AgilQueryRecord
<1>2. ~AllTodo(s, t[2]) \/ (query[s].phase = "ask" /\ query[s].round = t[2])
  BY DEF MayTake, AllTodo, TasksOf
<1>3. /\ query'[s].kind = query[s].kind /\ query'[s].phase = query[s].phase /\ query'[s].round = query[s].round
      /\ query'[s].partial = query[s].partial
      /\ query'[s].halted => query[s].kind = "exact" /\ s \in aborted
  BY <1>1 DEF Reported, AgilSearchTypeOK, AgilQueryRecord
<1>4. \A u \in Task : u # t => task'[u] = task[u]
  BY DEF AgilSearchTypeOK
<1>5. \A r : r # t[2] => TasksOf(s, r) \subseteq Task \ {t}
  BY DEF TasksOf
<1>6. \A r : r # t[2] /\ AllTodo(s, r) => AllTodo(s, r)'
  BY <1>4, <1>5 DEF AllTodo, TasksOf
<1>7. WasRefused(s) => WasRefused(s)'
  BY <1>1, <1>3, <1>4 DEF WasRefused
<1>8. query[s].kind = "exact" => t[2] = query[s].round
  BY <1>1, <1>2 DEF QueryIsRight
<1>9. AllAsked(s) => t[2] # query[s].round
  BY <1>1 DEF AllAsked, TasksOf, Settled
<1>10. AllAsked(s) => /\ AllAsked(s)' /\ Failures(s)' = Failures(s) /\ (NoneAnswered(s) => NoneAnswered(s)')
                      /\ ~query'[s].halted
  <2> SUFFICES ASSUME AllAsked(s)
               PROVE  /\ AllAsked(s)' /\ Failures(s)' = Failures(s) /\ (NoneAnswered(s) => NoneAnswered(s)')
                      /\ ~query'[s].halted
    OBVIOUS
  <2>1. query[s].kind # "exact" /\ \A u \in TasksOf(s, query[s].round) : task[u] \in Settled /\ task'[u] = task[u]
    BY <1>1, <1>4, <1>5, <1>8, <1>9 DEF AllAsked, TasksOf
  <2> QED
    BY <1>3, <2>1 DEF AllAsked, Failures, NoneAnswered, TasksOf
<1> QED
  BY <1>1, <1>2, <1>3, <1>6, <1>7, <1>8, <1>10 DEF QueryIsRight, Round

(* A request that waits or is sent belongs to a round that was begun.      *)
LEMMA AnswerKeepsQuery ==
  ASSUME AgilSearchTypeOK, NEW t \in Task, QueryIsRight(t[1]), task[t] = "inflight",
         NEW ending \in Settled, task'[t] = ending, aborted' = aborted,
         \A u \in Task : task[u] \in Settled \cup {"todo"} => task'[u] = task[u],
         \/ query' = Reported(t[1])
         \/ /\ ending = "refused" /\ query[t[1]].kind = "every"
            /\ query[t[1]].phase = "ask" /\ query[t[1]].round = t[2] /\ query' = Raised(t[1], "refused")
  PROVE  QueryIsRight(t[1])'
<1> DEFINE s == t[1]
<1>1. s \in AgilQuery /\ t[2] \in Round /\ query[s] \in AgilQueryRecord
  BY DEF Task, AgilSearchTypeOK, AgilQueryRecord
<1>2. ~AllTodo(s, t[2])
  BY DEF AllTodo, TasksOf
<1>3. \A r : AllTodo(s, r) => AllTodo(s, r)'
  BY DEF AllTodo, TasksOf
<1>4. query[s].kind = "exact" => t[2] = query[s].round
  BY <1>1, <1>2 DEF QueryIsRight
<1>5. AllAsked(s) => query[s].round # t[2]
  BY DEF AllAsked, TasksOf, Settled
<1>6. CASE query' = Reported(s)
  <2>1. /\ query'[s].kind = query[s].kind /\ query'[s].phase = query[s].phase /\ query'[s].round = query[s].round
        /\ query'[s].partial = query[s].partial
        /\ query'[s].halted = (query[s].kind = "exact" /\ s \in aborted)
    BY <1>1, <1>6 DEF Reported, AgilSearchTypeOK, AgilQueryRecord
  <2>2. WasRefused(s) => WasRefused(s)'
    BY <2>1 DEF WasRefused, Settled
  <2>3. AllAsked(s) => /\ AllAsked(s)' /\ Failures(s)' = Failures(s) /\ (NoneAnswered(s) => NoneAnswered(s)')
                       /\ query'[s].halted = query[s].halted
    <3> SUFFICES ASSUME AllAsked(s)
                 PROVE  /\ AllAsked(s)' /\ Failures(s)' = Failures(s) /\ (NoneAnswered(s) => NoneAnswered(s)')
                        /\ query'[s].halted = query[s].halted
      OBVIOUS
    <3>1. query'[s].halted = query[s].halted
      BY <1>1, <1>4, <1>5, <2>1 DEF QueryIsRight, AgilQueryRecord
    <3>2. \A u \in TasksOf(s, query[s].round) : task'[u] = task[u]
      BY DEF AllAsked, TasksOf
    <3> QED
      BY <2>1, <3>1, <3>2 DEF AllAsked, Failures, NoneAnswered, TasksOf
  <2>4. query[s].phase # "idle"
    BY <1>1, <1>2 DEF QueryIsRight, Round
  <2> QED
    BY <1>1, <1>2, <1>3, <2>1, <2>2, <2>3, <2>4 DEF QueryIsRight, Round
<1>7. CASE /\ ending = "refused" /\ query[s].kind = "every" /\ query[s].phase = "ask" /\ query[s].round = t[2]
           /\ query' = Raised(s, "refused")
  <2>1. /\ query'[s].kind = "every" /\ query'[s].round = query[s].round /\ query'[s].halted = query[s].halted
        /\ query'[s].phase = IF query[s].round = 1 THEN "renew" ELSE "failed"
    BY <1>1, <1>7 DEF Raised, AgilSearchTypeOK, AgilQueryRecord
  <2>2. WasRefused(s)'
    BY <1>7, <2>1 DEF WasRefused
  <2> QED
    BY <1>1, <1>3, <1>7, <2>1, <2>2 DEF QueryIsRight
<1> QED
  BY <1>6, <1>7

(* The steps a search takes between its requests.                          *)
LEMMA PhaseKeepsQuery ==
  ASSUME AgilSearchTypeOK, NEW s \in AgilQuery, QueryIsRight(s),
         AskAgil(s) \/ StartAgilSearch(s) \/ RenewToken(s) \/ EndAgilSearch(s) \/ TokenExpires(s)
  PROVE  QueryIsRight(s)' /\ query' \in [AgilQuery -> AgilQueryRecord]
<1>1. query \in [AgilQuery -> AgilQueryRecord] /\ UNCHANGED <<task, aborted>>
  BY DEF AgilSearchTypeOK, AgilQueryRecord, AskAgil, StartAgilSearch, RenewToken, EndAgilSearch, TokenExpires
<1>2. \A r : AllTodo(s, r) => AllTodo(s, r)'
  BY <1>1 DEF AllTodo, TasksOf
<1>3. CASE AskAgil(s)
  <2>1. query'[s].phase = "start" /\ query'[s].round = query[s].round /\ query'[s].halted = query[s].halted
    BY <1>1, <1>3 DEF AskAgil, AgilQueryRecord
  <2>2. \A r : AllTodo(s, r)
    BY <1>3 DEF AskAgil, AllTodo, TasksOf
  <2>3. query' \in [AgilQuery -> AgilQueryRecord]
    BY <1>1, <1>3 DEF AskAgil, AgilQueryRecord
  <2> QED
    BY <1>1, <1>2, <1>3, <2>1, <2>2, <2>3 DEF QueryIsRight, AskAgil
<1>4. CASE StartAgilSearch(s)
  <2>1. query[s].phase = "start" /\ AllTodo(s, query[s].round)
    BY <1>4 DEF StartAgilSearch, QueryIsRight
  <2>2. /\ query'[s].kind = query[s].kind /\ query'[s].round = query[s].round /\ query'[s].halted = query[s].halted
        /\ query'[s].phase \in {"ask", "failed"} \/ (query'[s].phase = "renew" /\ query[s].round = 1)
    BY <1>1, <1>4 DEF StartAgilSearch, Raised, AgilQueryRecord
  <2>3. query' \in [AgilQuery -> AgilQueryRecord]
    BY <1>1, <1>4 DEF StartAgilSearch, Raised, AgilQueryRecord
  <2> QED
    BY <1>1, <1>2, <2>1, <2>2, <2>3 DEF QueryIsRight
<1>5. CASE RenewToken(s)
  <2>1. query[s].round = 1 /\ (AllTodo(s, 1) \/ WasRefused(s)) /\ AllTodo(s, 2)
    BY <1>5 DEF RenewToken, QueryIsRight
  <2>2. /\ query'[s].kind = query[s].kind /\ query'[s].halted = query[s].halted
        /\ \/ query'[s].phase = "start" /\ query'[s].round = 2
           \/ query'[s].phase = "failed" /\ query'[s].round = query[s].round
    BY <1>1, <1>5 DEF RenewToken, AgilQueryRecord
  <2>3. query' \in [AgilQuery -> AgilQueryRecord]
    BY <1>1, <1>5 DEF RenewToken, AgilQueryRecord, Round
  <2>4. WasRefused(s) => WasRefused(s)'
    BY <1>1, <2>2 DEF WasRefused
  <2>5. query[s].kind = "exact" => AllTodo(s, 1)
    BY <2>1 DEF WasRefused
  <2> QED
    BY <1>1, <1>2, <2>1, <2>2, <2>3, <2>4, <2>5 DEF QueryIsRight, Round
<1>6. CASE EndAgilSearch(s)
  <2> DEFINE failures == Failures(s)
             first == CHOOSE t \in failures : \A u \in failures : t[3] <= u[3]
  <2>1. AllAsked(s) /\ query[s].phase = "ask"
    BY <1>6 DEF EndAgilSearch
  <2>2. query' = [query EXCEPT ![s] = Outcome(s)]
    BY <1>6 DEF EndAgilSearch
  <2>3. /\ AllAsked(s) /\ query'[s].round = query[s].round /\ query'[s].halted = query[s].halted => AllAsked(s)'
        /\ query'[s].round = query[s].round => Failures(s)' = failures /\ (NoneAnswered(s) => NoneAnswered(s)')
    BY <1>1 DEF AllAsked, Failures, NoneAnswered, TasksOf
  <2>4. CASE failures # {} /\ NoneAnswered(s)
    <3>1. Outcome(s) = [query[s] EXCEPT !.phase = "failed", !.reason = task[first]]
      BY <2>4 DEF Outcome, Failures, NoneAnswered
    <3>2. \E t \in failures : \A u \in failures : t[3] <= u[3]
      <4> DEFINE S == {t[3] : t \in failures}
      <4>1. S \in SUBSET Nat /\ S # {}
        BY <2>4, AgilSearchAssumption DEF Failures, TasksOf, Task, Gds
      <4> HIDE DEF S
      <4>2. PICK n \in S : \A m \in S : n <= m
        BY <4>1, SmallestNat
      <4> USE DEF S
      <4>3. PICK t \in failures : t[3] = n
        OBVIOUS
      <4> QED
        BY <4>2, <4>3
    <3>3. task[first] \in {"failed", "refused"}
      BY <3>2 DEF Failures
    <3>4. query' \in [AgilQuery -> AgilQueryRecord]
      <4>1. [query[s] EXCEPT !.phase = "failed", !.reason = task[first]] \in AgilQueryRecord
        BY <1>1, <3>3 DEF AgilQueryRecord
      <4> QED
        BY <1>1, <2>2, <3>1, <4>1
    <3>5. /\ query'[s].kind = query[s].kind /\ query'[s].round = query[s].round /\ query'[s].halted = query[s].halted
          /\ query'[s].phase = "failed"
      BY <1>1, <2>2, <3>1, <3>3 DEF AgilQueryRecord
    <3> QED
      BY <1>1, <1>2, <2>1, <2>3, <2>4, <3>4, <3>5 DEF QueryIsRight
  <2>5. CASE ~(failures # {} /\ NoneAnswered(s))
    <3>1. Outcome(s) = [query[s] EXCEPT !.phase = "answered", !.partial = failures # {} \/ query[s].halted]
      BY <2>5 DEF Outcome, Failures, NoneAnswered
    <3>2. query' \in [AgilQuery -> AgilQueryRecord]
      BY <1>1, <2>2, <3>1, ZenonT(60) DEF AgilQueryRecord
    <3>3. /\ query'[s].kind = query[s].kind /\ query'[s].round = query[s].round /\ query'[s].halted = query[s].halted
          /\ query'[s].phase = "answered" /\ query'[s].partial = (failures # {} \/ query[s].halted)
      BY <1>1, <2>2, <3>1 DEF AgilQueryRecord
    <3> QED
      BY <1>1, <1>2, <2>1, <2>3, <3>2, <3>3 DEF QueryIsRight
  <2> QED
    BY <2>4, <2>5
<1>7. CASE TokenExpires(s)
  BY <1>1, <1>2, <1>7, OtherQueryKeeps DEF TokenExpires
<1> QED
  BY <1>3, <1>4, <1>5, <1>6, <1>7

(* Whether a search is told to stop is all that a report may change of it. *)
LEMMA HaltedOnly ==
  ASSUME query \in [AgilQuery -> AgilQueryRecord], NEW s \in AgilQuery, NEW b \in BOOLEAN
  PROVE  [query EXCEPT ![s].halted = b] \in [AgilQuery -> AgilQueryRecord]
BY DEF AgilQueryRecord

(* A request that takes its turn has a slot, or waits for one in line.     *)
LEMMA TakeKeepsSlots ==
  ASSUME AgilSearchIInv, NEW t \in Task, TakeGds(t)
  PROVE  AgilSearchTypeOK' /\ SlotsAreShared' /\ OnlyOnce(waiters)' /\ IsFiniteSet(In("inflight"))'
<1>1. /\ AgilSearchTypeOK /\ SlotsAreShared /\ OnlyOnce(waiters) /\ IsFiniteSet(In("inflight"))
      /\ task[t] = "todo" /\ t[1] \in AgilQuery /\ UNCHANGED <<expired, aborted>>
  BY DEF AgilSearchIInv, TakeGds, MayTake, Task
<1>2. query \in [AgilQuery -> AgilQueryRecord] /\ Reported(t[1]) \in [AgilQuery -> AgilQueryRecord]
  <2> DEFINE b == query[t[1]].kind = "exact" /\ t[1] \in aborted
  <2>1. query \in [AgilQuery -> AgilQueryRecord] /\ b \in BOOLEAN
    BY <1>1 DEF AgilSearchTypeOK, AgilQueryRecord
  <2>2. Reported(t[1]) = [query EXCEPT ![t[1]].halted = b]
    BY DEF Reported
  <2> HIDE DEF b
  <2> QED
    BY <1>1, <2>1, <2>2, HaltedOnly
<1>3. t \notin ToSet(waiters) /\ t \notin In("inflight")
  BY <1>1 DEF SlotsAreShared, In
<1>4. CASE /\ task' = [task EXCEPT ![t] = "failed"] /\ query' = Reported(t[1]) /\ UNCHANGED <<inFlight, waiters>>
  <2>1. In("inflight")' = In("inflight") /\ In("waiting")' = In("waiting")
    BY <1>1, <1>4 DEF In, AgilSearchTypeOK
  <2>2. AgilSearchTypeOK'
    BY <1>1, <1>2, <1>4 DEF AgilSearchTypeOK, AgilQueryRecord, Settled
  <2> QED
    BY <1>1, <1>4, <2>1, <2>2 DEF SlotsAreShared, OnlyOnce
<1>5. CASE /\ waiters = <<>> /\ inFlight < SlotLimit /\ task' = [task EXCEPT ![t] = "inflight"]
           /\ inFlight' = inFlight + 1 /\ UNCHANGED <<query, waiters>>
  <2>1. In("inflight")' = In("inflight") \cup {t} /\ In("waiting")' = In("waiting")
    BY <1>1, <1>5 DEF In, AgilSearchTypeOK
  <2>2. /\ IsFiniteSet(In("inflight"))' /\ Cardinality(In("inflight"))' = Cardinality(In("inflight")) + 1
    BY <1>1, <1>3, <2>1, FS_AddElement
  <2>3. inFlight + 1 \in Nat /\ inFlight + 1 <= SlotLimit
    BY <1>1, <1>5, AgilSearchAssumption DEF AgilSearchTypeOK
  <2>4. AgilSearchTypeOK'
    BY <1>1, <1>2, <1>5, <2>3 DEF AgilSearchTypeOK, AgilQueryRecord
  <2>5. inFlight' = Cardinality(In("inflight"))'
    BY <1>1, <1>5, <2>2 DEF SlotsAreShared
  <2> QED
    BY <1>1, <1>5, <2>1, <2>2, <2>3, <2>4, <2>5 DEF SlotsAreShared, OnlyOnce
<1>6. CASE /\ t[1] \notin aborted /\ (waiters # <<>> \/ inFlight >= SlotLimit)
           /\ task' = [task EXCEPT ![t] = "waiting"] /\ waiters' = Append(waiters, t) /\ UNCHANGED <<query, inFlight>>
  <2>1. In("inflight")' = In("inflight") /\ In("waiting")' = In("waiting") \cup {t}
    BY <1>1, <1>6 DEF In, AgilSearchTypeOK
  <2>2. /\ Append(waiters, t) \in Seq(Task) /\ ToSet(Append(waiters, t)) = ToSet(waiters) \cup {t}
        /\ OnlyOnce(Append(waiters, t))
    BY <1>1, <1>3, JoinsQueue DEF AgilSearchTypeOK
  <2>3. inFlight = SlotLimit
    BY <1>1, <1>6, AgilSearchAssumption DEF SlotsAreShared, AgilSearchTypeOK
  <2>4. AgilSearchTypeOK'
    BY <1>1, <1>2, <1>6, <2>2 DEF AgilSearchTypeOK, AgilQueryRecord
  <2>5. OnlyOnce(waiters)'
    BY <1>6, <2>2 DEF OnlyOnce
  <2>6. ToSet(waiters)' = In("waiting")' /\ \A u \in ToSet(waiters)' : u[1] \notin aborted'
    BY <1>1, <1>6, <2>1, <2>2 DEF SlotsAreShared
  <2> QED
    BY <1>1, <1>6, <2>1, <2>3, <2>4, <2>5, <2>6 DEF SlotsAreShared
<1> QED
  BY <1>4, <1>5, <1>6 DEF TakeGds

(* A slot that is given back goes to the first who waits.                  *)
LEMMA AnswerKeepsSlots ==
  ASSUME AgilSearchIInv, NEW t \in Task, task[t] = "inflight", NEW ending \in Settled, Released(t, ending),
         query' \in [AgilQuery -> AgilQueryRecord], UNCHANGED <<expired, aborted>>
  PROVE  /\ AgilSearchTypeOK' /\ SlotsAreShared' /\ OnlyOnce(waiters)' /\ IsFiniteSet(In("inflight"))'
         /\ task'[t] = ending /\ \A u \in Task : task[u] \in Settled \cup {"todo"} => task'[u] = task[u]
<1>1. /\ AgilSearchTypeOK /\ SlotsAreShared /\ OnlyOnce(waiters) /\ IsFiniteSet(In("inflight")) /\ t \in In("inflight")
      /\ ending \notin {"todo", "waiting", "inflight"}
  BY DEF AgilSearchIInv, In, Settled
<1>2. CASE waiters # <<>>
  <2> DEFINE h == Head(waiters)
  <2>1. /\ h \in ToSet(waiters) /\ Tail(waiters) \in Seq(Task) /\ ToSet(Tail(waiters)) = ToSet(waiters) \ {h}
        /\ OnlyOnce(Tail(waiters))
    BY <1>1, <1>2, LeavesQueue DEF AgilSearchTypeOK
  <2>2. h \in Task /\ task[h] = "waiting" /\ h # t
    BY <1>1, <2>1 DEF SlotsAreShared, In
  <2>3. task' = [task EXCEPT ![t] = ending, ![h] = "inflight"] /\ waiters' = Tail(waiters) /\ UNCHANGED inFlight
    BY <1>2 DEF Released
  <2> HIDE DEF h
  <2>4. /\ task' \in [Task -> {"todo", "waiting", "inflight"} \cup Settled]
        /\ task'[t] = ending /\ task'[h] = "inflight" /\ \A u \in Task \ {t, h} : task'[u] = task[u]
    BY <1>1, <2>2, <2>3 DEF AgilSearchTypeOK
  <2>5. In("inflight")' = (In("inflight") \ {t}) \cup {h} /\ In("waiting")' = In("waiting") \ {h}
    BY <1>1, <2>2, <2>4 DEF In
  <2>6. h \notin In("inflight") \ {t}
    BY <2>2 DEF In
  <2>7. IsFiniteSet(In("inflight") \ {t}) /\ Cardinality(In("inflight") \ {t}) = Cardinality(In("inflight")) - 1
    BY <1>1, FS_RemoveElement
  <2>8. IsFiniteSet(In("inflight"))' /\ Cardinality(In("inflight"))' = (Cardinality(In("inflight")) - 1) + 1
    BY <2>5, <2>6, <2>7, FS_AddElement
  <2>9. inFlight' = Cardinality(In("inflight"))'
    BY <1>1, <2>3, <2>8 DEF SlotsAreShared, AgilSearchTypeOK
  <2>10. AgilSearchTypeOK'
    BY <1>1, <2>1, <2>3, <2>4 DEF AgilSearchTypeOK, AgilQueryRecord
  <2>11. OnlyOnce(waiters)' /\ ToSet(waiters)' = In("waiting")' /\ \A u \in ToSet(waiters)' : u[1] \notin aborted'
    BY <1>1, <2>1, <2>3, <2>5 DEF SlotsAreShared, OnlyOnce
  <2>12. SlotsAreShared'
    BY <1>1, <1>2, <2>3, <2>9, <2>11 DEF SlotsAreShared
  <2>13. \A u \in Task : task[u] \in Settled \cup {"todo"} => task'[u] = task[u]
    BY <1>1, <2>2, <2>4 DEF Settled
  <2> QED
    BY <2>4, <2>8, <2>10, <2>11, <2>12, <2>13
<1>3. CASE waiters = <<>>
  <2>1. task' = [task EXCEPT ![t] = ending] /\ inFlight' = inFlight - 1 /\ UNCHANGED waiters
    BY <1>3 DEF Released
  <2>2. /\ task' \in [Task -> {"todo", "waiting", "inflight"} \cup Settled]
        /\ task'[t] = ending /\ \A u \in Task \ {t} : task'[u] = task[u]
    BY <1>1, <2>1 DEF AgilSearchTypeOK
  <2>3. In("inflight")' = In("inflight") \ {t} /\ In("waiting")' = In("waiting")
    BY <1>1, <2>2 DEF In
  <2>4. /\ IsFiniteSet(In("inflight") \ {t}) /\ Cardinality(In("inflight") \ {t}) = Cardinality(In("inflight")) - 1
    BY <1>1, FS_RemoveElement
  <2>5. Cardinality(In("inflight") \ {t}) \in Nat
    BY <2>4, FS_CardinalityType
  <2>6. inFlight' = Cardinality(In("inflight"))' /\ inFlight' \in Nat /\ inFlight' <= SlotLimit
    <3>1. inFlight' = Cardinality(In("inflight"))'
      BY <1>1, <2>1, <2>3, <2>4 DEF SlotsAreShared
    <3>2. inFlight' \in Nat
      BY <2>3, <2>5, <3>1
    <3>3. inFlight \in Nat /\ inFlight <= SlotLimit /\ SlotLimit \in Nat
      BY <1>1, AgilSearchAssumption DEF SlotsAreShared, AgilSearchTypeOK
    <3> QED
      BY <2>1, <3>1, <3>2, <3>3
  <2>7. AgilSearchTypeOK'
    BY <1>1, <2>1, <2>2, <2>6 DEF AgilSearchTypeOK, AgilQueryRecord
  <2>8. OnlyOnce(waiters)' /\ SlotsAreShared'
    BY <1>1, <1>3, <2>1, <2>3, <2>6 DEF SlotsAreShared, OnlyOnce
  <2>9. \A u \in Task : task[u] \in Settled \cup {"todo"} => task'[u] = task[u]
    BY <1>1, <2>2 DEF Settled
  <2> QED
    BY <2>2, <2>3, <2>4, <2>7, <2>8, <2>9
<1> QED
  BY <1>2, <1>3

(* A job that stops leaves the queue, and its searches are told to stop.   *)
LEMMA AbortHolds == ASSUME AgilSearchIInv, NEW s \in AgilQuery, AbortAgil(s) PROVE AgilSearchIInv'
<1>1. /\ AgilSearchTypeOK /\ SlotsAreShared /\ OnlyOnce(waiters) /\ IsFiniteSet(In("inflight"))
      /\ \A x \in AgilQuery : QueryIsRight(x)
  BY DEF AgilSearchIInv
<1>2. /\ aborted' = aborted \cup {s} /\ UNCHANGED <<expired, inFlight>> /\ query' = LeftQueue(s)
      /\ task' = [t \in Task |-> IF t[1] = s /\ task[t] = "waiting" THEN "failed" ELSE task[t]]
      /\ waiters' = WaitersLeft(s) /\ query[s].phase \in {"start", "ask", "renew"}
  BY DEF AbortAgil
<1>3. /\ waiters' \in Seq(Task) /\ OnlyOnce(waiters') /\ ToSet(waiters') = {t \in ToSet(waiters) : t[1] # s}
  BY <1>1, <1>2, OthersAreLeft DEF AgilSearchTypeOK
<1>4. /\ In("inflight")' = In("inflight") /\ In("waiting")' = {t \in In("waiting") : t[1] # s}
  BY <1>2 DEF In
<1>5. query \in [AgilQuery -> AgilQueryRecord] /\ query' \in [AgilQuery -> AgilQueryRecord]
  <2> DEFINE b == query[s].halted \/ (query[s].kind = "exact" /\ \E t \in In("waiting") : t[1] = s)
  <2>1. query \in [AgilQuery -> AgilQueryRecord]
    BY <1>1 DEF AgilSearchTypeOK, AgilQueryRecord
  <2>2. b \in BOOLEAN
    BY <2>1 DEF AgilQueryRecord
  <2>3. query' = [query EXCEPT ![s].halted = b]
    BY <1>2 DEF LeftQueue
  <2> HIDE DEF b
  <2> QED
    BY <2>1, <2>2, <2>3, HaltedOnly
<1>6. AgilSearchTypeOK'
  BY <1>1, <1>2, <1>3, <1>5 DEF AgilSearchTypeOK, AgilQueryRecord, Settled
<1>7. (waiters' # <<>>) => inFlight' = SlotLimit
  <2>1. waiters = <<>> => ToSet(waiters) = {}
    BY DEF ToSet
  <2>2. waiters' # <<>> => ToSet(waiters') # {}
    <3>1. waiters' # <<>> => Head(waiters') \in ToSet(waiters')
      BY <1>3, LeavesQueue
    <3> QED
      BY <3>1
  <2> QED
    BY <1>1, <1>2, <1>3, <2>1, <2>2 DEF SlotsAreShared
<1>8. SlotsAreShared'
  <2>1. ToSet(waiters)' = In("waiting")'
    BY <1>1, <1>3, <1>4 DEF SlotsAreShared
  <2>2. \A t \in ToSet(waiters)' : t[1] \notin aborted'
    BY <1>1, <1>2, <1>3 DEF SlotsAreShared
  <2>3. inFlight' = Cardinality(In("inflight"))' /\ inFlight' <= SlotLimit
    BY <1>1, <1>2, <1>4 DEF SlotsAreShared
  <2> QED
    BY <1>7, <2>1, <2>2, <2>3 DEF SlotsAreShared
<1>9. \A t \in Task : task[t] \in Settled \cup {"todo"} => task'[t] = task[t]
  BY <1>2 DEF Settled
<1>10. ASSUME NEW x \in AgilQuery, x # s PROVE QueryIsRight(x)'
  <2>1. query'[x] = query[x]
    BY <1>1, <1>2, <1>10 DEF LeftQueue, AgilSearchTypeOK
  <2> QED
    BY <1>1, <1>2, <1>9, <2>1, OtherQueryKeeps
<1>11. QueryIsRight(s)'
  <2>1. \A r : AllTodo(s, r) => AllTodo(s, r)'
    BY <1>9 DEF AllTodo, TasksOf
  <2>2. /\ query'[s].kind = query[s].kind /\ query'[s].phase = query[s].phase /\ query'[s].round = query[s].round
        /\ query'[s].halted => query[s].kind = "exact"
    BY <1>1, <1>2, <1>5 DEF LeftQueue, AgilQueryRecord, QueryIsRight
  <2>3. WasRefused(s) => WasRefused(s)'
    BY <1>9, <2>2 DEF WasRefused, Settled
  <2> QED
    BY <1>1, <1>2, <2>1, <2>2, <2>3 DEF QueryIsRight
<1> QED
  BY <1>1, <1>3, <1>4, <1>6, <1>8, <1>10, <1>11 DEF AgilSearchIInv, OnlyOnce

(* Every step keeps the slots and what each search says.                   *)
LEMMA AgilSearchStepHolds == AgilSearchIInv /\ [AgilSearchNext]_agilSearchVars => AgilSearchIInv'
<1>0. ASSUME AgilSearchIInv, UNCHANGED agilSearchVars PROVE AgilSearchIInv'
  <2>1. \A x \in AgilQuery : QueryIsRight(x)'
    BY <1>0, OtherQueryKeeps DEF AgilSearchIInv, agilSearchVars
  <2> QED
    BY <1>0, <2>1 DEF AgilSearchIInv, agilSearchVars, AgilSearchTypeOK, SlotsAreShared, OnlyOnce, In
<1> SUFFICES ASSUME AgilSearchIInv, NEW s \in AgilQuery,
                    AskAgil(s) \/ AgilSearchStep(s) \/ AbortAgil(s) \/ TokenExpires(s)
             PROVE  AgilSearchIInv'
  BY <1>0 DEF AgilSearchNext
<1>1. /\ AgilSearchTypeOK /\ SlotsAreShared /\ OnlyOnce(waiters) /\ IsFiniteSet(In("inflight"))
      /\ \A x \in AgilQuery : QueryIsRight(x)
  BY DEF AgilSearchIInv
<1>2. CASE AskAgil(s) \/ StartAgilSearch(s) \/ RenewToken(s) \/ EndAgilSearch(s) \/ TokenExpires(s)
  <2>1. UNCHANGED <<task, inFlight, waiters, aborted>> /\ expired' \subseteq AgilQuery
    BY <1>1, <1>2 DEF AskAgil, StartAgilSearch, RenewToken, EndAgilSearch, TokenExpires, AgilSearchTypeOK
  <2>2. \A x \in AgilQuery \ {s} : query'[x] = query[x]
    BY <1>1, <1>2 DEF AskAgil, StartAgilSearch, RenewToken, EndAgilSearch, TokenExpires, AgilSearchTypeOK, Raised
  <2>3. QueryIsRight(s)' /\ query' \in [AgilQuery -> AgilQueryRecord]
    BY <1>1, <1>2, PhaseKeepsQuery
  <2>4. \A x \in AgilQuery \ {s} : QueryIsRight(x)'
    BY <1>1, <2>1, <2>2, OtherQueryKeeps
  <2>5. AgilSearchTypeOK'
    BY <1>1, <2>1, <2>3 DEF AgilSearchTypeOK, AgilQueryRecord
  <2> QED
    BY <1>1, <2>1, <2>3, <2>4, <2>5 DEF AgilSearchIInv, SlotsAreShared, OnlyOnce, In
<1>3. CASE \E t \in Task : t[1] = s /\ TakeGds(t)
  <2>1. PICK t \in Task : t[1] = s /\ TakeGds(t)
    BY <1>3
  <2>2. AgilSearchTypeOK' /\ SlotsAreShared' /\ OnlyOnce(waiters)' /\ IsFiniteSet(In("inflight"))'
    BY <2>1, TakeKeepsSlots
  <2>3. /\ MayTake(t) /\ aborted' = aborted /\ (query' = query \/ query' = Reported(t[1]))
        /\ \E state : task' = [task EXCEPT ![t] = state]
    BY <2>1 DEF TakeGds
  <2>4. QueryIsRight(s)'
    BY <1>1, <2>1, <2>3, TakeKeepsQuery
  <2>5. \A x \in AgilQuery \ {s} : query'[x] = query[x]
    BY <1>1, <2>1, <2>3 DEF Reported, AgilSearchTypeOK
  <2>6. \A u \in Task : u[1] # s => task'[u] = task[u]
    BY <1>1, <2>1, <2>3 DEF AgilSearchTypeOK
  <2>7. \A x \in AgilQuery \ {s} : QueryIsRight(x)'
    BY <1>1, <2>3, <2>5, <2>6, OtherQueryKeeps
  <2> QED
    BY <2>2, <2>4, <2>7 DEF AgilSearchIInv
<1>4. CASE \E t \in Task : t[1] = s /\ GdsAnswers(t)
  <2>1. PICK t \in Task : t[1] = s /\ GdsAnswers(t)
    BY <1>4
  <2>2. PICK ending \in Settled :
          /\ Released(t, ending)
          /\ \/ query' = Reported(s)
             \/ /\ ending = "refused" /\ query[s].kind = "every" /\ query[s].phase = "ask" /\ query[s].round = t[2]
                /\ query' = Raised(s, "refused")
    BY <2>1 DEF GdsAnswers, Settled
  <2>3. task[t] = "inflight" /\ UNCHANGED <<expired, aborted>>
    BY <2>1 DEF GdsAnswers
  <2>4. query' \in [AgilQuery -> AgilQueryRecord] /\ \A x \in AgilQuery \ {s} : query'[x] = query[x]
    <3>1. query \in [AgilQuery -> AgilQueryRecord]
      BY <1>1 DEF AgilSearchTypeOK, AgilQueryRecord
    <3>2. CASE query' = Reported(s)
      <4> DEFINE b == query[s].kind = "exact" /\ s \in aborted
      <4>1. query' = [query EXCEPT ![s].halted = b] /\ b \in BOOLEAN
        BY <3>2 DEF Reported
      <4> HIDE DEF b
      <4> QED
        BY <3>1, <4>1, HaltedOnly
    <3>3. CASE query' = Raised(s, "refused")
      <4>1. query[s] \in AgilQueryRecord
        BY <3>1
      <4>2. /\ [query[s] EXCEPT !.phase = "renew"] \in AgilQueryRecord
            /\ [query[s] EXCEPT !.phase = "failed", !.reason = "refused"] \in AgilQueryRecord
        BY <4>1 DEF AgilQueryRecord
      <4>3. \/ query' = [query EXCEPT ![s] = [query[s] EXCEPT !.phase = "renew"]]
            \/ query' = [query EXCEPT ![s] = [query[s] EXCEPT !.phase = "failed", !.reason = "refused"]]
        BY <3>3 DEF Raised
      <4> QED
        BY <3>1, <4>2, <4>3
    <3> QED
      BY <2>2, <3>2, <3>3
  <2>5. /\ AgilSearchTypeOK' /\ SlotsAreShared' /\ OnlyOnce(waiters)' /\ IsFiniteSet(In("inflight"))'
        /\ task'[t] = ending /\ \A u \in Task : task[u] \in Settled \cup {"todo"} => task'[u] = task[u]
    BY <2>2, <2>3, <2>4, AnswerKeepsSlots
  <2>6. QueryIsRight(s)'
    BY <1>1, <2>1, <2>2, <2>3, <2>5, AnswerKeepsQuery
  <2>7. \A x \in AgilQuery \ {s} : QueryIsRight(x)'
    BY <1>1, <2>3, <2>4, <2>5, OtherQueryKeeps
  <2> QED
    BY <2>5, <2>6, <2>7 DEF AgilSearchIInv
<1> QED
  BY <1>2, <1>3, <1>4, AbortHolds DEF AgilSearchStep

(* An exact search says what its GDS answered, and the slots are held by   *)
(* requests in flight, none free while one waits                           *)
(* (createAgilInflightLimiter, searchEveryGds,                             *)
(* resolveLocalAgilExactProgressive).                                      *)
THEOREM GdsToldTruly == AgilSearchSpec => [](AgilSearchTypeOK /\ SlotsAreShared /\ PartialToldTruly)
<1>1. ASSUME AgilSearchIInv PROVE PartialToldTruly
  <2> SUFFICES ASSUME NEW s \in AgilQuery
               PROVE  LET tasks == TasksOf(s, query[s].round)
                          whole == {t \in tasks : task[t] = "answered"}
                      IN /\ query[s].phase = "answered" /\ ~query[s].halted => query[s].partial = (whole # tasks)
                         /\ query[s].phase = "answered" /\ whole # tasks => query[s].partial
                         /\ query[s].phase = "failed" /\ whole # {} =>
                              query[s].kind = "every" /\ \E t \in Task : t[1] = s /\ task[t] = "refused"
    BY DEF PartialToldTruly
  <2> DEFINE tasks == TasksOf(s, query[s].round)
             whole == {t \in tasks : task[t] = "answered"}
  <2>1. QueryIsRight(s)
    BY <1>1 DEF AgilSearchIInv
  <2>2. CASE query[s].phase = "answered"
    <3>1. AllAsked(s) /\ query[s].partial = (Failures(s) # {} \/ query[s].halted)
      BY <2>1, <2>2 DEF QueryIsRight
    <3>2. Failures(s) # {} => whole # tasks
      BY DEF Failures
    <3>3. whole # tasks => Failures(s) # {} \/ query[s].halted
      BY <3>1 DEF AllAsked, Failures, Settled
    <3> QED
      BY <2>2, <3>1, <3>2, <3>3
  <2>3. CASE query[s].phase = "failed" /\ whole # {}
    <3>1. WasRefused(s)
      BY <2>1, <2>3 DEF QueryIsRight, AllTodo, NoneAnswered
    <3> QED
      BY <2>3, <3>1 DEF WasRefused
  <2> QED
    BY <2>2, <2>3
<1>2. AgilSearchIInv => AgilSearchTypeOK /\ SlotsAreShared /\ PartialToldTruly
  BY <1>1 DEF AgilSearchIInv
<1> QED
  BY <1>2, AgilSearchInitHolds, AgilSearchStepHolds, PTL DEF AgilSearchSpec

-----------------------------------------------------------------------------
(* A FLEXIBLE SEARCH (DateSweep)                                           *)

(* Each day is where its count says, is asked only once the seed is over,  *)
(* and is quiet when the search has ended; a refusal is remembered, and    *)
(* nothing is told to stop unless its job was.                             *)
SweepIsRight ==
  /\ \A u \in Unit : /\ unit[u] = "todo" => asked[u] = 0
                     /\ unit[u] = "resting" => asked[u] <= RetryAttempts
                     /\ unit[u] = "refused" => refusals
  /\ seed = "asking" => \A u \in Unit : unit[u] = "todo"
  /\ ~RunningSweep => \A u \in Unit : unit[u] \notin {"asking", "resting"}
  /\ sweep.stopRequested => gone

SweepIInv == SweepTypeOK /\ SweepIsRight /\ SweepToldTruly

(* At the start no day was asked.                                          *)
LEMMA SweepInitHolds == SweepInit => SweepIInv
<1>1. ASSUME SweepInit PROVE SweepTypeOK
  <2>1. 0 \in 0..(RetryAttempts + 1)
    BY SweepAssumption
  <2>2. /\ sweep \in [provider : {"agil-local", "costamar"}, mode : {"range", "matrix"}, stopRequested : BOOLEAN,
                      end : {"running", "complete", "partial"} \union Failure \union {"refused"}]
        /\ seed \in {"none", "asking", "done"}
    BY <1>1 DEF SweepInit
  <2>3. unit \in [Unit -> {"todo", "asking", "resting"} \union Ended] /\ asked \in [Unit -> 0..(RetryAttempts + 1)]
    BY <1>1, <2>1 DEF SweepInit
  <2> QED
    BY <1>1, <2>2, <2>3 DEF SweepInit, SweepTypeOK
<1>2. ASSUME SweepInit PROVE sweep.end = "running" /\ ~sweep.stopRequested
  BY <1>2 DEF SweepInit
<1>3. ASSUME SweepInit PROVE SweepIsRight
  BY <1>2, <1>3 DEF SweepInit, SweepIsRight, RunningSweep
<1>4. ASSUME SweepInit PROVE SweepToldTruly
  BY <1>2, <1>4 DEF SweepInit, SweepToldTruly, Failure
<1> QED
  BY <1>1, <1>3, <1>4 DEF SweepIInv

(* A set of days that is not empty has a first one.                        *)
LEMMA FirstOfDays ==
  ASSUME NEW S \in SUBSET Unit, S # {}
  PROVE  \E u \in S : \A v \in S : u <= v
<1> DEFINE Less == OpToRel(<, Nat)
<1>1. \A x, y \in Nat : x < y => <<x, y>> \in Less
  BY DEF OpToRel
<1>2. S \subseteq Nat
  BY SweepAssumption DEF Unit
<1>3. IsWellFoundedOn(Less, Nat)
  BY NatLessThanWellFounded
<1> HIDE DEF Less
<1>4. PICK u \in S : \A v \in S : ~(<<v, u>> \in Less)
  BY <1>2, <1>3, WFMin, Zenon
<1>5. \A v \in S : ~(v < u)
  BY <1>1, <1>2, <1>4
<1>6. \A v \in S : u <= v
  BY <1>2, <1>5
<1> QED
  BY <1>6

(* A search that fails fails with what one of its days met.                *)
LEMMA SweepEndIs ==
  ASSUME SweepTypeOK
  PROVE  /\ SweepEnd \in {"complete", "partial", "refused"} \cup Failure
         /\ SweepEnd \in Failure => UnitsIn(Answer) = {}
         /\ SweepEnd = "refused" => refusals
         /\ SweepEnd = "complete" => /\ ~refusals /\ UnitsIn(Failure) = {} /\ UnitsIn({"partial"}) = {}
                                     /\ ~(sweep.mode = "range" /\ sweep.stopRequested)
         /\ SweepEnd = "partial" => \/ UnitsIn(Failure) # {} /\ UnitsIn(Answer) # {}
                                    \/ UnitsIn({"partial"}) # {}
                                    \/ sweep.stopRequested
<1> DEFINE failures == UnitsIn(Failure)
           first == CHOOSE u \in failures : \A v \in failures : u <= v
<1>1. CASE ~refusals /\ UnitsIn(Answer) = {} /\ failures # {}
  <2>1. failures \in SUBSET Unit
    BY DEF UnitsIn
  <2>2. \E u \in failures : \A v \in failures : u <= v
    BY <1>1, <2>1, FirstOfDays
  <2>3. first \in failures
    BY <2>2
  <2>4. unit[first] \in Failure
    BY <2>3 DEF UnitsIn
  <2>5. SweepEnd = unit[first]
    BY <1>1 DEF SweepEnd
  <2> QED
    BY <1>1, <2>4, <2>5 DEF Failure
<1>2. CASE ~(~refusals /\ UnitsIn(Answer) = {} /\ failures # {})
  BY <1>2 DEF SweepEnd, Failure
<1> QED
  BY <1>1, <1>2

(* A day that is asked, answers or fails changes nobody else.              *)
LEMMA UnitStepHolds ==
  ASSUME SweepIInv, NEW u \in Unit,
         TakeUnit(u) \/ UnitAnswers(u) \/ UnitFails(u) \/ UnitRefused(u) \/ RetryUnit(u)
  PROVE  SweepIInv'
<1> DEFINE Set(state) == unit' = [unit EXCEPT ![u] = state]
<1>1. SweepTypeOK /\ SweepIsRight /\ SweepToldTruly
  BY DEF SweepIInv
<1>2. /\ RunningSweep /\ RunningSweep' /\ seed # "asking" /\ UNCHANGED <<seed, gone>>
      /\ sweep' = sweep \/ sweep' = Told
  <2>1. RunningSweep
    BY <1>1 DEF SweepIsRight, TakeUnit, UnitAnswers, UnitFails, UnitRefused, RetryUnit
  <2>2. seed # "asking"
    BY <1>1 DEF SweepIsRight, TakeUnit, UnitAnswers, UnitFails, UnitRefused, RetryUnit
  <2>3. UNCHANGED <<seed, gone>> /\ (sweep' = sweep \/ sweep' = Told)
    BY DEF TakeUnit, UnitAnswers, UnitFails, UnitRefused, RetryUnit
  <2>4. RunningSweep'
    BY <1>1, <2>1, <2>3 DEF RunningSweep, Told, SweepTypeOK
  <2> QED
    BY <2>1, <2>2, <2>3, <2>4
<1>3. /\ sweep' \in [provider : {"agil-local", "costamar"}, mode : {"range", "matrix"}, stopRequested : BOOLEAN,
                     end : {"running", "complete", "partial"} \union Failure \union {"refused"}]
      /\ sweep'.stopRequested => gone'
  BY <1>1, <1>2 DEF SweepTypeOK, SweepIsRight, Told
<1>4. \/ /\ Set("asking") /\ asked' = [asked EXCEPT ![u] = @ + 1] /\ UNCHANGED refusals
         /\ asked[u] <= RetryAttempts
      \/ /\ \E state \in {"full", "partial"} \cup Failure : Set(state)
         /\ UNCHANGED <<asked, refusals>>
      \/ Set("resting") /\ asked[u] <= RetryAttempts /\ UNCHANGED <<asked, refusals>>
      \/ Set("refused") /\ refusals' = TRUE /\ UNCHANGED asked
  <2>1. CASE TakeUnit(u)
    BY <1>1, <2>1, SweepAssumption DEF TakeUnit, SweepIsRight
  <2>2. CASE UnitAnswers(u)
    BY <2>2 DEF UnitAnswers
  <2>3. CASE UnitFails(u)
    BY <2>3 DEF UnitFails, Retries, Failure
  <2>4. CASE UnitRefused(u)
    BY <2>4 DEF UnitRefused, Retries
  <2>5. CASE RetryUnit(u)
    BY <1>1, <2>5 DEF RetryUnit, SweepIsRight
  <2> QED
    BY <2>1, <2>2, <2>3, <2>4, <2>5
<1> HIDE DEF Set
<1>5. /\ unit' \in [Unit -> {"todo", "asking", "resting"} \union Ended]
      /\ \A v \in Unit \ {u} : unit'[v] = unit[v]
  BY <1>1, <1>4 DEF Set, SweepTypeOK, Ended, Answer
<1>6. /\ asked' \in [Unit -> 0..(RetryAttempts + 1)]
      /\ \A v \in Unit \ {u} : asked'[v] = asked[v]
  BY <1>1, <1>4, SweepAssumption DEF SweepTypeOK
<1>7. /\ unit'[u] # "todo"
      /\ unit'[u] = "resting" => asked'[u] <= RetryAttempts
      /\ unit'[u] = "refused" => refusals'
      /\ (refusals => refusals') /\ refusals' \in BOOLEAN
  <2>1. \A state : Set(state) => unit'[u] = state
    BY <1>1 DEF Set, SweepTypeOK
  <2>2. CASE Set("asking") /\ UNCHANGED refusals
    BY <1>1, <2>1, <2>2 DEF SweepTypeOK
  <2>3. CASE (\E state \in {"full", "partial"} \cup Failure : Set(state)) /\ UNCHANGED refusals
    BY <1>1, <2>1, <2>3 DEF SweepTypeOK, Failure
  <2>4. CASE Set("resting") /\ asked[u] <= RetryAttempts /\ UNCHANGED <<asked, refusals>>
    BY <1>1, <2>1, <2>4 DEF SweepTypeOK
  <2>5. CASE Set("refused") /\ refusals' = TRUE
    BY <1>1, <2>1, <2>5 DEF SweepTypeOK
  <2> QED
    BY <1>4, <2>2, <2>3, <2>4, <2>5
<1>8. SweepTypeOK'
  BY <1>1, <1>2, <1>3, <1>5, <1>6, <1>7 DEF SweepTypeOK
<1>9. SweepIsRight'
  BY <1>1, <1>2, <1>3, <1>5, <1>6, <1>7 DEF SweepIsRight
<1>10. SweepToldTruly'
  BY <1>2 DEF RunningSweep, SweepToldTruly, Failure
<1> QED
  BY <1>8, <1>9, <1>10 DEF SweepIInv

(* The seed of a matrix fills cells, or fails for every date.              *)
LEMMA SeedHolds == ASSUME SweepIInv, SeedMatrix PROVE SweepIInv'
<1>1. SweepTypeOK /\ SweepIsRight /\ RunningSweep /\ (\A u \in Unit : unit[u] = "todo") /\ UNCHANGED <<asked, gone>>
  BY DEF SweepIInv, SeedMatrix, SweepIsRight
<1>2. CASE UNCHANGED refusals /\ sweep' \in {sweep, Told} /\ seed' = "done"
           /\ \E filled \in SUBSET Unit : unit' = [u \in Unit |-> IF u \in filled THEN "seeded" ELSE "todo"]
  <2>1. /\ sweep' \in [provider : {"agil-local", "costamar"}, mode : {"range", "matrix"}, stopRequested : BOOLEAN,
                     end : {"running", "complete", "partial"} \union Failure \union {"refused"}]
        /\ sweep'.stopRequested => gone'
        /\ sweep'.end = "running"
    BY <1>1, <1>2 DEF SweepTypeOK, SweepIsRight, Told, RunningSweep
  <2>2. unit' \in [Unit -> {"todo", "asking", "resting"} \union Ended] /\ \A u \in Unit : unit'[u] \in {"todo", "seeded"}
    BY <1>2 DEF Ended, Answer
  <2>3. SweepTypeOK' /\ SweepIsRight'
    BY <1>1, <1>2, <2>1, <2>2 DEF SweepTypeOK, SweepIsRight, RunningSweep
  <2> QED
    BY <2>1, <2>3 DEF SweepIInv, SweepToldTruly, Failure
<1>3. CASE refusals' = TRUE /\ EndsIn("refused") /\ UNCHANGED unit /\ seed' = "done"
  <2>1. /\ sweep' \in [provider : {"agil-local", "costamar"}, mode : {"range", "matrix"}, stopRequested : BOOLEAN,
                     end : {"running", "complete", "partial"} \union Failure \union {"refused"}]
        /\ sweep'.stopRequested = sweep.stopRequested
        /\ sweep'.end = "refused"
    BY <1>1, <1>3 DEF SweepTypeOK, EndsIn
  <2>2. SweepTypeOK' /\ SweepIsRight'
    BY <1>1, <1>3, <2>1 DEF SweepTypeOK, SweepIsRight, RunningSweep
  <2> QED
    BY <1>3, <2>1, <2>2 DEF SweepIInv, SweepToldTruly, Failure
<1> QED
  BY <1>2, <1>3 DEF SeedMatrix

(* What the search says as it ends is what its days met.                   *)
LEMMA SweepEndHolds == ASSUME SweepIInv, EndSweep PROVE SweepIInv'
<1>1. SweepTypeOK /\ SweepIsRight /\ UNCHANGED <<seed, unit, asked, refusals, gone>>
  BY DEF SweepIInv, EndSweep
<1>2. /\ seed # "asking" /\ \A u \in Unit : unit[u] \in {"todo"} \cup Ended
      /\ (\E u \in Unit : unit[u] = "todo") => sweep.stopRequested \/ refusals
  BY <1>1 DEF EndSweep, UnitsIn, SweepTypeOK, CanContinue
<1>3. SweepEnd \in {"complete", "partial", "refused"} \cup Failure
  BY <1>1, SweepEndIs
<1>4. /\ sweep' \in [provider : {"agil-local", "costamar"}, mode : {"range", "matrix"}, stopRequested : BOOLEAN,
                     end : {"running", "complete", "partial"} \union Failure \union {"refused"}]
      /\ sweep'.stopRequested = sweep.stopRequested
      /\ sweep'.end = SweepEnd
  BY <1>1, <1>3 DEF SweepTypeOK, EndsIn, EndSweep
<1>5. SweepTypeOK' /\ SweepIsRight'
  BY <1>1, <1>2, <1>3, <1>4 DEF SweepTypeOK, SweepIsRight, RunningSweep, Failure, Ended, Answer
<1>6. SweepEnd = "complete" => UnitsIn({"full", "seeded"}) = Unit \/ gone
  BY <1>1, <1>2, SweepEndIs DEF UnitsIn, SweepIsRight, Ended, Answer
<1>7. SweepEnd = "partial" => gone \/ (UnitsIn(Answer) # {} /\ UnitsIn({"full", "seeded"}) # Unit)
  BY <1>1, SweepEndIs DEF UnitsIn, SweepIsRight, Failure, Answer
<1>8. SweepEnd \in Failure => UnitsIn(Answer) = {}
  BY <1>1, SweepEndIs
<1>9. SweepEnd = "refused" => refusals
  BY <1>1, SweepEndIs
<1>10. SweepToldTruly'
  BY <1>1, <1>4, <1>6, <1>7, <1>8, <1>9 DEF SweepToldTruly, UnitsIn
<1> QED
  BY <1>5, <1>10 DEF SweepIInv

(* Every step keeps what is said true.                                     *)
LEMMA SweepStepHolds == SweepIInv /\ [SweepNext]_sweepVars => SweepIInv'
<1>1. ASSUME SweepIInv, UNCHANGED sweepVars PROVE SweepIInv'
  BY <1>1 DEF sweepVars, SweepIInv, SweepTypeOK, SweepIsRight, SweepToldTruly, RunningSweep, UnitsIn
<1>2. ASSUME SweepIInv, StopSweep PROVE SweepIInv'
  BY <1>2 DEF StopSweep, SweepIInv, SweepTypeOK, SweepIsRight, SweepToldTruly, RunningSweep, UnitsIn
<1> QED
  BY <1>1, <1>2, UnitStepHolds, SeedHolds, SweepEndHolds DEF SweepNext, SweepStep

(* What a flexible search says of itself is what happened to its dates     *)
(* (mapConcurrent and the sweeps of local-agil.ts and local-costamar.ts).  *)
THEOREM SweepTellsTruly == SweepSpec => [](SweepTypeOK /\ SweepToldTruly)
<1>1. SweepIInv => SweepTypeOK /\ SweepToldTruly
  BY DEF SweepIInv
<1> QED
  BY <1>1, SweepInitHolds, SweepStepHolds, PTL DEF SweepSpec

(* What the searches of both providers say of themselves is what their     *)
(* requests met, and the sessions they use are what they are taken for     *)
(* (AgilSearch, DateSweep, AgilSession, CostamarSession, BrowserTabs).     *)
THEOREM AnswersTold ==
  AgilSpec /\ CostamarSpec /\ TabSpec /\ AgilSearchSpec /\ SweepSpec => []AnswersToldTruly
<1>1. AgilSpec => []AgilTypeOK
  <2>1. AgilIInv => AgilTypeOK
    BY DEF AgilIInv, AgilTypeOK, AgilHeld, AgilLoad
  <2>2. AgilIInv /\ [AgilNext]_agilVars => AgilIInv'
    BY AgilStep
  <2> QED
    BY <2>1, <2>2, AgilInitHolds, PTL DEF AgilSpec
<1>2. CostamarSpec => []CostamarTypeOK
  <2>1. CostamarIInv => CostamarTypeOK
    BY DEF CostamarIInv, CostamarTypes, CostamarAttempt, CostamarAsker, CostamarTypeOK
  <2> QED
    BY <2>1, CostamarInitHolds, CostamarStep, PTL DEF CostamarSpec
<1>3. TabSpec => []TabTypeOK
  <2>1. TabInit => TabIInv
    BY DEF TabInit, TabIInv, TabTypeOK
  <2>2. TabIInv => TabTypeOK
    BY DEF TabIInv
  <2> QED
    BY <2>1, <2>2, TabStep, PTL DEF TabSpec
<1> QED
  BY <1>1, <1>2, <1>3, GdsToldTruly, SweepTellsTruly, PTL DEF AnswersToldTruly

-----------------------------------------------------------------------------
(* ALL OF THEM TOGETHER                                                    *)

(* The run's specification moves one component at a time and leaves the    *)
(* others alone: each of them behaves as its own specification says        *)
(* (the parts of MCProviders).                                             *)
THEOREM ProvidersAreTheirParts ==
  ProvidersSpec => /\ AgilSpec /\ CostamarSpec /\ TabSpec /\ AgilSearchSpec /\ SweepSpec
                   /\ BrandedSpec /\ B2bSpec /\ StorageSpec /\ TempSpec
<1>0. ProvidersInit => /\ AgilInit /\ CostamarInit /\ TabInit /\ AgilSearchInit /\ SweepInit
                       /\ BrandedInit /\ B2bInit /\ StorageInit /\ TempInit
  BY DEF ProvidersInit
<1>1. [ProvidersNext]_providerVars => [AgilNext]_agilVars
  BY DEF ProvidersNext, providerVars, AgilPart, CostamarPart, TabPart, AgilSearchPart, SweepPart, TokenPart,
         PagePart, StoragePart, TempPart
<1>2. [ProvidersNext]_providerVars => [CostamarNext]_costamarVars
  BY DEF ProvidersNext, providerVars, AgilPart, CostamarPart, TabPart, AgilSearchPart, SweepPart, TokenPart,
         PagePart, StoragePart, TempPart
<1>3. [ProvidersNext]_providerVars => [TabNext]_tabVars
  BY DEF ProvidersNext, providerVars, AgilPart, CostamarPart, TabPart, AgilSearchPart, SweepPart, TokenPart,
         PagePart, StoragePart, TempPart
<1>4. [ProvidersNext]_providerVars => [AgilSearchNext]_agilSearchVars
  BY DEF ProvidersNext, providerVars, AgilPart, CostamarPart, TabPart, AgilSearchPart, SweepPart, TokenPart,
         PagePart, StoragePart, TempPart
<1>5. [ProvidersNext]_providerVars => [SweepNext]_sweepVars
  BY DEF ProvidersNext, providerVars, AgilPart, CostamarPart, TabPart, AgilSearchPart, SweepPart, TokenPart,
         PagePart, StoragePart, TempPart
<1>6. [ProvidersNext]_providerVars => [BrandedNext]_brandedVars
  BY DEF ProvidersNext, providerVars, AgilPart, CostamarPart, TabPart, AgilSearchPart, SweepPart, TokenPart,
         PagePart, StoragePart, TempPart
<1>7. [ProvidersNext]_providerVars => [B2bNext]_b2bVars
  BY DEF ProvidersNext, providerVars, AgilPart, CostamarPart, TabPart, AgilSearchPart, SweepPart, TokenPart,
         PagePart, StoragePart, TempPart
<1>8. [ProvidersNext]_providerVars => [StorageNext]_storageVars
  BY DEF ProvidersNext, providerVars, AgilPart, CostamarPart, TabPart, AgilSearchPart, SweepPart, TokenPart,
         PagePart, StoragePart, TempPart
<1>9. [ProvidersNext]_providerVars => [TempNext]_tempVars
  BY DEF ProvidersNext, providerVars, AgilPart, CostamarPart, TabPart, AgilSearchPart, SweepPart, TokenPart,
         PagePart, StoragePart, TempPart
<1> QED
  BY <1>0, <1>1, <1>2, <1>3, <1>4, <1>5, <1>6, <1>7, <1>8, <1>9, PTL
  DEF ProvidersSpec, AgilSpec, CostamarSpec, TabSpec, AgilSearchSpec, SweepSpec,
      BrandedSpec, B2bSpec, StorageSpec, TempSpec

(* So what is proved of each component holds of every behaviour in which   *)
(* they run together.                                                      *)
COROLLARY ProvidersKeepTheirPromises ==
  ProvidersSpec => /\ [](LastTokenIsUsed /\ SessionOfOneBrowser /\ SweepsTakeTheAbandoned)
                   /\ [](BrowsersAreClosed /\ AnswersToldTruly)
                   /\ ProviderSessionsAreKept
BY ProvidersAreTheirParts, LastTokenUsed, SessionIsOfOne, SweepsAreSafe, BrowsersClosed, SessionsKept,
   AnswersTold, PTL
=============================================================================
