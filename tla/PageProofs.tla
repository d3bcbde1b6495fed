----------------------------- MODULE PageProofs -----------------------------
(***************************************************************************)
(* What the page promises of its searches: a sweep of months says of each  *)
(* what the server found (MonthSweep), a search that is left is stopped in *)
(* the server (SearchPage and MonthSweep), no late answer is drawn         *)
(* (StationField and SearchPage), and the list that is drawn is what the   *)
(* providers answered, in whatever order (OfferList). They share no state; *)
(* each has an inductive invariant of its own, and each is proved for any  *)
(* searches, months, stations, fares and limits.                           *)
(***************************************************************************)
EXTENDS MCDesk, FiniteSetTheorems, SequenceTheorems, WellFoundedInduction, TLAPS

-----------------------------------------------------------------------------
(* THE MONTHS OF A SWEEP                                                   *)

MonthStep == {"idle", "turn", "asked", "following", "over"}
MonthRecord == [step : MonthStep, failures : Nat, known : {"no", "registered", "cancelled"}]
ResultStatus == {"loading", "partial", "available", "empty", "error", "cancelled"}
ResultRecord ==
  [job : BOOLEAN, offer : BOOLEAN, complete : BOOLEAN, partial : BOOLEAN, status : ResultStatus]
AskedRecord == [state : {"none", "running", "ended"}, fares : BOOLEAN, partial : BOOLEAN]

(* A month whose turn came, and one that has settled for the next to go. *)
Past == {"asked", "following", "over"}
Settled == {"following", "over"}

MonthsTypeOK ==
  /\ claimed \in 0 .. MonthCount
  /\ month \in [Month -> MonthRecord]
  /\ recorded \in [Month -> ResultRecord]
  /\ asked \in [Month -> AskedRecord]
  /\ sweep \in {"running", "stopped", "finished"}
  /\ told \in [fares : SUBSET Month, made : Seq(Month)]

(* What is recorded of a month was so on the server, where fares stay and  *)
(* an end is final; only a stop makes a result final that is not.          *)
RecordedIsTrue ==
  \A m \in Month :
    /\ m \in told.fares => asked[m].fares /\ recorded[m].offer
    /\ recorded[m].offer => recorded[m].status \in {"partial", "available", "error"}
    /\ (sweep = "stopped" /\ recorded[m].offer) => recorded[m].status # "partial"
    /\ (recorded[m].complete /\ recorded[m].status # "error") =>
         /\ asked[m].state = "ended"
         /\ ~recorded[m].partial => ~asked[m].partial

(* Months past their turn come after months that have settled, and the     *)
(* server has only heard of those.                                         *)
TurnsAreKept ==
  /\ \A m \in Month : claimed < m => month[m].step = "idle"
  /\ \A m \in Month : month[m].step \in Past => \A i \in Month : i < m => month[i].step \in Settled
  /\ \A m \in Month : asked[m].state # "none" => month[m].step \in Past
  /\ \A i \in DOMAIN told.made : asked[told.made[i]].state # "none"

(* A stop leaves no month followed and no job registered. *)
StopIsWhole ==
  sweep = "stopped" =>
    \A m \in Month : month[m].step # "following" /\ month[m].known # "registered"

MonthsIInv == MonthsTypeOK /\ RecordedIsTrue /\ TurnsAreKept /\ StopIsWhole /\ AskedInOrder

(* Before the first month is claimed, the invariant holds.                 *)
LEMMA MonthsInit == SweepInit => MonthsIInv
<1> SUFFICES ASSUME SweepInit PROVE MonthsIInv
  OBVIOUS
<1>1. MonthsTypeOK
  <2>1. <<>> \in Seq(Month)
    OBVIOUS
  <2> QED
    BY <2>1, SweepAssumption
       DEF SweepInit, MonthsTypeOK, MonthRecord, MonthStep, ResultRecord, ResultStatus, AskedRecord,
           NoResult, Unasked
<1>2. RecordedIsTrue /\ TurnsAreKept /\ StopIsWhole /\ AskedInOrder
  BY DEF SweepInit, RecordedIsTrue, TurnsAreKept, StopIsWhole, AskedInOrder, NoResult, Unasked, Past
<1> QED
  BY <1>1, <1>2 DEF MonthsIInv

(* What the answer of a month says, written as its record. *)
LEMMA RecordIsTrue ==
  ASSUME MonthsTypeOK, NEW m \in Month
  PROVE  /\ Record(m) \in ResultRecord
         /\ Record(m).offer = asked[m].fares
         /\ Record(m).offer => Record(m).status \in {"partial", "available"}
         /\ Record(m).complete =>
              asked[m].state = "ended" /\ (~Record(m).partial => ~asked[m].partial)
<1>1. asked[m] \in AskedRecord
  BY DEF MonthsTypeOK
<1> QED
  BY <1>1 DEF Record, ResultRecord, ResultStatus, AskedRecord

(* An answer that is recorded while the sweep is not stopped leaves what is *)
(* recorded true.                                                          *)
LEMMA AnswerIsRecorded ==
  ASSUME MonthsIInv, NEW m \in Month, RecordsAnswer(m), sweep # "stopped",
         sweep' = sweep, asked' = asked
  PROVE  /\ recorded' \in [Month -> ResultRecord]
         /\ told' \in [fares : SUBSET Month, made : Seq(Month)] /\ told'.made = told.made
         /\ RecordedIsTrue'
<1> USE DEF MonthsIInv
<1>1. /\ Record(m) \in ResultRecord /\ Record(m).offer = asked[m].fares
      /\ Record(m).offer => Record(m).status \in {"partial", "available"}
      /\ Record(m).complete =>
           asked[m].state = "ended" /\ (~Record(m).partial => ~asked[m].partial)
  BY RecordIsTrue
<1>2. /\ recorded' \in [Month -> ResultRecord]
      /\ \A n \in Month : recorded'[n] = IF n = m THEN Record(m) ELSE recorded[n]
  BY <1>1 DEF RecordsAnswer, MonthsTypeOK
<1>3. /\ told' \in [fares : SUBSET Month, made : Seq(Month)] /\ told'.made = told.made
      /\ told'.fares = IF asked[m].fares THEN told.fares \cup {m} ELSE told.fares
  BY DEF RecordsAnswer, MonthsTypeOK
<1>4. RecordedIsTrue'
  BY <1>1, <1>2, <1>3 DEF RecordedIsTrue
<1> QED
  BY <1>2, <1>3, <1>4

(* Turns are kept when one month goes on in its own order. *)
LEMMA OneMonthMoves ==
  ASSUME MonthsIInv, NEW m \in Month, m <= claimed,
         month' \in [Month -> MonthRecord],
         \A n \in Month \ {m} : month'[n] = month[n],
         month[m].step \in Past => month'[m].step \in Past,
         month[m].step \in Settled => month'[m].step \in Settled,
         month'[m].step \in Past => month[m].step \in Past \/ TurnOf(m),
         claimed' = claimed, asked' = asked, told'.made = told.made
  PROVE  TurnsAreKept'
<1> USE DEF MonthsIInv
<1>1. \A n \in Month : claimed' < n => month'[n].step = "idle"
  BY DEF TurnsAreKept, MonthsTypeOK, Month
<1>2. ASSUME NEW n \in Month, month'[n].step \in Past, NEW i \in Month, i < n
      PROVE  month'[i].step \in Settled
  <2>1. month[i].step \in Settled
    <3>1. CASE month[n].step \in Past
      BY <1>2, <3>1 DEF TurnsAreKept
    <3>2. CASE n = m /\ TurnOf(m)
      <4>1. n - 1 \in Month /\ month[n - 1].step \in Settled
        BY <1>2, <3>2, SweepAssumption DEF TurnOf, Month, Settled
      <4>2. CASE i = n - 1
        BY <4>1, <4>2
      <4>3. CASE i < n - 1
        <5>1. month[n - 1].step \in Past
          BY <4>1 DEF Past, Settled
        <5> QED
          BY <4>1, <4>3, <5>1 DEF TurnsAreKept
      <4> QED
        BY <1>2, <4>2, <4>3 DEF Month
    <3> QED
      BY <1>2, <3>1, <3>2
  <2> QED
    BY <2>1
<1>3. \A n \in Month : asked'[n].state # "none" => month'[n].step \in Past
  BY DEF TurnsAreKept
<1>4. \A i \in DOMAIN told'.made : asked'[told'.made[i]].state # "none"
  BY DEF TurnsAreKept
<1> QED
  BY <1>1, <1>2, <1>3, <1>4 DEF TurnsAreKept

(* The next month takes its turn.                                          *)
LEMMA ClaimStep == ASSUME MonthsIInv, Claim PROVE MonthsIInv'
<1> USE DEF MonthsIInv
<1> DEFINE m == claimed + 1
<1>1. m \in Month /\ month[m] \in MonthRecord /\ month[m].step = "idle"
  BY SweepAssumption DEF Claim, MonthsTypeOK, TurnsAreKept, Month
<1> HIDE DEF m
<1>2. /\ month' \in [Month -> MonthRecord]
      /\ \A n \in Month \ {m} : month'[n] = month[n]
      /\ month'[m].step = "turn" /\ month'[m].known = month[m].known
  BY <1>1 DEF Claim, MonthsTypeOK, MonthRecord, MonthStep, m
<1>3. MonthsTypeOK'
  BY <1>2, SweepAssumption DEF Claim, MonthsTypeOK
<1>4. RecordedIsTrue' /\ AskedInOrder'
  BY DEF Claim, RecordedIsTrue, AskedInOrder
<1>5. StopIsWhole'
  BY DEF Claim, StopIsWhole
<1>6. TurnsAreKept'
  <2>1. \A n \in Month : claimed' < n => month'[n].step = "idle"
    BY <1>2 DEF Claim, TurnsAreKept, MonthsTypeOK, Month, m
  <2>2. ASSUME NEW n \in Month, month'[n].step \in Past, NEW i \in Month, i < n
        PROVE  month'[i].step \in Settled
    <3>1. n # m /\ month[n].step \in Past
      BY <1>2, <2>2 DEF Past
    <3>2. i # m
      BY <1>1, <3>1, <2>2 DEF TurnsAreKept, Settled
    <3> QED
      BY <1>2, <2>2, <3>1, <3>2 DEF TurnsAreKept
  <2>3. \A n \in Month : asked'[n].state # "none" => month'[n].step \in Past
    BY <1>1, <1>2 DEF Claim, TurnsAreKept, Past
  <2>4. \A i \in DOMAIN told'.made : asked'[told'.made[i]].state # "none"
    BY DEF Claim, TurnsAreKept
  <2> QED
    BY <2>1, <2>2, <2>3, <2>4 DEF TurnsAreKept
<1> QED
  BY <1>3, <1>4, <1>5, <1>6

(* A month that was claimed, for its step says so. *)
LEMMA UnderWayIsClaimed ==
  ASSUME MonthsIInv, NEW m \in Month, month[m].step # "idle"
  PROVE  m <= claimed /\ claimed \in Nat /\ month[m] \in MonthRecord
BY SweepAssumption, SMTT(30) DEF MonthsIInv, TurnsAreKept, MonthsTypeOK, Month

(* A month asks the server for its job.                                    *)
LEMMA AskMonthStep == ASSUME MonthsIInv, NEW m \in Month, AskMonth(m) PROVE MonthsIInv'
<1> USE DEF MonthsIInv
<1>1. m <= claimed /\ month[m] \in MonthRecord
  BY UnderWayIsClaimed DEF AskMonth
<1>2. /\ month' \in [Month -> MonthRecord]
      /\ \A n \in Month \ {m} : month'[n] = month[n]
      /\ month'[m].step \in {"asked", "over"} /\ month'[m].known = month[m].known
  BY <1>1 DEF AskMonth, MonthsTypeOK, MonthRecord, MonthStep
<1>3. MonthsTypeOK'
  BY <1>2 DEF AskMonth, MonthsTypeOK
<1>4. RecordedIsTrue' /\ AskedInOrder'
  BY DEF AskMonth, RecordedIsTrue, AskedInOrder
<1>5. StopIsWhole'
  <2>1. ASSUME sweep' = "stopped", NEW n \in Month
        PROVE  month'[n].step # "following" /\ month'[n].known # "registered"
    <3>1. month[n].step # "following" /\ month[n].known # "registered"
      BY <2>1 DEF AskMonth, StopIsWhole
    <3> QED
      BY <1>2, <3>1
  <2> QED
    BY <2>1 DEF StopIsWhole
<1>6. TurnsAreKept'
  BY <1>1, <1>2, OneMonthMoves DEF AskMonth, Past, Settled
<1> QED
  BY <1>3, <1>4, <1>5, <1>6

(* The server makes the job of a month that asked.                         *)
LEMMA ServerMakesStep == ASSUME MonthsIInv, NEW m \in Month, ServerMakes(m) PROVE MonthsIInv'
<1> USE DEF MonthsIInv
<1>1. /\ month[m].step = "asked" /\ asked[m].state = "none" /\ asked[m] \in AskedRecord
      /\ told.made \in Seq(Month)
  BY DEF ServerMakes, MonthsTypeOK
<1>2. /\ asked' \in [Month -> AskedRecord]
      /\ \A n \in Month \ {m} : asked'[n] = asked[n]
      /\ asked'[m].state = "running" /\ asked'[m].fares = asked[m].fares
  BY <1>1 DEF ServerMakes, MonthsTypeOK, AskedRecord
<1>3. /\ told' \in [fares : SUBSET Month, made : Seq(Month)]
      /\ told'.fares = told.fares /\ told'.made = Append(told.made, m)
  <2> DEFINE longer == Append(told.made, m)
  <2>1. longer \in Seq(Month)
    BY <1>1
  <2> HIDE DEF longer
  <2>2. told' = [told EXCEPT !.made = longer] /\ told \in [fares : SUBSET Month, made : Seq(Month)]
    BY DEF ServerMakes, MonthsTypeOK, longer
  <2>3. told'.made = longer /\ told'.fares = told.fares /\ told' \in [fares : SUBSET Month, made : Seq(Month)]
    BY <2>1, <2>2
  <2> QED
    BY <2>3 DEF longer
<1>4. MonthsTypeOK'
  BY <1>2, <1>3 DEF ServerMakes, MonthsTypeOK
<1>5. RecordedIsTrue'
  <2>1. ASSUME NEW n \in Month, recorded'[n].complete, recorded'[n].status # "error"
        PROVE  asked'[n].state = "ended" /\ (~recorded'[n].partial => ~asked'[n].partial)
    <3>1. asked[n].state = "ended" /\ (~recorded[n].partial => ~asked[n].partial)
      BY <2>1 DEF ServerMakes, RecordedIsTrue
    <3> QED
      BY <1>1, <1>2, <3>1 DEF ServerMakes
  <2> QED
    BY <1>2, <1>3, <2>1 DEF ServerMakes, RecordedIsTrue
<1>6. StopIsWhole'
  BY DEF ServerMakes, StopIsWhole
<1>7. /\ DOMAIN told'.made = 1 .. Len(told.made) + 1
      /\ told'.made[Len(told.made) + 1] = m
      /\ \A i \in DOMAIN told.made : i \in 1 .. Len(told.made) /\ told'.made[i] = told.made[i]
      /\ DOMAIN told.made = 1 .. Len(told.made) /\ Len(told.made) \in Nat
  BY <1>1, <1>3
<1>8. TurnsAreKept'
  <2>1. \A n \in Month : asked'[n].state # "none" => month'[n].step \in Past
    BY <1>1, <1>2 DEF ServerMakes, TurnsAreKept, Past
  <2>2. ASSUME NEW i \in DOMAIN told'.made PROVE asked'[told'.made[i]].state # "none"
    <3>1. CASE i = Len(told.made) + 1
      BY <1>2, <1>7, <3>1
    <3>2. CASE i \in DOMAIN told.made
      <4>1. told.made[i] \in Month /\ asked[told.made[i]].state # "none"
        BY <1>1, <1>7, <3>2 DEF TurnsAreKept
      <4> QED
        BY <1>2, <1>7, <3>2, <4>1
    <3> QED
      BY <1>7, <3>1, <3>2
  <2> QED
    BY <2>1, <2>2 DEF ServerMakes, TurnsAreKept
<1>9. AskedInOrder'
  <2>1. ASSUME NEW i \in DOMAIN told.made PROVE told.made[i] < m
    <3>1. told.made[i] \in Month /\ asked[told.made[i]].state # "none"
      BY <1>1, <1>7 DEF TurnsAreKept
    <3>2. month[told.made[i]].step \in Past /\ told.made[i] # m
      BY <1>1, <3>1 DEF TurnsAreKept
    <3>3. ~(m < told.made[i])
      BY <1>1, <3>1, <3>2 DEF TurnsAreKept, Settled
    <3> QED
      BY <3>1, <3>2, <3>3 DEF Month
  <2>2. ASSUME NEW i \in DOMAIN told'.made, NEW j \in DOMAIN told'.made, i < j
        PROVE  told'.made[i] < told'.made[j]
    <3>1. i \in DOMAIN told.made
      BY <1>7, <2>2
    <3>2. CASE j = Len(told.made) + 1
      BY <1>7, <2>1, <3>1, <3>2
    <3>3. CASE j \in DOMAIN told.made
      BY <1>7, <2>2, <3>1, <3>3 DEF AskedInOrder
    <3> QED
      BY <1>7, <3>2, <3>3
  <2> QED
    BY <2>2 DEF AskedInOrder
<1> QED
  BY <1>4, <1>5, <1>6, <1>8, <1>9

(* The server finds fares for the job of a month.                          *)
LEMMA ServerFindsStep == ASSUME MonthsIInv, NEW m \in Month, ServerFinds(m) PROVE MonthsIInv'
<1> USE DEF MonthsIInv
<1>1. asked[m] \in AskedRecord
  BY DEF MonthsTypeOK
<1>2. /\ asked' \in [Month -> AskedRecord]
      /\ \A n \in Month \ {m} : asked'[n] = asked[n]
      /\ asked'[m].state = asked[m].state /\ asked'[m].partial = asked[m].partial /\ asked'[m].fares
  BY <1>1 DEF ServerFinds, MonthsTypeOK, AskedRecord
<1>3. \A n \in Month : /\ asked'[n].state = asked[n].state /\ asked'[n].partial = asked[n].partial
                       /\ asked[n].fares => asked'[n].fares
  BY <1>2
<1>4. MonthsTypeOK'
  BY <1>2 DEF ServerFinds, MonthsTypeOK
<1>5. RecordedIsTrue'
  BY <1>3, <1>4 DEF ServerFinds, RecordedIsTrue
<1>6. StopIsWhole' /\ AskedInOrder'
  BY DEF ServerFinds, StopIsWhole, AskedInOrder
<1>7. TurnsAreKept'
  <2>1. \A i \in DOMAIN told.made : told.made[i] \in Month
    BY DEF MonthsTypeOK
  <2> QED
    BY <1>3, <2>1 DEF ServerFinds, TurnsAreKept
<1> QED
  BY <1>4, <1>5, <1>6, <1>7

(* The job of a month ends in the server, whole or partial.                *)
LEMMA ServerFinishesStep ==
  ASSUME MonthsIInv, NEW m \in Month, NEW partial \in BOOLEAN, ServerFinishes(m, partial)
  PROVE  MonthsIInv'
<1> USE DEF MonthsIInv
<1>1. asked[m] \in AskedRecord /\ asked[m].state = "running"
  BY DEF MonthsTypeOK, ServerFinishes
<1>2. /\ asked' \in [Month -> AskedRecord]
      /\ \A n \in Month \ {m} : asked'[n] = asked[n]
      /\ asked'[m].state = "ended" /\ asked'[m].fares = asked[m].fares
  BY <1>1 DEF ServerFinishes, MonthsTypeOK, AskedRecord
<1>3. \A n \in Month : /\ asked'[n].fares = asked[n].fares
                       /\ asked[n].state = "ended" => asked'[n] = asked[n]
                       /\ asked'[n].state # "none" => asked[n].state # "none"
                       /\ asked[n].state # "none" => asked'[n].state # "none"
  BY <1>1, <1>2
<1>4. MonthsTypeOK'
  BY <1>2 DEF ServerFinishes, MonthsTypeOK
<1>5. RecordedIsTrue'
  BY <1>3, <1>4, ZenonT(60) DEF ServerFinishes, RecordedIsTrue
<1>6. StopIsWhole' /\ AskedInOrder'
  BY DEF ServerFinishes, StopIsWhole, AskedInOrder
<1>7. TurnsAreKept'
  <2>1. \A i \in DOMAIN told.made : told.made[i] \in Month
    BY DEF MonthsTypeOK
  <2> QED
    BY <1>3, <2>1 DEF ServerFinishes, TurnsAreKept
<1> QED
  BY <1>4, <1>5, <1>6, <1>7

(* A month that ends in error keeps what it had. *)
LEMMA ErrorIsRecorded ==
  ASSUME MonthsIInv, NEW m \in Month, recorded' = [recorded EXCEPT ![m] = Errored(m)],
         sweep' = sweep, asked' = asked, told' = told
  PROVE  recorded' \in [Month -> ResultRecord] /\ RecordedIsTrue'
<1> USE DEF MonthsIInv
<1>1. /\ Errored(m) \in ResultRecord /\ Errored(m).status = "error"
      /\ Errored(m).offer = recorded[m].offer
  BY DEF Errored, MonthsTypeOK, ResultRecord, ResultStatus
<1>2. /\ recorded' \in [Month -> ResultRecord]
      /\ \A n \in Month : recorded'[n] = IF n = m THEN Errored(m) ELSE recorded[n]
  BY <1>1 DEF MonthsTypeOK
<1>3. RecordedIsTrue'
  BY <1>1, <1>2 DEF RecordedIsTrue
<1> QED
  BY <1>2, <1>3

(* The page hears of a month's job: it follows it, records it or, if the   *)
(* sweep was stopped, cancels it.                                          *)
LEMMA FirstAnswerStep == ASSUME MonthsIInv, NEW m \in Month, FirstAnswer(m) PROVE MonthsIInv'
<1> USE DEF MonthsIInv
<1>1. m <= claimed /\ month[m] \in MonthRecord /\ month[m].step = "asked"
  BY UnderWayIsClaimed DEF FirstAnswer
<1>2. CASE sweep = "stopped"
  <2>1. /\ month' \in [Month -> MonthRecord]
        /\ \A n \in Month \ {m} : month'[n] = month[n]
        /\ month'[m].step = "over" /\ month'[m].known = "cancelled"
    <3> DEFINE record == [month[m] EXCEPT !.step = "over", !.known = "cancelled"]
    <3>1. record \in MonthRecord /\ record.step = "over" /\ record.known = "cancelled"
      BY <1>1 DEF MonthRecord, MonthStep
    <3>2. month' = [month EXCEPT ![m] = record]
      BY <1>2 DEF FirstAnswer, MonthsTypeOK
    <3> HIDE DEF record
    <3> QED
      BY <3>1, <3>2 DEF MonthsTypeOK
  <2>2. UNCHANGED <<claimed, recorded, asked, sweep, told>>
    BY <1>2 DEF FirstAnswer
  <2>3. TurnsAreKept'
    BY <1>1, <2>1, <2>2, OneMonthMoves DEF Past, Settled
  <2>4. MonthsTypeOK' /\ RecordedIsTrue' /\ AskedInOrder'
    BY <2>1, <2>2 DEF MonthsTypeOK, RecordedIsTrue, AskedInOrder
  <2>5. StopIsWhole'
    BY <2>1, <2>2 DEF StopIsWhole
  <2> QED
    BY <2>3, <2>4, <2>5
<1>3. CASE sweep # "stopped"
  <2>1. /\ month' \in [Month -> MonthRecord]
        /\ \A n \in Month \ {m} : month'[n] = month[n]
        /\ month'[m].step \in {"following", "over"}
    <3> DEFINE step == IF asked[m].state = "ended" THEN "over" ELSE "following"
               record == [month[m] EXCEPT !.step = step, !.known = "registered"]
    <3>1. record \in MonthRecord /\ record.step \in {"following", "over"}
      BY <1>1 DEF MonthRecord, MonthStep
    <3>2. month' = [month EXCEPT ![m] = record]
      BY <1>3 DEF FirstAnswer, MonthsTypeOK
    <3> HIDE DEF record
    <3> QED
      BY <3>1, <3>2 DEF MonthsTypeOK
  <2>2. RecordsAnswer(m) /\ UNCHANGED <<claimed, asked, sweep>>
    BY <1>3 DEF FirstAnswer
  <2>3. /\ recorded' \in [Month -> ResultRecord] /\ RecordedIsTrue'
        /\ told' \in [fares : SUBSET Month, made : Seq(Month)] /\ told'.made = told.made
    BY <1>3, <2>2, AnswerIsRecorded
  <2>4. TurnsAreKept'
    BY <1>1, <2>1, <2>2, <2>3, OneMonthMoves DEF Past, Settled
  <2>5. MonthsTypeOK' /\ AskedInOrder'
    BY <2>1, <2>2, <2>3 DEF MonthsTypeOK, AskedInOrder
  <2>6. StopIsWhole'
    BY <1>3, <2>2 DEF StopIsWhole
  <2> QED
    BY <2>3, <2>4, <2>5, <2>6
<1> QED
  BY <1>2, <1>3

(* A month that could not start is recorded as failed and passes the turn  *)
(* on.                                                                     *)
LEMMA StartFailsStep == ASSUME MonthsIInv, NEW m \in Month, StartFails(m) PROVE MonthsIInv'
<1> USE DEF MonthsIInv
<1>1. m <= claimed /\ month[m] \in MonthRecord /\ month[m].step = "asked"
  BY UnderWayIsClaimed DEF StartFails
<1>2. /\ month' \in [Month -> MonthRecord]
      /\ \A n \in Month \ {m} : month'[n] = month[n]
      /\ month'[m].step = "over" /\ month'[m].known = month[m].known
  BY <1>1 DEF StartFails, MonthsTypeOK, MonthRecord, MonthStep
<1>3. recorded' \in [Month -> ResultRecord] /\ RecordedIsTrue'
  <2>1. CASE sweep = "running"
    BY <2>1, ErrorIsRecorded DEF StartFails
  <2>2. CASE sweep # "running"
    <3>1. recorded' = recorded
      BY <2>2 DEF StartFails, MonthsTypeOK
    <3> QED
      BY <3>1 DEF StartFails, RecordedIsTrue, MonthsTypeOK
  <2> QED
    BY <2>1, <2>2
<1>4. MonthsTypeOK' /\ AskedInOrder'
  BY <1>2, <1>3 DEF StartFails, MonthsTypeOK, AskedInOrder
<1>5. StopIsWhole'
  BY <1>2 DEF StartFails, StopIsWhole
<1>6. TurnsAreKept'
  BY <1>1, <1>2, OneMonthMoves DEF StartFails, Past, Settled
<1> QED
  BY <1>3, <1>4, <1>5, <1>6

(* A poll is answered with what the server has.                            *)
LEMMA PollMonthStep == ASSUME MonthsIInv, NEW m \in Month, PollMonth(m) PROVE MonthsIInv'
<1> USE DEF MonthsIInv
<1>1. /\ m <= claimed /\ month[m] \in MonthRecord /\ month[m].step = "following"
      /\ sweep # "stopped"
  BY UnderWayIsClaimed DEF PollMonth, StopIsWhole
<1>2. /\ month' \in [Month -> MonthRecord]
      /\ \A n \in Month \ {m} : month'[n] = month[n]
      /\ month'[m].step \in {"following", "over"}
  BY <1>1 DEF PollMonth, MonthsTypeOK, MonthRecord, MonthStep
<1>3. RecordsAnswer(m) /\ UNCHANGED <<claimed, asked, sweep>>
  BY DEF PollMonth
<1>4. /\ recorded' \in [Month -> ResultRecord] /\ RecordedIsTrue'
      /\ told' \in [fares : SUBSET Month, made : Seq(Month)] /\ told'.made = told.made
  BY <1>1, <1>3, AnswerIsRecorded
<1>5. TurnsAreKept'
  BY <1>1, <1>2, <1>3, <1>4, OneMonthMoves DEF Past, Settled
<1>6. MonthsTypeOK' /\ AskedInOrder'
  BY <1>2, <1>3, <1>4 DEF MonthsTypeOK, AskedInOrder
<1>7. StopIsWhole'
  BY <1>1, <1>3 DEF StopIsWhole
<1> QED
  BY <1>4, <1>5, <1>6, <1>7

(* A poll is lost; a month gives up after enough of them.                  *)
LEMMA PollMonthLostStep == ASSUME MonthsIInv, NEW m \in Month, PollMonthLost(m) PROVE MonthsIInv'
<1> USE DEF MonthsIInv
<1> DEFINE over == month[m].failures + 1 >= PollFailures
           failures == IF over THEN 0 ELSE month[m].failures + 1
           step == IF over THEN "over" ELSE month[m].step
<1>1. /\ m <= claimed /\ month[m] \in MonthRecord /\ month[m].step = "following"
      /\ sweep # "stopped"
  BY UnderWayIsClaimed DEF PollMonthLost, StopIsWhole
<1>2. failures \in Nat /\ step \in {"following", "over"}
  BY <1>1 DEF MonthRecord
<1>3. month' = [month EXCEPT ![m].failures = failures, ![m].step = step]
  BY DEF PollMonthLost
<1> HIDE DEF failures, step
<1>4. /\ month' \in [Month -> MonthRecord]
      /\ \A n \in Month \ {m} : month'[n] = month[n]
      /\ month'[m].step \in {"following", "over"}
  BY <1>1, <1>2, <1>3 DEF MonthsTypeOK, MonthRecord, MonthStep
<1>5. recorded' \in [Month -> ResultRecord] /\ RecordedIsTrue'
  <2>1. CASE over
    <3>1. recorded' = [recorded EXCEPT ![m] = Errored(m)]
      BY <2>1 DEF PollMonthLost
    <3> QED
      BY <3>1, ErrorIsRecorded DEF PollMonthLost
  <2>2. CASE ~over
    <3>1. recorded' = recorded
      BY <2>2 DEF PollMonthLost, MonthsTypeOK
    <3> QED
      BY <3>1 DEF PollMonthLost, RecordedIsTrue, MonthsTypeOK
  <2> QED
    BY <2>1, <2>2
<1>6. TurnsAreKept'
  BY <1>1, <1>4, OneMonthMoves DEF PollMonthLost, Past, Settled
<1>7. MonthsTypeOK' /\ AskedInOrder'
  BY <1>4, <1>5 DEF PollMonthLost, MonthsTypeOK, AskedInOrder
<1>8. StopIsWhole'
  BY <1>1 DEF PollMonthLost, StopIsWhole
<1> QED
  BY <1>5, <1>6, <1>7, <1>8

(* A stop ends every month that is followed, at once.                      *)
LEMMA StopSweepStep == ASSUME MonthsIInv, StopSweep PROVE MonthsIInv'
<1> USE DEF MonthsIInv
<1>1. ASSUME NEW m \in Month
      PROVE  /\ month'[m] \in MonthRecord
             /\ month'[m].step = IF month[m].step = "following" THEN "over" ELSE month[m].step
             /\ month'[m].known # "registered"
  <2>1. month[m] \in MonthRecord
    BY DEF MonthsTypeOK
  <2> QED
    BY <2>1 DEF StopSweep, MonthRecord, MonthStep
<1>2. month' \in [Month -> MonthRecord]
  <2>1. DOMAIN month' = Month /\ month' = [m \in Month |-> month'[m]]
    BY DEF StopSweep
  <2> QED
    BY <1>1, <2>1
<1>3. ASSUME NEW m \in Month
      PROVE  /\ recorded'[m] \in ResultRecord
             /\ recorded'[m].offer = recorded[m].offer
             /\ recorded'[m].complete = recorded[m].complete
             /\ recorded'[m].partial = recorded[m].partial
             /\ recorded[m].offer => recorded'[m].status \in {"available", "error"}
             /\ recorded'[m].status # "error" => recorded[m].status # "error"
  <2>1. recorded[m] \in ResultRecord /\ recorded'[m] = KeptOnStop(recorded[m])
    BY DEF MonthsTypeOK, StopSweep
  <2>2. recorded[m].offer => recorded[m].status \in {"partial", "available", "error"}
    BY DEF RecordedIsTrue
  <2>3. CASE recorded[m].status \notin {"loading", "partial"}
    <3>1. recorded'[m] = recorded[m]
      BY <2>1, <2>3 DEF KeptOnStop
    <3> QED
      BY <2>1, <2>2, <2>3, <3>1
  <2>4. CASE recorded[m].status \in {"loading", "partial"}
    <3>1. recorded'[m] = [recorded[m] EXCEPT !.status = IF recorded[m].offer THEN "available" ELSE "cancelled"]
      BY <2>1, <2>4 DEF KeptOnStop
    <3> QED
      BY <2>1, <2>2, <2>4, <3>1 DEF ResultRecord, ResultStatus
  <2> QED
    BY <2>3, <2>4
<1>4. recorded' \in [Month -> ResultRecord]
  <2>1. DOMAIN recorded' = Month /\ recorded' = [m \in Month |-> recorded'[m]]
    BY DEF StopSweep
  <2> QED
    BY <1>3, <2>1
<1>5. MonthsTypeOK' /\ AskedInOrder'
  BY <1>2, <1>4 DEF StopSweep, MonthsTypeOK, AskedInOrder
<1>6. RecordedIsTrue'
  BY <1>3 DEF StopSweep, RecordedIsTrue
<1>7. StopIsWhole'
  BY <1>1 DEF StopIsWhole
<1>8. TurnsAreKept'
  <2>1. \A m \in Month : /\ month'[m].step \in Past <=> month[m].step \in Past
                         /\ month[m].step \in Settled => month'[m].step \in Settled
                         /\ month[m].step = "idle" => month'[m].step = "idle"
    BY <1>1 DEF Past, Settled
  <2>2. UNCHANGED <<claimed, asked, told>>
    BY DEF StopSweep
  <2> QED
    BY <2>1, <2>2 DEF TurnsAreKept
<1> QED
  BY <1>5, <1>6, <1>7, <1>8

(* The sweep ends when all its months have.                                *)
LEMMA FinishSweepStep == ASSUME MonthsIInv, FinishSweep PROVE MonthsIInv'
BY DEF FinishSweep, MonthsIInv, MonthsTypeOK, RecordedIsTrue, TurnsAreKept, StopIsWhole, AskedInOrder

(* Every step of a sweep keeps its invariant.                              *)
LEMMA MonthsStep == ASSUME MonthsIInv, [SweepNext]_sweepPageVars PROVE MonthsIInv'
<1>1. CASE UNCHANGED sweepPageVars
  BY <1>1 DEF sweepPageVars, MonthsIInv, MonthsTypeOK, RecordedIsTrue, TurnsAreKept, StopIsWhole,
              AskedInOrder
<1>2. CASE Claim \/ StopSweep \/ FinishSweep
  BY <1>2, ClaimStep, StopSweepStep, FinishSweepStep
<1>3. ASSUME NEW m \in Month, StartsMonth(m) \/ FollowsMonth(m) PROVE MonthsIInv'
  BY <1>3, AskMonthStep, FirstAnswerStep, StartFailsStep, PollMonthStep, PollMonthLostStep
     DEF StartsMonth, FollowsMonth
<1>4. ASSUME NEW m \in Month, ServerWorks(m) PROVE MonthsIInv'
  BY <1>4, ServerMakesStep, ServerFindsStep, ServerFinishesStep DEF ServerWorks
<1> QED
  BY <1>1, <1>2, <1>3, <1>4 DEF SweepNext

(* The page's sweep keeps what it recorded true, its turns and its stop.   *)
THEOREM MonthsAreCoherent == MonthsSpec => []MonthsIInv
<1>1. MonthsIInv /\ [SweepNext]_sweepPageVars => MonthsIInv'
  BY MonthsStep
<1> QED
  BY <1>1, MonthsInit, PTL DEF MonthsSpec

(* A fare that was shown stays its month's whatever becomes of the month,   *)
(* a sweep that calls itself whole is, and the server is asked in order     *)
(* (startMigrationSearch).                                                  *)
THEOREM SweepToldTruly == MonthsSpec => []SweepIsTrue
<1>1. ASSUME MonthsIInv PROVE SweepIsTrue
  <2> USE <1>1 DEF MonthsIInv
  <2>1. FaresAreKept
    BY DEF FaresAreKept, RecordedIsTrue, MonthsTypeOK
  <2>2. LiveIsWhole
    BY DEF LiveIsWhole, SweepState, SweepIsPartial, RecordedIsTrue
  <2> QED
    BY <2>1, <2>2 DEF SweepIsTrue
<1> QED
  BY <1>1, MonthsAreCoherent, PTL

-----------------------------------------------------------------------------
(* THE SEARCHES OF A PAGE                                                  *)

Task == {"none", "waiting", "asking", "following", "over"}
Post == {"none", "sent", "made", "told", "lost"}
CancelState == {"none", "sent", "heard", "settled"}
Job == PageRun \cup {OtherTab}
RunRecord ==
  [task : Task, kind : {"search", "restore"}, post : Post, registered : BOOLEAN, stopped : BOOLEAN,
   failures : Nat, waits : SUBSET PageRun, owed : SUBSET PageRun]

PageTypeOK ==
  /\ begun \in 0 .. MaxRuns /\ front \in 0 .. begun
  /\ run \in [PageRun -> RunRecord]
  /\ cancel \in [PageRun -> CancelState]
  /\ chain \in SUBSET PageRun
  /\ server \in [Job -> {"none", "running", "ended"}]
  /\ onScreen \in [run : 0 .. begun, final : BOOLEAN]
  /\ loading \in BOOLEAN

(* A run under way that was not stopped is the one in front; only its task *)
(* being over lets its job be cancelled, and its job is then left.         *)
TaskIsRight(r, one, ahead, cancels) ==
  /\ (one.task \in {"waiting", "asking", "following"} /\ ~one.stopped) => ahead = r
  /\ ahead = r => ~one.stopped
  /\ (one.task = "following" \/ (one.task = "asking" /\ one.kind = "restore")) => ~one.stopped
  /\ one.registered => one.task \in {"following", "over"}
  /\ cancels[r] # "none" => one.task = "over" /\ ~one.registered
  /\ one.post = "made" => one.kind = "search"

(* What a run waits for is what it is owed, less what has settled.         *)
WaitIsRight(one, cancels) ==
  /\ one.task = "waiting" =>
       one.post = "none" /\ \A s \in one.owed : s \in one.waits \/ cancels[s] = "settled"
  /\ one.task = "asking" => one.post # "none"
  /\ \A s \in one.owed : cancels[s] # "none"
  /\ one.post # "none" => \A s \in one.owed : cancels[s] = "settled"

(* No job that was learnt of is left running unseen. *)
JobIsSeen(r, one, ahead, cancels, jobs) ==
  (one.kind = "search" /\ one.post = "told" /\ jobs[r] = "running") =>
    (ahead = r /\ one.registered) \/ cancels[r] # "none"

RunIsRight(r, one, ahead, cancels, jobs) ==
  /\ TaskIsRight(r, one, ahead, cancels)
  /\ WaitIsRight(one, cancels)
  /\ JobIsSeen(r, one, ahead, cancels, jobs)

(* The chain knows every cancellation that has not settled. *)
ChainIsWhole(cancels, chained) ==
  \A r \in PageRun : cancels[r] \in {"sent", "heard"} => r \in chained

PageIInv ==
  /\ PageTypeOK
  /\ \A r \in PageRun : begun < r => run[r] = NewRun /\ cancel[r] = "none"
  /\ \A r \in PageRun : RunIsRight(r, run[r], front, cancel, server)
  /\ ChainIsWhole(cancel, chain)
  /\ onScreen.final => onScreen.run # Nobody /\ onScreen.run # front

(* A run that has just begun owes nothing and is registered nowhere.       *)
LEMMA NewRunIsRight ==
  /\ NewRun \in RunRecord
  /\ NewRun.task = "none" /\ ~NewRun.stopped /\ ~NewRun.registered /\ NewRun.post = "none"
  /\ NewRun.owed = {}
BY DEF NewRun, RunRecord, Task, Post

(* A page with no run is right.                                            *)
LEMMA PageInitOK == PageInit => PageIInv
<1> SUFFICES ASSUME PageInit PROVE PageIInv
  OBVIOUS
<1>1. PageTypeOK
  <2>1. begun \in 0 .. MaxRuns /\ front \in 0 .. begun /\ onScreen \in [run : 0 .. begun, final : BOOLEAN]
    BY PageAssumption DEF PageInit, Nobody
  <2>2. run \in [PageRun -> RunRecord] /\ cancel \in [PageRun -> CancelState]
    BY NewRunIsRight DEF PageInit, CancelState
  <2>3. server \in [Job -> {"none", "running", "ended"}] /\ chain \in SUBSET PageRun /\ loading \in BOOLEAN
    BY DEF PageInit, Job
  <2> QED
    BY <2>1, <2>2, <2>3 DEF PageTypeOK
<1>2. \A r \in PageRun : RunIsRight(r, run[r], front, cancel, server)
  BY NewRunIsRight, PageAssumption
     DEF PageInit, RunIsRight, TaskIsRight, WaitIsRight, JobIsSeen, Nobody, PageRun
<1> QED
  BY <1>1, <1>2 DEF PageInit, PageIInv, ChainIsWhole

(* What a stop of the run in front leaves is right, whichever run comes to  *)
(* the front next.                                                         *)
LEMMA StopIsRight ==
  ASSUME PageIInv, NEW ahead, ahead = Nobody \/ (ahead = begun + 1)
  PROVE  /\ StopFront.run \in [PageRun -> RunRecord]
         /\ StopFront.cancel \in [PageRun -> CancelState]
         /\ StopFront.chain \in SUBSET PageRun
         /\ \A r \in PageRun : begun < r => StopFront.run[r] = NewRun /\ StopFront.cancel[r] = "none"
         /\ \A r \in PageRun : r <= begun =>
              RunIsRight(r, StopFront.run[r], ahead, StopFront.cancel, server)
         /\ ChainIsWhole(StopFront.cancel, StopFront.chain)
<1> USE DEF PageIInv
<1> DEFINE known == {r \in {front} \ {Nobody} : run[r].registered}
           stopped == [run[front] EXCEPT !.stopped = TRUE, !.registered = FALSE, !.failures = 0,
                         !.task = IF @ = "following" \/ (@ = "asking" /\ run[front].kind = "restore")
                                  THEN "over" ELSE @]
           runs == StopFront.run
           cancels == StopFront.cancel
<1>1. \A r \in PageRun : run[r] \in RunRecord /\ r \in Nat /\ r # Nobody /\ cancel[r] \in CancelState
  BY PageAssumption DEF PageTypeOK, PageRun, Nobody
<1>2. known \in SUBSET PageRun /\ \A r \in known : r = front
  BY PageAssumption DEF PageTypeOK, PageRun, Nobody
<1>3. front \in PageRun =>
        /\ stopped \in RunRecord /\ stopped.stopped /\ ~stopped.registered
        /\ stopped.task = IF run[front].task = "following" \/ (run[front].task = "asking" /\ run[front].kind = "restore")
                          THEN "over" ELSE run[front].task
        /\ stopped.kind = run[front].kind /\ stopped.post = run[front].post
        /\ stopped.waits = run[front].waits /\ stopped.owed = run[front].owed
  <2> SUFFICES ASSUME front \in PageRun
               PROVE  /\ stopped \in RunRecord /\ stopped.stopped /\ ~stopped.registered
                      /\ stopped.task = IF run[front].task = "following" \/ (run[front].task = "asking" /\ run[front].kind = "restore")
                                        THEN "over" ELSE run[front].task
                      /\ stopped.kind = run[front].kind /\ stopped.post = run[front].post
                      /\ stopped.waits = run[front].waits /\ stopped.owed = run[front].owed
    OBVIOUS
  <2> DEFINE task == IF run[front].task = "following" \/ (run[front].task = "asking" /\ run[front].kind = "restore")
                     THEN "over" ELSE run[front].task
  <2>1. task \in Task /\ run[front] \in RunRecord
    BY <1>1 DEF Task, RunRecord
  <2>2. stopped = [run[front] EXCEPT !.stopped = TRUE, !.registered = FALSE, !.failures = 0, !.task = task]
    BY <2>1 DEF RunRecord
  <2> HIDE DEF task
  <2>3. /\ stopped \in RunRecord /\ stopped.stopped /\ ~stopped.registered /\ stopped.task = task
        /\ stopped.kind = run[front].kind /\ stopped.post = run[front].post
        /\ stopped.waits = run[front].waits /\ stopped.owed = run[front].owed
    BY <2>1, <2>2 DEF RunRecord
  <2> QED
    BY <2>3 DEF task
<1>4. /\ runs = [r \in PageRun |-> IF r # front THEN run[r] ELSE stopped]
      /\ cancels = [r \in PageRun |-> IF r \in known THEN "sent" ELSE cancel[r]]
      /\ StopFront.chain = chain \cup known
  BY DEF StopFront, Chained
<1> HIDE DEF runs, cancels, stopped, known
<1>5. runs \in [PageRun -> RunRecord] /\ cancels \in [PageRun -> CancelState]
  BY <1>1, <1>3, <1>4 DEF CancelState
<1>6. StopFront.chain \in SUBSET PageRun
  BY <1>2, <1>4 DEF PageTypeOK
<1>7. \A r \in PageRun : begun < r => runs[r] = NewRun /\ cancels[r] = "none"
  BY <1>1, <1>2, <1>4 DEF PageTypeOK
<1>8. \A s \in PageRun : /\ cancel[s] # "none" => cancels[s] = cancel[s]
                         /\ (cancel[s] = "none" /\ cancels[s] # "none") => s = front /\ run[s].registered
                         /\ cancel[s] = "none" /\ s \in known => cancels[s] # "none"
  <2>1. \A s \in PageRun : s \in known => cancel[s] = "none"
    BY DEF known, RunIsRight, TaskIsRight
  <2> QED
    BY <1>1, <1>4, <2>1 DEF known
<1>9. ASSUME NEW r \in PageRun, r <= begun PROVE RunIsRight(r, runs[r], ahead, cancels, server)
  <2>1. RunIsRight(r, run[r], front, cancel, server) /\ run[r].owed \in SUBSET PageRun
    BY <1>1 DEF RunRecord
  <2>2. ahead # r
    BY <1>1, <1>9 DEF PageTypeOK, Nobody
  <2>3. CASE r # front
    <3>1. runs[r] = run[r] /\ cancels[r] = cancel[r]
      BY <1>4, <1>2, <2>3
    <3>2. TaskIsRight(r, run[r], ahead, cancels)
      BY <2>1, <2>2, <2>3, <3>1 DEF RunIsRight, TaskIsRight
    <3>3. WaitIsRight(run[r], cancels)
      BY <1>8, <2>1 DEF RunIsRight, WaitIsRight
    <3>4. JobIsSeen(r, run[r], ahead, cancels, server)
      BY <2>1, <2>3, <3>1 DEF RunIsRight, JobIsSeen
    <3> QED
      BY <3>1, <3>2, <3>3, <3>4 DEF RunIsRight
  <2>4. CASE r = front
    <3>1. runs[r] = stopped
      BY <1>4, <2>4
    <3>2. TaskIsRight(r, stopped, ahead, cancels)
      <4>1. cancels[r] # "none" => stopped.task = "over"
        BY <1>3, <1>8, <2>1, <2>4 DEF RunIsRight, TaskIsRight
      <4> QED
        BY <1>3, <2>1, <2>2, <2>4, <4>1 DEF RunIsRight, TaskIsRight
    <3>3. WaitIsRight(stopped, cancels)
      BY <1>3, <1>8, <2>1, <2>4 DEF RunIsRight, WaitIsRight
    <3>4. JobIsSeen(r, stopped, ahead, cancels, server)
      <4>1. run[r].registered => cancels[r] # "none"
        BY <1>1, <1>4, <2>4 DEF known
      <4> QED
        BY <1>3, <1>8, <2>1, <2>4, <4>1 DEF RunIsRight, JobIsSeen
    <3> QED
      BY <3>1, <3>2, <3>3, <3>4 DEF RunIsRight
  <2> QED
    BY <2>3, <2>4
<1>10. ChainIsWhole(cancels, StopFront.chain)
  BY <1>4 DEF ChainIsWhole
<1> QED
  BY <1>5, <1>6, <1>7, <1>9, <1>10 DEF runs, cancels

(* The invariant is kept when one run goes on rightly, at most leaving the *)
(* front, and what is final is not the run in front's.                     *)
LEMMA OneRunMoves ==
  ASSUME PageIInv, NEW r \in PageRun, r <= begun,
         run' \in [PageRun -> RunRecord], \A s \in PageRun \ {r} : run'[s] = run[s],
         front' = front \/ (front = r /\ front' = Nobody),
         RunIsRight(r, run'[r], front', cancel, server),
         UNCHANGED <<begun, cancel, chain, server>>,
         loading' \in BOOLEAN, onScreen' \in [run : 0 .. begun, final : BOOLEAN],
         onScreen'.final => onScreen'.run # Nobody /\ onScreen'.run # front'
  PROVE  PageIInv'
<1> USE DEF PageIInv
<1>1. PageTypeOK'
  BY PageAssumption DEF PageTypeOK, Nobody
<1>2. \A s \in PageRun : begun' < s => run'[s] = NewRun /\ cancel'[s] = "none"
  BY DEF PageTypeOK, PageRun
<1>3. ASSUME NEW s \in PageRun PROVE RunIsRight(s, run'[s], front', cancel', server')
  <2>1. CASE s = r
    BY <2>1
  <2>2. CASE s # r
    <3>1. run'[s] = run[s] /\ RunIsRight(s, run[s], front, cancel, server)
      BY <2>2
    <3>2. front' = s <=> front = s
      BY <2>2 DEF PageRun, Nobody
    <3> QED
      BY <3>1, <3>2 DEF RunIsRight, TaskIsRight, JobIsSeen
  <2> QED
    BY <2>1, <2>2
<1>4. ChainIsWhole(cancel', chain')
  BY DEF ChainIsWhole
<1> QED
  BY <1>1, <1>2, <1>3, <1>4

(* A run that is under way has begun. *)
LEMMA UnderWayHasBegun ==
  ASSUME PageIInv, NEW r \in PageRun, run[r].task # "none" \/ run[r].post # "none" \/ cancel[r] # "none"
  PROVE  /\ r <= begun /\ run[r] \in RunRecord /\ r \in Nat /\ r # Nobody
         /\ RunIsRight(r, run[r], front, cancel, server)
BY NewRunIsRight DEF PageIInv, PageTypeOK, PageRun, Nobody

(* A search or a restored one takes the front (useSearch), leaving the one *)
(* before it.                                                              *)
LEMMA BeginStep ==
  ASSUME PageIInv, NEW kind \in {"search", "restore"}, Begin(kind)
  PROVE  PageIInv'
<1> USE DEF PageIInv
<1> DEFINE r == begun + 1
           new == [NewRun EXCEPT !.task = "waiting", !.kind = kind, !.waits = StopFront.chain,
                                 !.owed = OnTheirWay(StopFront.cancel)]
<1>1. r \in PageRun /\ r \in 0 .. MaxRuns /\ begun \in Nat /\ r # Nobody /\ r > begun
  BY PageAssumption DEF Begin, PageTypeOK, PageRun, Nobody
<1>2. /\ StopFront.run \in [PageRun -> RunRecord]
      /\ StopFront.cancel \in [PageRun -> CancelState]
      /\ StopFront.chain \in SUBSET PageRun
      /\ \A s \in PageRun : begun < s => StopFront.run[s] = NewRun /\ StopFront.cancel[s] = "none"
      /\ \A s \in PageRun : s <= begun => RunIsRight(s, StopFront.run[s], r, StopFront.cancel, server)
      /\ ChainIsWhole(StopFront.cancel, StopFront.chain)
  BY StopIsRight
<1>3. /\ new \in RunRecord /\ new.task = "waiting" /\ new.post = "none" /\ ~new.registered
      /\ ~new.stopped /\ new.waits = StopFront.chain /\ new.owed = OnTheirWay(StopFront.cancel)
  BY <1>2, NewRunIsRight DEF RunRecord, Task, OnTheirWay
<1>4. /\ begun' = r /\ front' = r /\ run' = [StopFront.run EXCEPT ![r] = new]
      /\ cancel' = StopFront.cancel /\ chain' = StopFront.chain /\ server' = server
      /\ loading' = TRUE
      /\ onScreen' = IF kind = "search" THEN [run |-> Nobody, final |-> FALSE] ELSE onScreen
  BY DEF Begin
<1> HIDE DEF r, new
<1>5. PageTypeOK'
  <2>1. onScreen' \in [run : 0 .. begun', final : BOOLEAN]
    BY <1>1, <1>4 DEF PageTypeOK, Nobody, r
  <2>2. front' \in 0 .. begun' /\ begun' \in 0 .. MaxRuns
    BY <1>1, <1>4
  <2> QED
    BY <1>1, <1>2, <1>3, <1>4, <2>1, <2>2 DEF PageTypeOK
<1>6. \A s \in PageRun : begun' < s => run'[s] = NewRun /\ cancel'[s] = "none"
  BY <1>1, <1>2, <1>4 DEF PageRun
<1>7. ASSUME NEW s \in PageRun PROVE RunIsRight(s, run'[s], front', cancel', server')
  <2>1. CASE s = r
    <3>1. run'[s] = new /\ cancel'[s] = "none"
      BY <1>1, <1>2, <1>4, <2>1
    <3>2. WaitIsRight(new, cancel')
      BY <1>2, <1>3, <1>4 DEF WaitIsRight, OnTheirWay, ChainIsWhole
    <3> QED
      BY <1>3, <1>4, <2>1, <3>1, <3>2 DEF RunIsRight, TaskIsRight, JobIsSeen
  <2>2. CASE s <= begun
    BY <1>1, <1>2, <1>4, <2>2
  <2>3. CASE s > begun + 1
    <3>1. begun < s /\ s # r
      BY <1>1, <2>3 DEF PageRun, r
    <3>2. run'[s] = NewRun /\ cancel'[s] = "none"
      BY <1>2, <1>4, <3>1
    <3> QED
      BY <1>4, <3>1, <3>2, NewRunIsRight DEF RunIsRight, TaskIsRight, WaitIsRight, JobIsSeen, r
  <2> QED
    BY <1>1, <2>1, <2>2, <2>3 DEF r, PageRun
<1>8. ChainIsWhole(cancel', chain')
  BY <1>2, <1>4
<1>9. onScreen'.final => onScreen'.run # Nobody /\ onScreen'.run # front'
  BY <1>1, <1>4 DEF PageTypeOK
<1> QED
  BY <1>5, <1>6, <1>7, <1>8, <1>9

(* The user's stop and the page's leave: nobody is in front. *)
LEMMA LeavesFront ==
  ASSUME PageIInv, run' = StopFront.run, cancel' = StopFront.cancel, chain' = StopFront.chain,
         front' = Nobody, UNCHANGED <<begun, server>>, loading' \in BOOLEAN,
         onScreen' \in [run : 0 .. begun, final : BOOLEAN], onScreen'.final => onScreen'.run # Nobody
  PROVE  PageIInv'
<1> USE DEF PageIInv
<1>1. /\ StopFront.run \in [PageRun -> RunRecord]
      /\ StopFront.cancel \in [PageRun -> CancelState]
      /\ StopFront.chain \in SUBSET PageRun
      /\ \A s \in PageRun : begun < s => StopFront.run[s] = NewRun /\ StopFront.cancel[s] = "none"
      /\ \A s \in PageRun : s <= begun => RunIsRight(s, StopFront.run[s], Nobody, StopFront.cancel, server)
      /\ ChainIsWhole(StopFront.cancel, StopFront.chain)
  BY StopIsRight
<1>2. PageTypeOK'
  BY <1>1, PageAssumption DEF PageTypeOK, Nobody
<1>3. ASSUME NEW s \in PageRun PROVE RunIsRight(s, run'[s], front', cancel', server')
  <2>1. CASE s <= begun
    BY <1>1, <2>1
  <2>2. CASE begun < s
    <3>1. run'[s] = NewRun /\ cancel'[s] = "none" /\ s # Nobody
      BY <1>1, <2>2 DEF PageRun, Nobody
    <3> QED
      BY <3>1, NewRunIsRight DEF RunIsRight, TaskIsRight, WaitIsRight, JobIsSeen
  <2> QED
    BY <2>1, <2>2 DEF PageRun, PageTypeOK
<1> QED
  BY <1>1, <1>2, <1>3

(* The user stops the search in front.                                     *)
LEMMA UserStopsStep == ASSUME PageIInv, UserStops PROVE PageIInv'
<1>1. onScreen' \in [run : 0 .. begun, final : BOOLEAN] /\ onScreen'.final => onScreen'.run # Nobody
  BY DEF UserStops, PageIInv, PageTypeOK
<1> QED
  BY <1>1, LeavesFront DEF UserStops, PageIInv, PageTypeOK

(* The page is hidden, and the run in front is stopped.                    *)
LEMMA PageHidesStep == ASSUME PageIInv, PageHides PROVE PageIInv'
BY LeavesFront DEF PageHides, PageIInv, PageTypeOK

(* A run goes on after what it waited for, or finds it was left.           *)
LEMMA ProceedStep == ASSUME PageIInv, NEW r \in PageRun, Proceed(r) PROVE PageIInv'
<1> USE DEF PageIInv
<1>1. /\ r <= begun /\ run[r] \in RunRecord /\ run[r].task = "waiting"
      /\ RunIsRight(r, run[r], front, cancel, server)
  BY UnderWayHasBegun DEF Proceed
<1>2. CASE front = r
  <2> DEFINE one == [run[r] EXCEPT !.task = "asking", !.post = "sent", !.waits = {}]
  <2>1. /\ one \in RunRecord /\ one.task = "asking" /\ one.post = "sent" /\ one.owed = run[r].owed
        /\ one.stopped = run[r].stopped /\ one.registered = run[r].registered /\ one.kind = run[r].kind
    BY <1>1 DEF RunRecord, Task, Post
  <2>2. run' = [run EXCEPT ![r] = one]
    BY <1>2 DEF Proceed, PageTypeOK
  <2> HIDE DEF one
  <2>3. /\ run' \in [PageRun -> RunRecord] /\ run'[r] = one
        /\ \A s \in PageRun \ {r} : run'[s] = run[s]
    BY <2>1, <2>2 DEF PageTypeOK
  <2>4. TaskIsRight(r, one, front, cancel)
    BY <1>1, <1>2, <2>1 DEF RunIsRight, TaskIsRight
  <2>5. WaitIsRight(one, cancel)
    <3>1. ASSUME NEW s \in one.owed PROVE cancel[s] = "settled"
      <4>1. s \in PageRun /\ cancel[s] \in CancelState
        BY <1>1, <2>1, <3>1 DEF RunRecord, PageTypeOK
      <4>2. cancel[s] # "none" /\ (s \in run[r].waits \/ cancel[s] = "settled")
        BY <1>1, <2>1, <3>1 DEF RunIsRight, WaitIsRight
      <4>3. s \in run[r].waits => s \notin OnTheirWay(cancel)
        BY DEF Proceed
      <4> QED
        BY <4>1, <4>2, <4>3 DEF OnTheirWay, CancelState
    <3> QED
      BY <2>1, <3>1 DEF WaitIsRight
  <2>6. JobIsSeen(r, one, front, cancel, server)
    BY <2>1 DEF JobIsSeen
  <2> QED
    BY <1>1, <2>3, <2>4, <2>5, <2>6, OneRunMoves DEF Proceed, RunIsRight, PageTypeOK
<1>3. CASE front # r
  <2> DEFINE one == [run[r] EXCEPT !.task = "over", !.waits = {}, !.owed = {}]
  <2>1. /\ one \in RunRecord /\ one.task = "over" /\ one.post = run[r].post /\ one.owed = {}
        /\ one.stopped = run[r].stopped /\ one.registered = run[r].registered /\ one.kind = run[r].kind
    BY <1>1 DEF RunRecord, Task, Post
  <2>2. run' = [run EXCEPT ![r] = one]
    BY <1>3 DEF Proceed, PageTypeOK
  <2> HIDE DEF one
  <2>3. /\ run' \in [PageRun -> RunRecord] /\ run'[r] = one
        /\ \A s \in PageRun \ {r} : run'[s] = run[s]
    BY <2>1, <2>2 DEF PageTypeOK
  <2>4. RunIsRight(r, one, front, cancel, server)
    BY <1>1, <1>3, <2>1 DEF RunIsRight, TaskIsRight, WaitIsRight, JobIsSeen
  <2> QED
    BY <1>1, <2>3, <2>4, OneRunMoves DEF Proceed, PageTypeOK
<1> QED
  BY <1>2, <1>3

(* The request that creates the job fails.                                 *)
LEMMA PostFailsStep == ASSUME PageIInv, NEW r \in PageRun, PostFails(r) PROVE PageIInv'
<1> USE DEF PageIInv
<1> DEFINE one == [run[r] EXCEPT !.post = "lost", !.task = "over"]
<1>1. /\ r <= begun /\ run[r] \in RunRecord /\ run[r].task = "asking" /\ r # Nobody
      /\ run[r].post # "none" /\ RunIsRight(r, run[r], front, cancel, server)
  BY UnderWayHasBegun DEF PostFails
<1>2. /\ one \in RunRecord /\ one.task = "over" /\ one.post = "lost" /\ one.owed = run[r].owed
      /\ one.stopped = run[r].stopped /\ one.registered = run[r].registered /\ one.kind = run[r].kind
  BY <1>1 DEF RunRecord, Task, Post
<1>3. run' = [run EXCEPT ![r] = one]
  BY DEF PostFails, PageTypeOK
<1> HIDE DEF one
<1>4. /\ run' \in [PageRun -> RunRecord] /\ run'[r] = one
      /\ \A s \in PageRun \ {r} : run'[s] = run[s]
  BY <1>2, <1>3 DEF PageTypeOK
<1>5. front' # r /\ (front' = front \/ (front = r /\ front' = Nobody))
  BY <1>1 DEF PostFails
<1>6. RunIsRight(r, one, front', cancel, server)
  BY <1>1, <1>2, <1>5 DEF RunIsRight, TaskIsRight, WaitIsRight, JobIsSeen
<1>7. loading' \in BOOLEAN /\ UNCHANGED <<begun, cancel, chain, server, onScreen>>
  BY DEF PostFails, PageTypeOK
<1>8. onScreen.final => onScreen.run # Nobody /\ onScreen.run # front'
  BY <1>5
<1> QED
  BY <1>1, <1>4, <1>5, <1>6, <1>7, <1>8, OneRunMoves DEF PageTypeOK

(* What an answer publishes of the run in front. *)
LEMMA PublishIsRight ==
  ASSUME PageIInv, NEW r \in PageRun, r <= begun, NEW ended \in BOOLEAN, front = r, Publish(r, ended)
  PROVE  /\ front' = IF ended THEN Nobody ELSE front
         /\ loading' \in BOOLEAN
         /\ onScreen' = [run |-> r, final |-> ended] /\ onScreen' \in [run : 0 .. begun, final : BOOLEAN]
         /\ onScreen'.final => onScreen'.run # Nobody /\ onScreen'.run # front'
BY DEF PageIInv, PageTypeOK, Publish, PageRun, Nobody

(* A run whose first or next answer came: its job is over, or followed.    *)
LEMMA AnsweredIsRight ==
  ASSUME PageIInv, NEW r \in PageRun, NEW one \in RunRecord, NEW ended \in BOOLEAN,
         front = r, RunIsRight(r, run[r], front, cancel, server), run[r].post # "none",
         run[r].task \in {"asking", "following"}, ~run[r].stopped,
         one.kind = run[r].kind, one.owed = run[r].owed, ~one.stopped, one.post = "told",
         one.task = IF ended THEN "over" ELSE "following",
         one.registered => ~ended,
         (one.kind = "search" /\ ~ended) => one.registered,
         one.kind = "search" => (ended <=> server[r] = "ended")
  PROVE  RunIsRight(r, one, IF ended THEN Nobody ELSE front, cancel, server)
<1>1. cancel[r] = "none"
  BY DEF RunIsRight, TaskIsRight
<1>2. r # Nobody
  BY DEF PageRun, Nobody
<1>3. TaskIsRight(r, one, IF ended THEN Nobody ELSE front, cancel)
  BY <1>1, <1>2 DEF TaskIsRight
<1>4. WaitIsRight(one, cancel)
  BY DEF RunIsRight, WaitIsRight
<1>5. JobIsSeen(r, one, IF ended THEN Nobody ELSE front, cancel, server)
  BY DEF JobIsSeen
<1> QED
  BY <1>3, <1>4, <1>5 DEF RunIsRight

(* The job is known to the page, which follows it or, if it was left,      *)
(* cancels it.                                                             *)
LEMMA PostAnsweredStep ==
  ASSUME PageIInv, NEW r \in PageRun, PostAnswered(r)
  PROVE  PageIInv'
<1> USE DEF PageIInv
<1>1. /\ r <= begun /\ run[r] \in RunRecord /\ run[r].task = "asking" /\ r # Nobody
      /\ run[r].post = "made" /\ RunIsRight(r, run[r], front, cancel, server)
  BY UnderWayHasBegun DEF PostAnswered
<1>2. cancel[r] = "none" /\ ~run[r].registered /\ run[r].kind = "search"
  BY <1>1 DEF RunIsRight, TaskIsRight
<1>3. CASE run[r].stopped
  <2> DEFINE one == [run[r] EXCEPT !.post = "told", !.task = "over"]
  <2>1. front # r
    BY <1>1, <1>3 DEF RunIsRight, TaskIsRight
  <2>2. /\ one \in RunRecord /\ one.task = "over" /\ one.post = "told" /\ one.owed = run[r].owed
        /\ one.stopped /\ ~one.registered
    BY <1>1, <1>2, <1>3 DEF RunRecord, Task, Post
  <2>3. /\ run' = [run EXCEPT ![r] = one] /\ cancel' = [cancel EXCEPT ![r] = "sent"]
        /\ chain' = chain \cup {r} /\ UNCHANGED <<front, begun, server, onScreen, loading>>
    BY <1>3, <2>1 DEF PostAnswered, Learnt, Chained, PageTypeOK
  <2> HIDE DEF one
  <2>4. /\ run' \in [PageRun -> RunRecord] /\ cancel' \in [PageRun -> CancelState]
        /\ run'[r] = one /\ \A s \in PageRun \ {r} : run'[s] = run[s] /\ cancel'[s] = cancel[s]
        /\ cancel'[r] = "sent"
    BY <2>2, <2>3 DEF PageTypeOK, CancelState
  <2>5. PageTypeOK'
    BY <2>3, <2>4 DEF PageTypeOK
  <2>6. \A s \in PageRun : begun' < s => run'[s] = NewRun /\ cancel'[s] = "none"
    BY <1>1, <2>3, <2>4 DEF PageTypeOK, PageRun
  <2>7. ASSUME NEW s \in PageRun PROVE RunIsRight(s, run'[s], front', cancel', server')
    <3>1. /\ RunIsRight(s, run[s], front, cancel, server) /\ run[s] \in RunRecord
          /\ \A u \in run[s].owed : u \in PageRun /\ u # r
      BY <1>2 DEF RunIsRight, WaitIsRight, PageTypeOK, RunRecord
    <3>2. CASE s = r
      <4>1. WaitIsRight(one, cancel')
        BY <2>2, <2>4, <3>1, <3>2, <1>1 DEF RunIsRight, WaitIsRight
      <4> QED
        BY <2>1, <2>2, <2>3, <2>4, <3>2, <4>1 DEF RunIsRight, TaskIsRight, JobIsSeen
    <3>3. CASE s # r
      <4>1. run'[s] = run[s] /\ cancel'[s] = cancel[s]
        BY <2>4, <3>3
      <4>2. WaitIsRight(run[s], cancel')
        BY <2>4, <3>1 DEF RunIsRight, WaitIsRight
      <4> QED
        BY <2>3, <3>1, <4>1, <4>2 DEF RunIsRight, TaskIsRight, JobIsSeen
    <3> QED
      BY <3>2, <3>3
  <2>8. ChainIsWhole(cancel', chain')
    BY <2>3, <2>4 DEF ChainIsWhole
  <2> QED
    BY <2>3, <2>5, <2>6, <2>7, <2>8
<1>4. CASE ~run[r].stopped
  <2> DEFINE ended == server[r] = "ended"
             one == [run[r] EXCEPT !.post = "told", !.registered = ~ended,
                                   !.task = IF ended THEN "over" ELSE "following"]
  <2>1. front = r
    BY <1>1, <1>4 DEF RunIsRight, TaskIsRight
  <2>2. /\ one \in RunRecord /\ one.task = (IF ended THEN "over" ELSE "following")
        /\ one.post = "told" /\ one.owed = run[r].owed /\ one.kind = run[r].kind
        /\ ~one.stopped /\ one.registered = ~ended
    BY <1>1, <1>4 DEF RunRecord, Task, Post
  <2>3. /\ run' = [run EXCEPT ![r] = one] /\ Publish(r, ended)
        /\ UNCHANGED <<begun, cancel, chain, server>>
    BY <1>4, <2>1 DEF PostAnswered, Learnt, PageTypeOK
  <2>4. ended \in BOOLEAN /\ (ended <=> server[r] = "ended")
    OBVIOUS
  <2> HIDE DEF one, ended
  <2>5. run' \in [PageRun -> RunRecord] /\ run'[r] = one /\ \A s \in PageRun \ {r} : run'[s] = run[s]
    BY <2>2, <2>3 DEF PageTypeOK
  <2>6. /\ front' = (IF ended THEN Nobody ELSE front) /\ loading' \in BOOLEAN
        /\ onScreen' \in [run : 0 .. begun, final : BOOLEAN]
        /\ onScreen'.final => onScreen'.run # Nobody /\ onScreen'.run # front'
    BY <1>1, <2>1, <2>3, <2>4, PublishIsRight
  <2>7. RunIsRight(r, one, IF ended THEN Nobody ELSE front, cancel, server)
    BY <1>1, <1>4, <2>1, <2>2, <2>4, AnsweredIsRight
  <2> QED
    BY <1>1, <2>1, <2>3, <2>5, <2>6, <2>7, OneRunMoves
<1> QED
  BY <1>3, <1>4

(* The job of another tab is found, running or over.                       *)
LEMMA RestoreAnsweredStep == ASSUME PageIInv, NEW r \in PageRun, RestoreAnswered(r) PROVE PageIInv'
<1> USE DEF PageIInv
<1> DEFINE ended == server[OtherTab] = "ended"
           one == [run[r] EXCEPT !.registered = ~ended, !.post = "told",
                                 !.task = IF ended THEN "over" ELSE "following"]
<1>1. /\ r <= begun /\ run[r] \in RunRecord /\ run[r].task = "asking" /\ run[r].kind = "restore"
      /\ r # Nobody /\ RunIsRight(r, run[r], front, cancel, server)
  BY UnderWayHasBegun DEF RestoreAnswered
<1>2. front = r /\ ~run[r].stopped /\ cancel[r] = "none"
  BY <1>1 DEF RunIsRight, TaskIsRight
<1>3. /\ one \in RunRecord /\ one.task = (IF ended THEN "over" ELSE "following")
      /\ one.post = "told" /\ one.owed = run[r].owed /\ one.kind = "restore"
      /\ ~one.stopped /\ one.registered = ~ended
  BY <1>1, <1>2 DEF RunRecord, Task, Post
<1>4. /\ run' = [run EXCEPT ![r] = one] /\ Publish(r, ended)
      /\ UNCHANGED <<begun, cancel, chain, server>> /\ ended \in BOOLEAN
  BY DEF RestoreAnswered, PageTypeOK
<1> HIDE DEF one, ended
<1>5. run' \in [PageRun -> RunRecord] /\ run'[r] = one /\ \A s \in PageRun \ {r} : run'[s] = run[s]
  BY <1>3, <1>4 DEF PageTypeOK
<1>6. /\ front' = (IF ended THEN Nobody ELSE front) /\ loading' \in BOOLEAN
      /\ onScreen' \in [run : 0 .. begun, final : BOOLEAN]
      /\ onScreen'.final => onScreen'.run # Nobody /\ onScreen'.run # front'
  BY <1>1, <1>2, <1>4, PublishIsRight
<1>7. RunIsRight(r, one, IF ended THEN Nobody ELSE front, cancel, server)
  <2>1. WaitIsRight(one, cancel)
    <3>1. ASSUME NEW s \in one.owed PROVE cancel[s] = "settled"
      BY <1>1, <1>3, <3>1 DEF RunIsRight, WaitIsRight
    <3> QED
      BY <1>3, <3>1 DEF WaitIsRight
  <2> QED
    BY <1>1, <1>2, <1>3, <2>1 DEF RunIsRight, TaskIsRight, JobIsSeen
<1> QED
  BY <1>1, <1>2, <1>4, <1>5, <1>6, <1>7, OneRunMoves

(* A poll is answered, and drawn only by the run in front.                 *)
LEMMA PollAnsweredStep == ASSUME PageIInv, NEW r \in PageRun, PollAnswered(r) PROVE PageIInv'
<1> USE DEF PageIInv
<1> DEFINE ended == server[JobOf(r)] = "ended"
           one == [run[r] EXCEPT !.failures = 0, !.registered = run[r].registered /\ ~ended,
                                 !.task = IF ended THEN "over" ELSE "following"]
<1>1. /\ r <= begun /\ run[r] \in RunRecord /\ run[r].task = "following"
      /\ r # Nobody /\ RunIsRight(r, run[r], front, cancel, server)
  BY UnderWayHasBegun DEF PollAnswered
<1>2. front = r /\ ~run[r].stopped /\ cancel[r] = "none"
  BY <1>1 DEF RunIsRight, TaskIsRight
<1>3. /\ one \in RunRecord /\ one.task = (IF ended THEN "over" ELSE "following")
      /\ one.post = run[r].post /\ one.owed = run[r].owed /\ one.kind = run[r].kind
      /\ ~one.stopped /\ one.registered = (run[r].registered /\ ~ended)
  BY <1>1, <1>2 DEF RunRecord, Task, Post
<1>4. /\ run' = [run EXCEPT ![r] = one] /\ Publish(r, ended)
      /\ UNCHANGED <<begun, cancel, chain, server>> /\ ended \in BOOLEAN
      /\ run[r].kind = "search" => (ended <=> server[r] = "ended")
  BY <1>1 DEF PollAnswered, PageTypeOK, JobOf
<1> HIDE DEF one, ended
<1>5. run' \in [PageRun -> RunRecord] /\ run'[r] = one /\ \A s \in PageRun \ {r} : run'[s] = run[s]
  BY <1>3, <1>4 DEF PageTypeOK
<1>6. /\ front' = (IF ended THEN Nobody ELSE front) /\ loading' \in BOOLEAN
      /\ onScreen' \in [run : 0 .. begun, final : BOOLEAN]
      /\ onScreen'.final => onScreen'.run # Nobody /\ onScreen'.run # front'
  BY <1>1, <1>2, <1>4, PublishIsRight
<1>7. RunIsRight(r, one, IF ended THEN Nobody ELSE front, cancel, server)
  <2>1. TaskIsRight(r, one, IF ended THEN Nobody ELSE front, cancel)
    BY <1>1, <1>2, <1>3 DEF RunIsRight, TaskIsRight
  <2>2. WaitIsRight(one, cancel)
    BY <1>1, <1>3 DEF RunIsRight, WaitIsRight
  <2>3. JobIsSeen(r, one, IF ended THEN Nobody ELSE front, cancel, server)
    BY <1>1, <1>2, <1>3, <1>4 DEF RunIsRight, JobIsSeen
  <2> QED
    BY <2>1, <2>2, <2>3 DEF RunIsRight
<1> QED
  BY <1>1, <1>2, <1>4, <1>5, <1>6, <1>7, OneRunMoves

(* A poll is lost; the run gives up after enough of them.                  *)
LEMMA PollLostStep ==
  ASSUME PageIInv, NEW r \in PageRun, NEW fatal \in BOOLEAN, PollLost(r, fatal)
  PROVE  PageIInv'
<1> USE DEF PageIInv
<1> DEFINE over == fatal \/ run[r].failures + 1 >= FailureLimit
           failures == IF over THEN 0 ELSE run[r].failures + 1
           task == IF over THEN "over" ELSE run[r].task
           one == [run[r] EXCEPT !.failures = failures, !.task = task]
<1>1. /\ r <= begun /\ run[r] \in RunRecord /\ run[r].task = "following"
      /\ r # Nobody /\ RunIsRight(r, run[r], front, cancel, server)
  BY UnderWayHasBegun DEF PollLost
<1>2. failures \in Nat /\ task \in {"following", "over"}
  BY <1>1 DEF RunRecord
<1>3. run' = [run EXCEPT ![r].failures = failures, ![r].task = task]
  BY DEF PollLost
<1>4. loading' \in BOOLEAN /\ UNCHANGED <<front, begun, cancel, chain, server, onScreen>>
  BY DEF PollLost, PageTypeOK
<1> HIDE DEF failures, task
<1>5. /\ one \in RunRecord /\ one.task = task /\ one.kind = run[r].kind /\ one.post = run[r].post
      /\ one.owed = run[r].owed /\ one.stopped = run[r].stopped /\ one.registered = run[r].registered
  BY <1>1, <1>2 DEF RunRecord, Task
<1>6. run' = [run EXCEPT ![r] = one]
  BY <1>3 DEF PageTypeOK
<1> HIDE DEF one
<1>7. run' \in [PageRun -> RunRecord] /\ run'[r] = one /\ \A s \in PageRun \ {r} : run'[s] = run[s]
  BY <1>5, <1>6 DEF PageTypeOK
<1>8. RunIsRight(r, one, front, cancel, server)
  BY <1>1, <1>2, <1>5 DEF RunIsRight, TaskIsRight, WaitIsRight, JobIsSeen
<1> QED
  BY <1>1, <1>4, <1>7, <1>8, OneRunMoves DEF PageTypeOK

(* The server's part: what it does to its jobs, and to cancellations. *)
LEMMA ServerAcceptsStep == ASSUME PageIInv, NEW r \in PageRun, ServerAccepts(r) PROVE PageIInv'
<1> USE DEF PageIInv
<1> DEFINE one == [run[r] EXCEPT !.post = "made"]
<1>1. /\ r <= begun /\ run[r] \in RunRecord /\ run[r].post = "sent" /\ run[r].kind = "search"
      /\ RunIsRight(r, run[r], front, cancel, server)
  BY UnderWayHasBegun DEF ServerAccepts
<1>2. /\ one \in RunRecord /\ one.task = run[r].task /\ one.post = "made" /\ one.owed = run[r].owed
      /\ one.stopped = run[r].stopped /\ one.registered = run[r].registered /\ one.kind = "search"
      /\ one.waits = run[r].waits
  BY <1>1 DEF RunRecord, Post
<1>3. /\ run' = [run EXCEPT ![r] = one] /\ server' = [server EXCEPT ![r] = "running"]
      /\ UNCHANGED <<front, begun, cancel, chain, onScreen, loading>>
  BY DEF ServerAccepts, PageTypeOK
<1> HIDE DEF one
<1>4. /\ run' \in [PageRun -> RunRecord] /\ run'[r] = one /\ \A s \in PageRun \ {r} : run'[s] = run[s]
      /\ server' \in [Job -> {"none", "running", "ended"}]
      /\ \A s \in PageRun \ {r} : server'[s] = server[s]
  BY <1>2, <1>3 DEF PageTypeOK, Job
<1>5. PageTypeOK'
  BY <1>3, <1>4 DEF PageTypeOK
<1>6. \A s \in PageRun : begun' < s => run'[s] = NewRun /\ cancel'[s] = "none"
  BY <1>1, <1>3, <1>4 DEF PageTypeOK, PageRun
<1>7. ASSUME NEW s \in PageRun PROVE RunIsRight(s, run'[s], front', cancel', server')
  <2>1. RunIsRight(s, run[s], front, cancel, server)
    OBVIOUS
  <2>2. CASE s = r
    BY <1>1, <1>2, <1>3, <1>4, <2>2 DEF RunIsRight, TaskIsRight, WaitIsRight, JobIsSeen
  <2>3. CASE s # r
    BY <1>3, <1>4, <2>1, <2>3 DEF RunIsRight, JobIsSeen
  <2> QED
    BY <2>2, <2>3
<1> QED
  BY <1>3, <1>5, <1>6, <1>7 DEF ChainIsWhole

(* A job that ends in the server keeps what the page owes it.              *)
LEMMA JobEndsStep ==
  ASSUME PageIInv, NEW j \in Job, server' = [server EXCEPT ![j] = "ended"],
         cancel' \in [PageRun -> CancelState],
         \A r \in PageRun : /\ cancel[r] = "none" <=> cancel'[r] = "none"
                            /\ cancel[r] = "settled" => cancel'[r] = "settled"
                            /\ cancel'[r] \in {"sent", "heard"} => cancel[r] \in {"sent", "heard"},
         UNCHANGED <<front, begun, run, chain, onScreen, loading>>
  PROVE  PageIInv'
<1> USE DEF PageIInv
<1>1. /\ server' \in [Job -> {"none", "running", "ended"}]
      /\ \A s \in PageRun : server'[s] = "running" => server[s] = "running"
  BY DEF PageTypeOK, Job
<1>2. PageTypeOK'
  BY <1>1 DEF PageTypeOK
<1>3. ASSUME NEW s \in PageRun PROVE RunIsRight(s, run'[s], front', cancel', server')
  <2>1. RunIsRight(s, run[s], front, cancel, server) /\ run[s] \in RunRecord
    BY DEF PageTypeOK
  <2>2. WaitIsRight(run[s], cancel')
    <3>1. \A u \in run[s].owed : u \in PageRun
      BY <2>1 DEF RunRecord
    <3> QED
      BY <2>1, <3>1 DEF RunIsRight, WaitIsRight
  <2> QED
    BY <1>1, <2>1, <2>2 DEF RunIsRight, TaskIsRight, JobIsSeen
<1>4. ChainIsWhole(cancel', chain')
  BY DEF ChainIsWhole
<1> QED
  BY <1>2, <1>3, <1>4

(* The server hears a cancel, and the job ends.                            *)
LEMMA CancelHeardStep == ASSUME PageIInv, NEW r \in PageRun, CancelHeard(r) PROVE PageIInv'
<1>1. JobOf(r) \in Job
  BY DEF JobOf, Job
<1>2. /\ cancel' \in [PageRun -> CancelState] /\ cancel[r] = "sent" /\ cancel'[r] = "heard"
      /\ \A s \in PageRun \ {r} : cancel'[s] = cancel[s]
  BY DEF CancelHeard, PageIInv, PageTypeOK, CancelState
<1> QED
  BY <1>1, <1>2, JobEndsStep DEF CancelHeard

(* A job ends in the server by itself.                                     *)
LEMMA ServerEndsStep == ASSUME PageIInv, NEW j \in PageRun \cup {OtherTab}, ServerEnds(j) PROVE PageIInv'
BY JobEndsStep DEF ServerEnds, PageIInv, PageTypeOK, Job

(* The page hears the end of its cancel.                                   *)
LEMMA CancelSettlesStep == ASSUME PageIInv, NEW r \in PageRun, CancelSettles(r) PROVE PageIInv'
<1> USE DEF PageIInv
<1>1. /\ cancel' \in [PageRun -> CancelState] /\ cancel[r] # "none" /\ cancel'[r] = "settled"
      /\ \A s \in PageRun \ {r} : cancel'[s] = cancel[s]
  BY DEF CancelSettles, PageTypeOK, CancelState
<1>2. UNCHANGED <<front, begun, run, server, onScreen, loading>> /\ chain' = chain \ {r}
  BY DEF CancelSettles
<1>3. PageTypeOK'
  BY <1>1, <1>2 DEF PageTypeOK
<1>4. ASSUME NEW s \in PageRun PROVE RunIsRight(s, run'[s], front', cancel', server')
  <2>1. RunIsRight(s, run[s], front, cancel, server) /\ run[s] \in RunRecord
    BY DEF PageTypeOK
  <2>2. cancel[s] = "none" <=> cancel'[s] = "none"
    BY <1>1
  <2>3. WaitIsRight(run[s], cancel')
    <3>1. \A u \in run[s].owed : u \in PageRun
      BY <2>1 DEF RunRecord
    <3> QED
      BY <1>1, <2>1, <3>1 DEF RunIsRight, WaitIsRight
  <2> QED
    BY <1>2, <2>1, <2>2, <2>3 DEF RunIsRight, TaskIsRight, JobIsSeen
<1>5. ChainIsWhole(cancel', chain')
  BY <1>1, <1>2 DEF ChainIsWhole
<1>6. \A s \in PageRun : begun' < s => run'[s] = NewRun /\ cancel'[s] = "none"
  BY <1>1, <1>2
<1> QED
  BY <1>2, <1>3, <1>4, <1>5, <1>6

(* Every step of the page and its runs keeps their invariant.              *)
LEMMA PageStep == ASSUME PageIInv, [PageNext]_pageVars PROVE PageIInv'
<1>1. CASE UNCHANGED pageVars
  BY <1>1 DEF pageVars, PageIInv, PageTypeOK
<1>2. CASE (\E kind \in {"search", "restore"} : Begin(kind)) \/ UserStops \/ PageHides
  BY <1>2, BeginStep, UserStopsStep, PageHidesStep
<1>3. ASSUME NEW r \in PageRun, Starts(r) \/ ServerAccepts(r) PROVE PageIInv'
  BY <1>3, ProceedStep, PostAnsweredStep, PostFailsStep, RestoreAnsweredStep, ServerAcceptsStep
     DEF Starts
<1>4. ASSUME NEW r \in PageRun, Follows(r) PROVE PageIInv'
  BY <1>4, PollAnsweredStep, PollLostStep DEF Follows
<1>5. ASSUME NEW r \in PageRun, CancelHeard(r) \/ CancelSettles(r) PROVE PageIInv'
  BY <1>5, CancelHeardStep, CancelSettlesStep
<1>6. ASSUME NEW j \in PageRun \cup {OtherTab}, ServerEnds(j) PROVE PageIInv'
  BY <1>6, ServerEndsStep
<1> QED
  BY <1>1, <1>2, <1>3, <1>4, <1>5, <1>6 DEF PageNext

(* Whatever is begun, stopped, lost and answered, a page keeps its runs,    *)
(* their cancellations and what it shows together (useSearch.ts).           *)
THEOREM PageIsCoherent == PageSpec => []PageIInv
<1>1. PageIInv /\ [PageNext]_pageVars => PageIInv'
  BY PageStep
<1> QED
  BY <1>1, PageInitOK, PTL DEF PageSpec

(* A stopped or replaced search is stopped in the server, the next waits    *)
(* for it, and a stopped sweep leaves no month (stopRun, jobStarter and     *)
(* runSearch of useSearch.ts, startMigrationSearch of api.ts).              *)
THEOREM StopsReach == PageSpec /\ MonthsSpec => []StopsReachTheServer
<1>1. ASSUME PageIInv, MonthsIInv PROVE StopsReachTheServer
  <2>1. NoJobForgotten
    BY <1>1 DEF PageIInv, RunIsRight, JobIsSeen, NoJobForgotten
  <2>2. CapacityFreedFirst
    BY <1>1 DEF PageIInv, RunIsRight, WaitIsRight, CapacityFreedFirst
  <2>3. StopReachesEveryMonth
    BY <1>1 DEF MonthsIInv, StopIsWhole, StopReachesEveryMonth
  <2> QED
    BY <2>1, <2>2, <2>3 DEF StopsReachTheServer
<1> QED
  BY <1>1, PageIsCoherent, MonthsAreCoherent, PTL

(* Only the run in front, or the clearing for it, changes what is shown.   *)
LEMMA ShownStep ==
  ASSUME PageIInv, [PageNext]_pageVars
  PROVE  [/\ onScreen'.run # onScreen.run => onScreen'.run \in {Nobody, front}
          /\ (onScreen'.run = onScreen.run /\ onScreen.final) => onScreen'.final]_pageVars
<1> USE DEF PageIInv
<1> DEFINE Goes == /\ onScreen'.run # onScreen.run => onScreen'.run \in {Nobody, front}
                   /\ (onScreen'.run = onScreen.run /\ onScreen.final) => onScreen'.final
<1>1. ASSUME onScreen' = onScreen PROVE Goes
  BY <1>1
<1>2. ASSUME NEW r \in PageRun, NEW ended \in BOOLEAN, front = r, Publish(r, ended) PROVE Goes
  BY <1>2 DEF Publish
<1>3. ASSUME NEW kind \in {"search", "restore"}, Begin(kind) PROVE Goes
  BY <1>3 DEF Begin, Nobody
<1>4. ASSUME UserStops PROVE Goes
  <2>1. onScreen \in [run : 0 .. begun, final : BOOLEAN]
    BY DEF PageTypeOK
  <2>2. onScreen'.run = onScreen.run /\ onScreen'.final = (onScreen.run # Nobody)
    BY <1>4, <2>1 DEF UserStops
  <2> QED
    BY <2>2
<1>5. ASSUME NEW r \in PageRun, Starts(r) \/ ServerAccepts(r) PROVE Goes
  <2>1. CASE Proceed(r) \/ PostFails(r) \/ ServerAccepts(r)
    BY <1>1, <2>1 DEF Proceed, PostFails, ServerAccepts
  <2>2. CASE PostAnswered(r)
    BY <1>1, <1>2, <2>2 DEF PostAnswered
  <2>3. CASE RestoreAnswered(r)
    <3>1. front = r
      BY <2>3 DEF RestoreAnswered, RunIsRight, TaskIsRight
    <3> QED
      BY <1>2, <2>3, <3>1 DEF RestoreAnswered
  <2> QED
    BY <1>5, <2>1, <2>2, <2>3 DEF Starts
<1>6. ASSUME NEW r \in PageRun, Follows(r) PROVE Goes
  <2>1. CASE PollAnswered(r)
    <3>1. front = r
      BY <2>1 DEF PollAnswered, RunIsRight, TaskIsRight
    <3> QED
      BY <1>2, <2>1, <3>1 DEF PollAnswered
  <2>2. CASE \E fatal \in BOOLEAN : PollLost(r, fatal)
    BY <1>1, <2>2 DEF PollLost
  <2> QED
    BY <1>6, <2>1, <2>2 DEF Follows
<1>7. ASSUME NEW r \in PageRun, CancelHeard(r) \/ CancelSettles(r) PROVE Goes
  BY <1>1, <1>7 DEF CancelHeard, CancelSettles
<1>8. ASSUME NEW j \in PageRun \cup {OtherTab}, ServerEnds(j) PROVE Goes
  BY <1>1, <1>8 DEF ServerEnds
<1>9. ASSUME PageHides PROVE Goes
  BY <1>1, <1>9 DEF PageHides
<1>10. ASSUME PageNext PROVE Goes
  <2> HIDE DEF Goes
  <2>1. CASE (\E kind \in {"search", "restore"} : Begin(kind)) \/ UserStops \/ PageHides
    BY <1>3, <1>4, <1>9, <2>1
  <2>2. CASE \E r \in PageRun : Starts(r) \/ ServerAccepts(r) \/ Follows(r) \/ CancelHeard(r) \/ CancelSettles(r)
    BY <1>5, <1>6, <1>7, <2>2
  <2>3. CASE \E j \in PageRun \cup {OtherTab} : ServerEnds(j)
    BY <1>8, <2>3
  <2> QED
    BY <1>10, <2>1, <2>2, <2>3 DEF PageNext
<1> QED
  BY <1>10

-----------------------------------------------------------------------------
(* A STATION FIELD                                                         *)

(* Who awaits suggestions; each of them took a number of its own.          *)
AskersAreRight ==
  /\ \A c \in asking : /\ c.seqNo \in Nat /\ c.seqNo <= seqNo
                       /\ c.for \in {"list", "place"} /\ c.text \in Typed
  /\ \A c, d \in asking : (c.seqNo = seqNo /\ d.seqNo = seqNo) => c = d
  /\ \A c \in asking : (c.for = "list" /\ c.seqNo = seqNo) => offered = Empty

(* The debounce is of the text, and nothing was asked since it was set.    *)
DueIsRight ==
  /\ due \in Typed \cup {Empty}
  /\ due # Empty => due = text /\ \A c \in asking : c.seqNo < seqNo

(* A list is there, or will be.                                            *)
ListMayShow ==
  offered # Empty \/ due # Empty \/ \E c \in asking : c.seqNo = seqNo /\ c.for = "list"

(* A pick is undisturbed, and a list may show over it only where its label *)
(* was the text already: the list of that label.                           *)
PickIsKept ==
  picked # NoPlace =>
    /\ picked \in Place /\ text = picked /\ place = picked /\ resolved = picked
    /\ offered \in {Empty, picked}
    /\ ListMayShow => spelled = TRUE

(* What is listed is of the text, or of one that is being resolved.        *)
ListIsOfText ==
  (offered # Empty /\ due = Empty) =>
    text = offered \/ \E c \in asking : c.for = "place" /\ StillAsked(c)

FieldIInv ==
  /\ seqNo \in Nat
  /\ text \in Typed \cup {Empty, resolved}
  /\ AskersAreRight /\ DueIsRight /\ PickIsKept /\ ListIsOfText

(* An untouched field is right.                                            *)
LEMMA FieldInitOK == FieldInit => FieldIInv
BY DEF FieldInit, FieldIInv, AskersAreRight, DueIsRight, PickIsKept, ListIsOfText

(* The user types, or the page fills the field: nothing asked before is    *)
(* wanted.                                                                 *)
LEMMA TypeStep ==
  ASSUME FieldIInv, (\E q \in Typed : Type(q)) \/ (\E q \in Typed \cup {Empty} : Prefill(q))
  PROVE  FieldIInv'
<1> USE DEF FieldIInv
<1>1. PICK q \in Typed \cup {Empty} :
        /\ seqNo' = seqNo + 1 /\ text' = q /\ picked' = NoPlace
        /\ (due' = Empty /\ offered' = Empty) \/ (due' = q /\ q # Empty /\ q \in Typed)
        /\ UNCHANGED <<resolved, asking, kept>>
  <2>1. CASE \E q \in Typed : Type(q)
    BY <2>1, StationAssumption DEF Type, TextGiven
  <2>2. ASSUME NEW q \in Typed \cup {Empty}, Prefill(q)
        PROVE  /\ seqNo' = seqNo + 1 /\ text' = q /\ picked' = NoPlace
               /\ (due' = Empty /\ offered' = Empty) \/ (due' = q /\ q # Empty /\ q \in Typed)
               /\ UNCHANGED <<resolved, asking, kept>>
    <3>1. due' = Undone(q) /\ (Undone(q) = Empty \/ (q = text /\ Undone(q) = due /\ due # Empty))
      BY <2>2 DEF Prefill, Undone
    <3> QED
      BY <2>2, <3>1 DEF Prefill, TextGiven, DueIsRight
  <2> QED
    BY <2>1, <2>2
<1>2. \A c \in asking' : c.seqNo < seqNo'
  BY <1>1 DEF AskersAreRight
<1>3. AskersAreRight'
  BY <1>1, <1>2 DEF AskersAreRight
<1>4. DueIsRight' /\ PickIsKept' /\ ListIsOfText'
  BY <1>1, <1>2 DEF DueIsRight, PickIsKept, ListIsOfText
<1> QED
  BY <1>1, <1>3, <1>4

(* The pause after typing ends, with a kept list or a new request.         *)
LEMMA WarmStep == ASSUME FieldIInv, Warm PROVE FieldIInv'
<1> USE DEF FieldIInv
<1> DEFINE ready == due \in kept /\ Matches[due] # {}
           c == [for |-> "list", text |-> due, seqNo |-> seqNo + 1]
<1>1. /\ due # Empty /\ due = text /\ due \in Typed
      /\ seqNo' = seqNo + 1 /\ due' = Empty /\ UNCHANGED <<text, resolved, place, kept, picked, spelled>>
      /\ offered' = IF ready THEN due ELSE Empty
      /\ asking' = IF ready THEN asking ELSE asking \cup {c}
  BY DEF Warm, DueIsRight
<1>2. c.for = "list" /\ c.text = due /\ c.seqNo = seqNo + 1
  OBVIOUS
<1> HIDE DEF c, ready
<1>3. \A d \in asking : d.seqNo < seqNo'
  BY <1>1 DEF AskersAreRight
<1>4. AskersAreRight'
  BY <1>1, <1>2, <1>3 DEF AskersAreRight
<1>5. PickIsKept'
  BY <1>1 DEF PickIsKept, ListMayShow
<1>6. DueIsRight' /\ ListIsOfText'
  BY <1>1 DEF DueIsRight, ListIsOfText
<1> QED
  BY <1>1, <1>4, <1>5, <1>6

(* The user picks a station of the list.                                   *)
LEMMA PickStep == ASSUME FieldIInv, NEW p \in Place, Pick(p) PROVE FieldIInv'
<1> USE DEF FieldIInv
<1>1. /\ offered # Empty /\ offered' = Empty /\ picked' = p
      /\ due' = Empty \/ (due' = due /\ p = text /\ spelled' = TRUE)
      /\ resolved' = p /\ text' = p /\ place' = p /\ UNCHANGED <<asking, seqNo, kept>>
  BY DEF Pick, FieldResolves, Undone
<1>2. \A c \in asking : c.seqNo = seqNo => c.for = "place"
  BY <1>1 DEF AskersAreRight
<1>3. AskersAreRight' /\ DueIsRight' /\ ListIsOfText'
  BY <1>1 DEF AskersAreRight, DueIsRight, ListIsOfText
<1>4. PickIsKept'
  BY <1>1, <1>2 DEF PickIsKept, ListMayShow
<1> QED
  BY <1>1, <1>3, <1>4

(* The user leaves the field, which resolves its text.                     *)
LEMMA LeaveStep == ASSUME FieldIInv, Leave PROVE FieldIInv'
<1> USE DEF FieldIInv
<1>1. seqNo' = seqNo + 1 /\ due' = Empty /\ UNCHANGED <<kept, picked, spelled>>
  BY DEF Leave
<1>2. \A c \in asking : c.seqNo < seqNo'
  BY <1>1 DEF AskersAreRight
<1>3. CASE text \in {Empty, resolved}
  BY <1>1, <1>2, <1>3 DEF Leave, AskersAreRight, DueIsRight, PickIsKept, ListMayShow, ListIsOfText
<1>4. CASE text \notin {Empty, resolved} /\ text \in kept /\ Exact[text] # NoPlace
  BY <1>1, <1>2, <1>4 DEF Leave, FieldResolves, AskersAreRight, DueIsRight, PickIsKept, ListMayShow, ListIsOfText
<1>5. CASE text \notin {Empty, resolved} /\ ~(text \in kept /\ Exact[text] # NoPlace)
  <2> DEFINE c == [for |-> "place", text |-> text, seqNo |-> seqNo + 1]
  <2>1. asking' = asking \cup {c} /\ UNCHANGED <<text, resolved, place, offered>>
    BY <1>5 DEF Leave
  <2>2. c.for = "place" /\ c.text = text /\ c.seqNo = seqNo + 1 /\ text \in Typed /\ picked = NoPlace
    BY <1>5 DEF PickIsKept
  <2> HIDE DEF c
  <2>3. AskersAreRight'
    BY <1>1, <1>2, <2>1, <2>2 DEF AskersAreRight
  <2>4. ListIsOfText'
    BY <1>1, <2>1, <2>2 DEF ListIsOfText, StillAsked
  <2>5. DueIsRight' /\ PickIsKept'
    BY <1>1, <2>2 DEF DueIsRight, PickIsKept
  <2> QED
    BY <1>1, <2>1, <2>3, <2>4, <2>5
<1> QED
  BY <1>3, <1>4, <1>5

(* A list arrives, wanted or too late.                                     *)
LEMMA SuggestionsComeStep ==
  ASSUME FieldIInv, NEW c \in asking, NEW ok \in BOOLEAN, SuggestionsCome(c, ok)
  PROVE  FieldIInv'
<1> USE DEF FieldIInv
<1>1. asking' = asking \ {c} /\ UNCHANGED <<due, seqNo, picked, spelled>>
  BY DEF SuggestionsCome
<1>2. /\ c.text \in Typed /\ c.seqNo \in Nat
      /\ c.seqNo = seqNo => due = Empty /\ \A d \in asking' : d.seqNo # seqNo
  BY <1>1 DEF AskersAreRight, DueIsRight
<1>3. CASE ListAnswered(c, ok) /\ c.seqNo = seqNo
  <2>1. UNCHANGED <<text, resolved, place>> /\ offered' \in {Empty, text} /\ c.for = "list"
    BY <1>3 DEF ListAnswered, StillAsked, AskersAreRight
  <2>2. PickIsKept'
    BY <1>1, <1>3, <2>1 DEF PickIsKept, ListMayShow
  <2> QED
    BY <1>1, <1>2, <1>3, <2>1, <2>2 DEF AskersAreRight, DueIsRight, ListIsOfText
<1>4. CASE (ListAnswered(c, ok) /\ c.seqNo # seqNo) \/ (PlaceAnswered(c, ok) /\ ~StillAsked(c))
  <2>1. UNCHANGED <<text, resolved, place, offered>> /\ ~StillAsked(c)
    BY <1>4 DEF ListAnswered, PlaceAnswered, StillAsked
  <2>2. ListIsOfText'
    BY <1>1, <2>1 DEF ListIsOfText, StillAsked
  <2>3. PickIsKept'
    BY <1>1, <2>1 DEF PickIsKept, ListMayShow
  <2> QED
    BY <1>1, <2>1, <2>2, <2>3 DEF AskersAreRight, DueIsRight
<1>5. CASE PlaceAnswered(c, ok) /\ StillAsked(c)
  <2>1. c.seqNo = seqNo /\ c.text = text /\ offered' = Empty
    BY <1>5 DEF PlaceAnswered, StillAsked, FieldResolves
  <2>2. \/ UNCHANGED <<text, resolved, place>>
        \/ Exact[text] # NoPlace /\ resolved' = Exact[text] /\ text' = Exact[text] /\ place' = Exact[text]
    BY <1>5, <2>1 DEF PlaceAnswered, FieldResolves
  <2>3. PickIsKept'
    <3>1. (picked # NoPlace /\ Exact[text] # NoPlace) => Exact[text] = picked
      BY <1>2, <2>1, StationAssumption DEF PickIsKept
    <3> QED
      BY <1>1, <2>1, <2>2, <3>1 DEF PickIsKept, ListMayShow
  <2>4. AskersAreRight' /\ DueIsRight' /\ ListIsOfText' /\ text' \in Typed \cup {Empty, resolved'}
    BY <1>1, <1>2, <2>1, <2>2 DEF AskersAreRight, DueIsRight, ListIsOfText
  <2> QED
    BY <1>1, <2>3, <2>4
<1> QED
  BY <1>3, <1>4, <1>5 DEF SuggestionsCome

(* Every step of a station field keeps its invariant.                      *)
LEMMA FieldStep == ASSUME FieldIInv, [FieldNext]_fieldVars PROVE FieldIInv'
<1>1. CASE UNCHANGED fieldVars
  BY <1>1 DEF fieldVars, FieldIInv, AskersAreRight, DueIsRight, PickIsKept, ListMayShow, ListIsOfText, StillAsked
<1>2. CASE FieldNext
  BY <1>2, TypeStep, WarmStep, PickStep, LeaveStep, SuggestionsComeStep DEF FieldNext
<1> QED
  BY <1>1, <1>2

(* A pick stays until the field is given a text, with nothing listed over   *)
(* it but the matches of a label that was the text before it was picked,    *)
(* and an answer that is no longer asked for changes nothing, whatever was  *)
(* typed, picked or left meanwhile (useAutocomplete.ts).                    *)
THEOREM FieldKeepsItsPick == FieldSpec => []LateAnswersAreIgnored
<1>1. FieldIInv /\ [FieldNext]_fieldVars => FieldIInv'
  BY FieldStep
<1>2. FieldIInv => LateAnswersAreIgnored
  BY DEF FieldIInv, PickIsKept, ListMayShow, ListIsOfText, LateAnswersAreIgnored
<1> QED
  BY <1>1, <1>2, FieldInitOK, PTL DEF FieldSpec

(* Answers of searches change nothing a page shows once they were replaced, *)
(* and a final list stays final (isCurrent of useSearch.ts).                *)
THEOREM LateIsNotShown == PageSpec => ShownNeverGoesBack
<1>1. PageIInv /\ [PageNext]_pageVars =>
        [/\ onScreen'.run # onScreen.run => onScreen'.run \in {Nobody, front}
         /\ (onScreen'.run = onScreen.run /\ onScreen.final) => onScreen'.final]_pageVars
  BY ShownStep
<1> QED
  BY <1>1, PageIsCoherent, PTL DEF PageSpec, ShownNeverGoesBack

-----------------------------------------------------------------------------
(* LISTS PUT TOGETHER                                                      *)

(* A set of numbers that is not empty has a smallest one.                  *)
LEMMA SmallestOf ==
  ASSUME NEW S \in SUBSET Nat, S # {}
  PROVE  \E m \in S : \A n \in S : m <= n
<1> DEFINE Less == OpToRel(<, Nat)
<1>1. \A x, y \in Nat : x < y => <<x, y>> \in Less
  BY DEF OpToRel
<1>2. IsWellFoundedOn(Less, Nat)
  BY NatLessThanWellFounded
<1> HIDE DEF Less
<1>3. PICK m \in S : \A n \in S : ~(<<n, m>> \in Less)
  BY <1>2, WFMin, Zenon
<1>4. \A n \in S : ~(n < m)
  BY <1>1, <1>3
<1>5. \A n \in S : m <= n
  BY <1>4
<1> QED
  BY <1>5

(* What holds of 0, and of n + 1 below a limit if of n, holds up to it.    *)
LEMMA UpTo ==
  ASSUME NEW N \in Nat, NEW P, 0 \in P, \A n \in Nat : n < N /\ n \in P => n + 1 \in P
  PROVE  \A n \in 0..N : n \in P
<1> DEFINE missing == {n \in 0..N : n \notin P}
<1> SUFFICES ASSUME missing # {} PROVE FALSE
  OBVIOUS
<1>1. missing \in SUBSET Nat
  OBVIOUS
<1>2. \E m \in missing : \A n \in missing : m <= n
  <2> HIDE DEF missing
  <2> QED
    BY <1>1, SmallestOf
<1>3. PICK m \in missing : \A n \in missing : m <= n
  BY <1>2
<1>4. m # 0 /\ m - 1 \in Nat /\ m - 1 < N /\ m - 1 \notin missing
  BY <1>3
<1>5. m - 1 \in P
  BY <1>4
<1>6. (m - 1) + 1 \in P
  BY <1>4, <1>5
<1> QED
  BY <1>3, <1>4, <1>6

(* One list after another.                                                 *)
LEMMA JoinedHolds ==
  ASSUME NEW S, NEW p \in Seq(S), NEW q \in Seq(S)
  PROVE  /\ p \o q \in Seq(S)
         /\ ToSet(p \o q) = ToSet(p) \union ToSet(q)
         /\ IsInjective(p) /\ IsInjective(q) /\ ToSet(p) \intersect ToSet(q) = {} => IsInjective(p \o q)
<1> DEFINE m == Len(p)  n == Len(q)
<1>1. m \in Nat /\ n \in Nat /\ DOMAIN p = 1..m /\ DOMAIN q = 1..n
  OBVIOUS
<1>2. /\ p \o q \in Seq(S) /\ DOMAIN (p \o q) = 1..(m + n)
      /\ \A i \in 1..(m + n) : (p \o q)[i] = IF i <= m THEN p[i] ELSE q[i - m]
  OBVIOUS
<1> HIDE DEF m, n
<1>3. \A i \in 1..(m + n) : i \in 1..m \/ (~(i <= m) /\ i - m \in 1..n /\ i = (i - m) + m)
  BY <1>1
<1>4. \A j \in 1..n : j + m \in 1..(m + n) /\ ~(j + m <= m) /\ (j + m) - m = j
  BY <1>1
<1>5. \A i \in 1..m : i \in 1..(m + n) /\ i <= m
  BY <1>1
<1> DEFINE r == p \o q
<1>6. /\ DOMAIN r = 1..(m + n) /\ \A i \in 1..m : r[i] = p[i]
      /\ \A j \in 1..n : r[j + m] = q[j]
  BY <1>2, <1>4, <1>5
<1> HIDE DEF r
<1>7. ToSet(r) = ToSet(p) \union ToSet(q)
  <2>1. /\ ToSet(r) = {r[i] : i \in 1..(m + n)}
        /\ ToSet(p) = {p[i] : i \in 1..m} /\ ToSet(q) = {q[i] : i \in 1..n}
    BY <1>1, <1>6 DEF ToSet
  <2>2. \A i \in 1..(m + n) : r[i] \in ToSet(p) \union ToSet(q)
    <3> SUFFICES ASSUME NEW i \in 1..(m + n) PROVE r[i] \in ToSet(p) \union ToSet(q)
      OBVIOUS
    <3>1. CASE i \in 1..m
      BY <1>6, <2>1, <3>1
    <3>2. CASE i - m \in 1..n /\ i = (i - m) + m
      <4>1. r[i] = q[i - m]
        BY <1>6, <3>2
      <4> QED
        BY <2>1, <3>2, <4>1
    <3> QED
      BY <1>3, <3>1, <3>2
  <2>3. \A i \in 1..m : p[i] \in ToSet(r)
    BY <1>5, <1>6, <2>1
  <2>4. \A j \in 1..n : q[j] \in ToSet(r)
    BY <1>4, <1>6, <2>1
  <2> QED
    BY <2>1, <2>2, <2>3, <2>4
<1>8. ASSUME IsInjective(p), IsInjective(q), ToSet(p) \intersect ToSet(q) = {} PROVE IsInjective(r)
  <2> SUFFICES ASSUME NEW i \in 1..(m + n), NEW j \in 1..(m + n), r[i] = r[j] PROVE i = j
    BY <1>6 DEF IsInjective
  <2>1. CASE i \in 1..m /\ j \in 1..m
    BY <1>1, <1>6, <1>8, <2>1 DEF IsInjective
  <2>2. CASE i - m \in 1..n /\ j - m \in 1..n /\ i = (i - m) + m /\ j = (j - m) + m
    <3>1. r[i] = q[i - m] /\ r[j] = q[j - m]
      BY <1>6, <2>2
    <3>2. i - m = j - m
      BY <1>1, <1>8, <2>2, <3>1 DEF IsInjective
    <3> QED
      BY <2>2, <3>2
  <2>3. \A a \in 1..m, b \in 1..n : p[a] # q[b]
    BY <1>1, <1>8 DEF ToSet
  <2>4. CASE i \in 1..m /\ j - m \in 1..n /\ j = (j - m) + m
    <3>1. r[i] = p[i] /\ r[j] = q[j - m]
      BY <1>6, <2>4
    <3> QED
      BY <2>3, <2>4, <3>1
  <2>5. CASE j \in 1..m /\ i - m \in 1..n /\ i = (i - m) + m
    <3>1. r[j] = p[j] /\ r[i] = q[i - m]
      BY <1>6, <2>5
    <3> QED
      BY <2>3, <2>5, <3>1
  <2> QED
    BY <1>3, <2>1, <2>2, <2>4, <2>5
<1> QED
  BY <1>2, <1>7, <1>8 DEF r

(* Lists one after the other have the elements of all, each once if each   *)
(* has it once and no two have the same.                                   *)
LEMMA FlattenHolds ==
  ASSUME NEW S, NEW ss \in Seq(Seq(S))
  PROVE  /\ FlattenSeq(ss) \in Seq(S)
         /\ \A x : x \in ToSet(FlattenSeq(ss)) <=> \E i \in 1..Len(ss) : x \in ToSet(ss[i])
         /\ /\ \A i \in 1..Len(ss) : IsInjective(ss[i])
            /\ \A i, j \in 1..Len(ss) : i # j => ToSet(ss[i]) \intersect ToSet(ss[j]) = {}
            => IsInjective(FlattenSeq(ss))
<1> DEFINE N == Len(ss)
           More(g, i) == IF i = 1 THEN ss[i] ELSE g[i - 1] \o ss[i]
           IsFlat(g, m) == g = [i \in 1..m |-> More(g, i)]
           flatten[i \in 1..N] == IF i = 1 THEN ss[i] ELSE flatten[i - 1] \o ss[i]
           Ready == {m \in Nat : \E g : IsFlat(g, m)}
<1>1. N \in Nat /\ \A i \in 1..N : ss[i] \in Seq(S)
  OBVIOUS
<1>2. \A m \in 0..N : m \in Ready
  <2>1. 0 \in Ready
    <3>1. IsFlat([i \in 1..0 |-> <<>>], 0)
      OBVIOUS
    <3> QED
      BY <3>1
  <2>2. ASSUME NEW m \in Nat, m < N, m \in Ready PROVE m + 1 \in Ready
    <3>1. PICK g : IsFlat(g, m)
      BY <2>2
    <3> DEFINE h == [i \in 1..(m + 1) |-> IF i = m + 1 THEN More(g, m + 1) ELSE g[i]]
    <3>3. \A i \in 1..m : h[i] = g[i]
      OBVIOUS
    <3>2. \A i \in 1..m : h[i] = More(g, i)
      <4> HIDE DEF h, More
      <4>1. \A i \in 1..m : g[i] = More(g, i)
        BY <3>1
      <4> QED
        BY <3>3, <4>1
    <3>4. h[m + 1] = More(g, m + 1)
      OBVIOUS
    <3>5. \A i \in 1..(m + 1) : i = 1 \/ i - 1 \in 1..m
      OBVIOUS
    <3>6. \A i \in 1..(m + 1) : More(g, i) = More(h, i)
      BY <3>3, <3>5
    <3>7. \A i \in 1..(m + 1) : i \in 1..m \/ i = m + 1
      OBVIOUS
    <3>8. DOMAIN h = 1..(m + 1) /\ h = [i \in 1..(m + 1) |-> h[i]]
      OBVIOUS
    <3> HIDE DEF h, More
    <3>9. \A i \in 1..(m + 1) : h[i] = More(h, i)
      BY <3>2, <3>4, <3>6, <3>7
    <3>10. IsFlat(h, m + 1)
      BY <3>8, <3>9
    <3> HIDE DEF IsFlat
    <3> QED
      BY <3>10
  <2> HIDE DEF Ready
  <2> QED
    BY <1>1, <2>1, <2>2, UpTo
<1>3. \E g : IsFlat(g, N)
  <2>1. N \in Ready
    <3> HIDE DEF Ready
    <3> QED
      BY <1>1, <1>2
  <2> QED
    BY <2>1
<1>4. flatten = CHOOSE g : IsFlat(g, N)
  BY DEF flatten
<1>5. N # 0 => FlattenSeq(ss) = flatten[N]
  BY DEF FlattenSeq
<1> HIDE DEF flatten
<1>6. IsFlat(flatten, N)
  BY <1>3, <1>4
<1>7. /\ N # 0 => flatten[1] = ss[1]
      /\ \A n \in Nat : n # 0 /\ n < N => flatten[n + 1] = flatten[n] \o ss[n + 1]
  <2>1. \A i \in 1..N : flatten[i] = More(flatten, i)
    <3> HIDE DEF More
    <3> QED
      BY <1>6
  <2>2. \A n \in Nat : n # 0 /\ n < N => n + 1 \in 1..N /\ n + 1 # 1 /\ (n + 1) - 1 = n
    BY <1>1
  <2>3. N # 0 => 1 \in 1..N
    BY <1>1
  <2> QED
    BY <2>1, <2>2, <2>3
<1> DEFINE Has(n, x) == \E i \in 1..n : x \in ToSet(ss[i])
           Apart(n) == /\ \A i \in 1..n : IsInjective(ss[i])
                       /\ \A i, j \in 1..n : i # j => ToSet(ss[i]) \intersect ToSet(ss[j]) = {}
           IsRight(n) == /\ flatten[n] \in Seq(S)
                         /\ \A x : x \in ToSet(flatten[n]) <=> Has(n, x)
                         /\ Apart(n) => IsInjective(flatten[n])
           Right == {n \in Nat : n = 0 \/ IsRight(n)}
<1>8. ASSUME NEW n \in Nat, n < N, n \in Right PROVE n + 1 \in Right
  <2>1. n + 1 \in 1..N /\ ss[n + 1] \in Seq(S)
    BY <1>1, <1>8
  <2>2. CASE n = 0
    <3>1. flatten[1] = ss[1] /\ 1..1 = {1} /\ ss[1] \in Seq(S)
      BY <1>1, <1>7, <1>8, <2>1, <2>2
    <3>2. IsRight(1)
      BY <3>1
    <3> HIDE DEF IsRight
    <3> QED
      BY <2>2, <3>2
  <2>3. CASE n # 0
    <3>1. IsRight(n) /\ flatten[n + 1] = flatten[n] \o ss[n + 1]
      BY <1>7, <1>8, <2>3
    <3>2. \A x : Has(n + 1, x) <=> Has(n, x) \/ x \in ToSet(ss[n + 1])
      <4>1. \A i \in 1..(n + 1) : i \in 1..n \/ i = n + 1
        OBVIOUS
      <4>2. n + 1 \in 1..(n + 1) /\ 1..n \subseteq 1..(n + 1)
        OBVIOUS
      <4> QED
        BY <4>1, <4>2
    <3>3. flatten[n + 1] \in Seq(S) /\ ToSet(flatten[n + 1]) = ToSet(flatten[n]) \union ToSet(ss[n + 1])
      BY <2>1, <3>1, JoinedHolds
    <3>4. ASSUME Apart(n + 1) PROVE IsInjective(flatten[n + 1])
      <4>1. n + 1 \in 1..(n + 1) /\ 1..n \subseteq 1..(n + 1) /\ n + 1 \notin 1..n
        OBVIOUS
      <4>2. Apart(n) /\ IsInjective(ss[n + 1])
        BY <3>4, <4>1
      <4>3. ToSet(flatten[n]) \intersect ToSet(ss[n + 1]) = {}
        BY <3>1, <3>4, <4>1
      <4>4. IsInjective(flatten[n])
        BY <3>1, <4>2
      <4> HIDE DEF Apart
      <4> QED
        BY <2>1, <3>1, <4>2, <4>3, <4>4, JoinedHolds
    <3>5. \A x : x \in ToSet(flatten[n + 1]) <=> Has(n + 1, x)
      <4> HIDE DEF Has, Apart
      <4> QED
        BY <3>1, <3>2, <3>3
    <3> HIDE DEF Has, Apart
    <3>6. IsRight(n + 1)
      BY <3>3, <3>4, <3>5
    <3> HIDE DEF IsRight
    <3> QED
      BY <3>6
  <2> QED
    BY <2>2, <2>3
<1>9. N \in Right
  <2>1. 0 \in Right
    OBVIOUS
  <2> HIDE DEF Right
  <2>2. \A n \in 0..N : n \in Right
    BY <1>1, <1>8, <2>1, UpTo
  <2> QED
    BY <1>1, <2>2
<1>10. CASE N = 0
  <2>1. FlattenSeq(ss) = <<>> /\ ss = <<>> /\ 1..0 = {}
    BY <1>10 DEF FlattenSeq
  <2> QED
    BY <1>10, <2>1 DEF ToSet, IsInjective
<1>11. CASE N # 0
  BY <1>5, <1>9, <1>11
<1> QED
  BY <1>10, <1>11

(* The elements of a finite set that are ordered, one ahead of the other,  *)
(* have each a spot of their own, and every spot is taken.               *)
LEMMA PlacesAreTaken ==
  ASSUME NEW S, IsFiniteSet(S), NEW ahead \in [S -> SUBSET S],
         \A s \in S : s \notin ahead[s],
         \A s, t \in S : s # t => s \in ahead[t] \/ t \in ahead[s],
         \A s, t \in S : s \in ahead[t] => ahead[s] \subseteq ahead[t]
  PROVE  /\ \A s, t \in S : Cardinality(ahead[s]) = Cardinality(ahead[t]) => s = t
         /\ \A k \in 0..(Cardinality(S) - 1) : \E s \in S : Cardinality(ahead[s]) = k
<1> DEFINE N == Cardinality(S)
           spot == [s \in S |-> Cardinality(ahead[s])]
<1>1. N \in Nat /\ \A s \in S : IsFiniteSet(ahead[s]) /\ Cardinality(ahead[s]) \in Nat
  BY FS_Subset, FS_CardinalityType
<1>2. ASSUME NEW s \in S, NEW t \in S, s \in ahead[t] PROVE Cardinality(ahead[s]) < Cardinality(ahead[t])
  <2>1. s \notin ahead[s] /\ ahead[s] \union {s} \subseteq ahead[t]
    BY <1>2
  <2>2. Cardinality(ahead[s] \union {s}) = Cardinality(ahead[s]) + 1
    BY <1>1, <2>1, FS_AddElement
  <2>3. Cardinality(ahead[s] \union {s}) <= Cardinality(ahead[t])
    BY <1>1, <2>1, FS_Subset
  <2> QED
    BY <1>1, <2>2, <2>3
<1>3. \A s, t \in S : Cardinality(ahead[s]) = Cardinality(ahead[t]) => s = t
  BY <1>1, <1>2
<1>4. \A s \in S : Cardinality(ahead[s]) \in 0..(N - 1)
  <2> SUFFICES ASSUME NEW s \in S PROVE Cardinality(ahead[s]) \in 0..(N - 1)
    OBVIOUS
  <2>1. ahead[s] \in SUBSET S /\ ahead[s] # S
    OBVIOUS
  <2>2. Cardinality(ahead[s]) <= N /\ Cardinality(ahead[s]) # N
    BY <2>1, FS_Subset
  <2> QED
    BY <1>1, <2>2
<1>5. IsFiniteSet(0..(N - 1)) /\ Cardinality(0..(N - 1)) = N
  BY <1>1, FS_Interval
<1>6. spot \in Injection(S, 0..(N - 1))
  BY <1>3, <1>4 DEF Injection, IsInjective
<1>7. spot \in Surjection(S, 0..(N - 1))
  <2> HIDE DEF spot
  <2> QED
    BY <1>5, <1>6, FS_Injection
<1> QED
  BY <1>3, <1>7 DEF Surjection

(* A list in which nothing comes twice is as long as it has elements.      *)
LEMMA NothingTwice ==
  ASSUME NEW S, NEW s \in Seq(S), IsInjective(s)
  PROVE  Cardinality(ToSet(s)) = Len(s)
<1> DEFINE n == Len(s)
<1>1. n \in Nat /\ DOMAIN s = 1..n /\ ToSet(s) = {s[i] : i \in 1..n}
  BY DEF ToSet
<1>2. IsFiniteSet(1..n) /\ Cardinality(1..n) = n
  <2>1. n \in Int /\ 1 \in Int
    BY <1>1
  <2> QED
    BY <1>1, <2>1, FS_Interval
<1> HIDE DEF n
<1>3. s \in [1..n -> ToSet(s)] /\ s \in Surjection(1..n, ToSet(s)) /\ s \in Injection(1..n, ToSet(s))
  <2>1. s \in [1..n -> ToSet(s)]
    <3>1. s = [i \in 1..n |-> s[i]]
      BY <1>1
    <3> QED
      BY <1>1, <3>1
  <2>2. \A x \in ToSet(s) : \E i \in 1..n : s[i] = x
    BY <1>1
  <2> QED
    BY <1>1, <2>1, <2>2 DEF Surjection, Injection, IsInjective
<1>4. Cardinality(ToSet(s)) = Cardinality(1..n)
  BY <1>2, <1>3, FS_Surjection
<1> QED
  BY <1>2, <1>4 DEF n

-----------------------------------------------------------------------------
(* WHAT THE LIST SHOWS                                                     *)

(* The offers of one provider and one day, and those of any.               *)
OfferRecord ==
  [from : Provider, paths : SUBSET Provider, group : Nat \X Nat, day : Int, out : Int, in : Int,
   price : Int, bags : Int, seats : Int, minutes : Int, truncated : BOOLEAN]
OffersOf(p, day) == {o \in OfferRecord : o.paths = {p} /\ o.day = day}
AnswerRecord == [part : Nat, day : Nat, fares : Seq(Fare)]

(* The least of some numbers is one of them, and no other is less.         *)
LEMMA LeastIs == ASSUME NEW S \in SUBSET Nat, S # {} PROVE Least(S) \in S /\ \A n \in S : Least(S) <= n
BY SmallestOf DEF Least

(* The pairs of schedules of a fare are pairs of numbers.                  *)
LEMMA SchedulesFit ==
  ASSUME NEW fare \in Fare
  PROVE  SchedulePairs(fare) \in Seq(Nat \X Nat)
<1> DEFINE pairs == [o \in DOMAIN fare.outs |-> [i \in DOMAIN fare.ins |-> <<fare.outs[o], fare.ins[i]>>]]
<1>1. fare.outs \in Seq(Nat) /\ fare.ins \in Seq(Nat) /\ VariantLimit \in Nat
  BY OffersAssumption
<1>2. pairs \in Seq(Seq(Nat \X Nat))
  <2> DEFINE row(o) == [i \in DOMAIN fare.ins |-> <<fare.outs[o], fare.ins[i]>>]
  <2>1. ASSUME NEW o \in DOMAIN fare.outs PROVE row(o) \in Seq(Nat \X Nat)
    <3>1. fare.outs[o] \in Nat /\ DOMAIN fare.ins = 1..Len(fare.ins) /\ Len(fare.ins) \in Nat
          /\ \A i \in DOMAIN fare.ins : fare.ins[i] \in Nat
      BY <1>1
    <3>2. row(o) \in [1..Len(fare.ins) -> Nat \X Nat]
      BY <3>1
    <3> HIDE DEF row
    <3> QED
      BY <3>1, <3>2
  <2>2. pairs = [o \in DOMAIN fare.outs |-> row(o)]
    OBVIOUS
  <2> HIDE DEF row, pairs
  <2>3. DOMAIN fare.outs = 1..Len(fare.outs) /\ Len(fare.outs) \in Nat
    BY <1>1
  <2> QED
    BY <2>1, <2>2, <2>3
<1>3. AllPairs(fare) \in Seq(Nat \X Nat)
  <2> HIDE DEF pairs
  <2>1. FlattenSeq(pairs) \in Seq(Nat \X Nat)
    BY <1>2, FlattenHolds
  <2> QED
    BY <2>1 DEF AllPairs, pairs
<1>4. Least({VariantLimit, Len(AllPairs(fare))}) \in Nat /\ Least({VariantLimit, Len(AllPairs(fare))}) <= Len(AllPairs(fare))
  <2>1. {VariantLimit, Len(AllPairs(fare))} \in SUBSET Nat
    BY <1>1, <1>3
  <2> QED
    BY <1>1, <1>3, <2>1, LeastIs
<1> DEFINE all == AllPairs(fare)
           cut == Least({VariantLimit, Len(all)})
<1>5. SchedulePairs(fare) = SubSeq(all, 1, cut)
  BY DEF SchedulePairs
<1> HIDE DEF pairs, all, cut
<1>6. all \in Seq(Nat \X Nat) /\ cut \in Nat /\ cut <= Len(all)
  BY <1>3, <1>4 DEF all, cut
<1> QED
  BY <1>5, <1>6

(* What a fare's bags come to is a number.                                 *)
LEMMA BagsFit ==
  ASSUME NEW fare \in Fare
  PROVE  AgilBags(fare) \in Int /\ CostamarBags(fare) \in Int
<1> DEFINE known == Known({fare.outBags, fare.inBags})
<1>1. {fare.outBags, fare.inBags} \subseteq Nat \union {Unknown}
  BY OffersAssumption
<1>2. known \in SUBSET Nat
  BY <1>1 DEF Known
<1>3. Unknown \in Int
  BY DEF Unknown
<1>4. known # {} => Most(known) \in known
  <2> SUFFICES ASSUME known # {} PROVE \E n \in known : \A m \in known : m <= n
    BY DEF Most
  <2>1. known \subseteq {fare.outBags, fare.inBags}
    BY DEF Known
  <2> QED
    BY <1>2, <2>1
<1>5. known # {} => Least(known) \in known
  <2> HIDE DEF known
  <2> QED
    BY <1>2, LeastIs
<1> QED
  BY <1>2, <1>3, <1>4, <1>5 DEF AgilBags, CostamarBags

(* What an answer becomes is of its provider and its day.                  *)
LEMMA OfferFits ==
  ASSUME NEW p \in Provider, NEW answer \in AnswerRecord, NEW n \in DOMAIN answer.fares,
         NEW pair \in Nat \X Nat, NEW price \in Int, NEW bags \in Int
  PROVE  Offer(p, answer, n, pair, price, bags) \in OffersOf(p, answer.day)
<1>1. answer.fares \in Seq(Fare) /\ answer.part \in Nat /\ answer.day \in Int /\ n \in Nat
  BY DEF AnswerRecord
<1>2. answer.fares[n] \in Fare
  BY <1>1
<1>3. answer.fares[n].seats \in Int /\ answer.fares[n].minutes \in Int /\ Truncated(answer.fares[n]) \in BOOLEAN
  BY <1>2, OffersAssumption DEF Truncated
<1>4. <<answer.part, n>> \in Nat \X Nat /\ pair[1] \in Int /\ pair[2] \in Int
  BY <1>1
<1> HIDE DEF Truncated
<1>5. Offer(p, answer, n, pair, price, bags) \in OfferRecord
  BY <1>1, <1>3, <1>4 DEF Offer, OfferRecord
<1> QED
  BY <1>5 DEF Offer, OffersOf

(* The offers of an answer are of its provider and its day.                *)
LEMMA MappedFits ==
  ASSUME NEW p \in Provider, NEW answer \in AnswerRecord
  PROVE  Mapped(p, answer) \in Seq(OffersOf(p, answer.day))
<1> DEFINE of(n) == IF p = "agil-local" THEN MapGroup(answer, n) ELSE MapRecommendation(answer, n)
           ss == [n \in DOMAIN answer.fares |-> of(n)]
           S == OffersOf(p, answer.day)
<1>1. answer.fares \in Seq(Fare)
  BY DEF AnswerRecord
<1>2. ASSUME NEW n \in DOMAIN answer.fares PROVE of(n) \in Seq(S)
  <2> DEFINE fare == answer.fares[n]  pairs == SchedulePairs(fare)
  <2>1. fare \in Fare
    BY <1>1
  <2>2. pairs \in Seq(Nat \X Nat) /\ AgilBags(fare) \in Int /\ CostamarBags(fare) \in Int
    BY <2>1, SchedulesFit, BagsFit
  <2>3. AgilTotal(fare) \in Int /\ CostamarTotal(fare) \in Int
    BY <2>1, OffersAssumption DEF AgilTotal, CostamarTotal
  <2>4. <<>> \in Seq(S)
    OBVIOUS
  <2>5. CASE p = "agil-local"
    <3>1. \A i \in DOMAIN pairs : Offer(p, answer, n, pairs[i], AgilTotal(fare), AgilBags(fare)) \in S
      BY <2>2, <2>3, OfferFits
    <3>2. [i \in DOMAIN pairs |-> Offer(p, answer, n, pairs[i], AgilTotal(fare), AgilBags(fare))] \in Seq(S)
      <4>1. DOMAIN pairs = 1..Len(pairs) /\ Len(pairs) \in Nat
        BY <2>2
      <4> HIDE DEF S, pairs, fare
      <4> QED
        BY <3>1, <4>1
    <3> HIDE DEF S
    <3> QED
      BY <2>4, <2>5, <3>2 DEF MapGroup
  <2>6. CASE p # "agil-local"
    <3>0. p = "costamar"
      BY <2>6 DEF Provider
    <3>1. \A i \in DOMAIN pairs : Offer(p, answer, n, pairs[i], CostamarTotal(fare), CostamarBags(fare)) \in S
      BY <2>2, <2>3, OfferFits
    <3>2. [i \in DOMAIN pairs |-> Offer(p, answer, n, pairs[i], CostamarTotal(fare), CostamarBags(fare))] \in Seq(S)
      <4>1. DOMAIN pairs = 1..Len(pairs) /\ Len(pairs) \in Nat
        BY <2>2
      <4> HIDE DEF S, pairs, fare
      <4> QED
        BY <3>1, <4>1
    <3> HIDE DEF S
    <3> QED
      BY <2>4, <3>0, <3>2 DEF MapRecommendation
  <2> QED
    BY <2>5, <2>6
<1>3. ss \in Seq(Seq(S))
  <2> HIDE DEF of, S
  <2> QED
    BY <1>1, <1>2
<1>4. FlattenSeq(ss) \in Seq(S)
  <2> HIDE DEF ss, S
  <2> QED
    BY <1>3, FlattenHolds
<1> QED
  BY <1>4 DEF Mapped

(* Everything a provider said in some answers.                             *)
SaidBy(p, said) == UNION {ToSet(Mapped(p, a)) : a \in said}

(* All a provider's offers so far are what it said in its answers.         *)
LEMMA ToldIs ==
  ASSUME NEW p \in Provider, NEW said \in Seq(AnswerRecord)
  PROVE  /\ AllMapped(p, said) \in Seq(OfferRecord)
         /\ ToSet(AllMapped(p, said)) = SaidBy(p, ToSet(said))
<1> DEFINE ss == [i \in DOMAIN said |-> Mapped(p, said[i])]
<1>1. \A i \in DOMAIN said : Mapped(p, said[i]) \in Seq(OfferRecord)
  <2> SUFFICES ASSUME NEW i \in DOMAIN said PROVE Mapped(p, said[i]) \in Seq(OfferRecord)
    OBVIOUS
  <2>1. Mapped(p, said[i]) \in Seq(OffersOf(p, said[i].day))
    BY MappedFits
  <2>2. OffersOf(p, said[i].day) \subseteq OfferRecord
    BY DEF OffersOf
  <2> HIDE DEF OffersOf
  <2> QED
    BY <2>1, <2>2
<1>2. ss \in Seq(Seq(OfferRecord)) /\ Len(ss) = Len(said) /\ \A i \in 1..Len(said) : ss[i] = Mapped(p, said[i])
  BY <1>1
<1>3. AllMapped(p, said) = FlattenSeq(ss)
  BY DEF AllMapped
<1> HIDE DEF ss
<1>4. /\ FlattenSeq(ss) \in Seq(OfferRecord)
      /\ \A x : x \in ToSet(FlattenSeq(ss)) <=> \E i \in 1..Len(ss) : x \in ToSet(ss[i])
  BY <1>2, FlattenHolds
<1>5. \A x : x \in SaidBy(p, ToSet(said)) <=> \E i \in 1..Len(said) : x \in ToSet(Mapped(p, said[i]))
  <2>1. ToSet(said) = {said[i] : i \in 1..Len(said)}
    BY DEF ToSet
  <2> QED
    BY <2>1 DEF SaidBy
<1> QED
  BY <1>2, <1>3, <1>4, <1>5

(* What two offers have in common when the one is kept for both.           *)
Rule == Provider \union {"list"}
Class(rule, o) ==
  IF rule = "list" THEN Key(o) ELSE <<o.day, o.out, o.in, o.bags, o.price>>

(* Of two offers of the same fare, which its provider's rule prefers.      *)
Better(rule, a, b) ==
  IF rule = "agil-local" THEN a.seats > b.seats \/ (a.seats = b.seats /\ a.minutes < b.minutes)
  ELSE a.minutes < b.minutes

(* There are three rules, and the list's is no provider's.                 *)
LEMMA RulesAre == Rule = {"agil-local", "costamar", "list"} /\ "list" \notin Provider
BY DEF Rule, Provider

(* Two offers are the same by a rule when they are of one class.           *)
LEMMA SameIs ==
  ASSUME NEW rule \in Rule, NEW a \in OfferRecord, NEW b \in OfferRecord
  PROVE  Same(rule, a, b) <=> Class(rule, a) = Class(rule, b)
<1>1. CASE rule = "list"
  BY <1>1 DEF Same, SameKey, Class
<1>2. CASE rule # "list"
  <2>1. Same(rule, a, b) <=> SameFare(a, b)
    BY <1>2 DEF Same
  <2>2. SameFare(a, b) <=> /\ a.day = b.day /\ a.out = b.out /\ a.in = b.in /\ a.bags = b.bags /\ a.price = b.price
    BY DEF SameFare
  <2>3. Class(rule, a) = Class(rule, b)
          <=> /\ a.day = b.day /\ a.out = b.out /\ a.in = b.in /\ a.bags = b.bags /\ a.price = b.price
    BY <1>2 DEF Class
  <2> QED
    BY <2>1, <2>2, <2>3
<1> QED
  BY <1>1, <1>2

(* The keys of offers are the same field by field.                         *)
LEMMA KeysAre ==
  ASSUME NEW a \in OfferRecord, NEW b \in OfferRecord
  PROVE  Key(a) = Key(b) <=> /\ a.price = b.price /\ a.day = b.day /\ a.minutes = b.minutes
                             /\ a.out = b.out /\ a.in = b.in /\ a.bags = b.bags
BY DEF Key

(* What joins two offers of a class is of it; by a provider's rule it is   *)
(* one of them, the first unless the second is better, and in the list it  *)
(* has the paths of both.                                                  *)
LEMMA JoinedIs ==
  ASSUME NEW rule \in Rule, NEW a \in OfferRecord, NEW b \in OfferRecord,
         Class(rule, a) = Class(rule, b)
  PROVE  /\ Joined(rule, a, b) \in OfferRecord
         /\ Class(rule, Joined(rule, a, b)) = Class(rule, a)
         /\ rule # "list" => \/ Joined(rule, a, b) = a /\ ~Better(rule, b, a)
                             \/ Joined(rule, a, b) = b /\ Better(rule, b, a)
         /\ rule = "list" => Joined(rule, a, b).paths = a.paths \union b.paths
<1>1. CASE rule = "list"
  <2>1. Joined(rule, a, b) = [a EXCEPT !.paths = a.paths \union b.paths]
    BY <1>1 DEF Joined, JoinPaths
  <2> DEFINE both == a.paths \union b.paths
  <2>2. both \in SUBSET Provider
    BY DEF OfferRecord
  <2> HIDE DEF both
  <2>3. /\ [a EXCEPT !.paths = both] \in OfferRecord
        /\ [a EXCEPT !.paths = both].paths = both
        /\ Key([a EXCEPT !.paths = both]) = Key(a)
    BY <2>2 DEF OfferRecord, Key
  <2> QED
    BY <1>1, <2>1, <2>3 DEF Class, both
<1>2. CASE rule = "agil-local"
  <2>1. Joined(rule, a, b) = MoreSeats(a, b)
    BY <1>2 DEF Joined
  <2>2. {a.seats, b.seats, a.minutes, b.minutes} \subseteq Int
    BY DEF OfferRecord
  <2> QED
    BY <1>2, <2>1, <2>2 DEF MoreSeats, Better
<1>3. CASE rule = "costamar"
  <2>1. Joined(rule, a, b) = Shorter(a, b)
    BY <1>3 DEF Joined
  <2> QED
    BY <1>3, <2>1 DEF Shorter, Better
<1> QED
  BY <1>1, <1>2, <1>3, RulesAre

(* A provider's rule prefers the better of two to what is worse than one.  *)
LEMMA BetterStill ==
  ASSUME NEW rule \in Rule, rule # "list", NEW a \in OfferRecord, NEW b \in OfferRecord, NEW c \in OfferRecord
  PROVE  /\ ~Better(rule, a, a)
         /\ ~Better(rule, c, a) /\ Better(rule, b, a) => ~Better(rule, c, b)
         /\ ~Better(rule, a, b) /\ ~Better(rule, b, a) /\ Class(rule, a) = Class(rule, b) => Key(a) = Key(b)
<1>1. {a.seats, b.seats, c.seats, a.minutes, b.minutes, c.minutes} \subseteq Int
  BY DEF OfferRecord
<1>2. ~Better(rule, a, a)
  BY <1>1 DEF Better
<1>3. ~Better(rule, c, a) /\ Better(rule, b, a) => ~Better(rule, c, b)
  BY <1>1 DEF Better
<1>4. ASSUME ~Better(rule, a, b), ~Better(rule, b, a), Class(rule, a) = Class(rule, b) PROVE Key(a) = Key(b)
  <2>1. a.minutes = b.minutes
    BY <1>1, <1>4 DEF Better
  <2>2. a.day = b.day /\ a.out = b.out /\ a.in = b.in /\ a.bags = b.bags /\ a.price = b.price
    BY <1>4 DEF Class
  <2> QED
    BY <2>1, <2>2, KeysAre
<1> QED
  BY <1>2, <1>3, <1>4

(* What is kept of some offers: of each class one, which by a provider's   *)
(* rule is the best of it, and in the list has the paths of all of it.     *)
PathsOf(rule, X, r) == UNION {x.paths : x \in {y \in X : Class(rule, y) = Class(rule, r)}}
IsKept(rule, R, X) ==
  /\ \A r \in R : \E x \in X : Class(rule, x) = Class(rule, r)
  /\ \A x \in X : \E r \in R : Class(rule, x) = Class(rule, r)
  /\ rule # "list" =>
       \A r \in R : r \in X /\ \A x \in X : Class(rule, x) = Class(rule, r) => ~Better(rule, x, r)
  /\ rule = "list" => \A r \in R : r.paths = PathsOf(rule, X, r)
NoTwoAlike(rule, s) == \A i, j \in DOMAIN s : Class(rule, s[i]) = Class(rule, s[j]) => i = j

(* An offer is put beside those kept, or joins the one of its class.       *)
LEMMA AddingIs ==
  ASSUME NEW rule \in Rule, NEW s \in Seq(OfferRecord), NoTwoAlike(rule, s), NEW o \in OfferRecord
  PROVE  /\ Adding(rule, s, o) \in Seq(OfferRecord) /\ NoTwoAlike(rule, Adding(rule, s, o))
         /\ \/ /\ \A a \in ToSet(s) : Class(rule, a) # Class(rule, o)
               /\ ToSet(Adding(rule, s, o)) = ToSet(s) \union {o}
            \/ \E a \in ToSet(s) :
                 /\ Class(rule, a) = Class(rule, o)
                 /\ ToSet(Adding(rule, s, o)) = (ToSet(s) \ {a}) \union {Joined(rule, a, o)}
<1> DEFINE at == {i \in DOMAIN s : Same(rule, s[i], o)}
           n == Len(s)
           t == Adding(rule, s, o)
<1>1. n \in Nat /\ DOMAIN s = 1..n /\ \A i \in 1..n : s[i] \in OfferRecord
  OBVIOUS
<1>2. at = {i \in 1..n : Class(rule, s[i]) = Class(rule, o)}
  <2>1. \A i \in 1..n : Same(rule, s[i], o) <=> Class(rule, s[i]) = Class(rule, o)
    BY <1>1, SameIs
  <2> QED
    BY <1>1, <2>1
<1>3. ToSet(s) = {s[i] : i \in 1..n}
  BY <1>1 DEF ToSet
<1>4. CASE at = {}
  <2>1. t = Append(s, o)
    BY <1>4 DEF Adding
  <2> HIDE DEF at, t, n
  <2>2. /\ t \in Seq(OfferRecord) /\ DOMAIN t = 1..(n + 1) /\ t[n + 1] = o
        /\ \A i \in 1..n : t[i] = s[i]
    BY <1>1, <2>1 DEF n
  <2>3. \A i \in 1..(n + 1) : i \in 1..n \/ i = n + 1
    BY <1>1
  <2>4. \A i \in 1..n : Class(rule, s[i]) # Class(rule, o)
    BY <1>2, <1>4
  <2>5. NoTwoAlike(rule, t)
    BY <1>1, <2>2, <2>3, <2>4 DEF NoTwoAlike
  <2>6. ToSet(t) = ToSet(s) \union {o}
    <3>1. ToSet(t) = {t[i] : i \in 1..(n + 1)}
      BY <2>2 DEF ToSet
    <3>2. 1..n \subseteq 1..(n + 1) /\ n + 1 \in 1..(n + 1)
      BY <1>1
    <3> QED
      BY <1>3, <2>2, <2>3, <3>1, <3>2
  <2>7. \A a \in ToSet(s) : Class(rule, a) # Class(rule, o)
    BY <1>3, <2>4
  <2> QED
    BY <2>2, <2>5, <2>6, <2>7 DEF t
<1>5. CASE at # {}
  <2> DEFINE m == Least(at)  j == Joined(rule, s[m], o)
  <2>1. m \in at
    <3>1. at \in SUBSET Nat
      BY <1>1
    <3> HIDE DEF at
    <3> QED
      BY <1>5, <3>1, LeastIs
  <2>2. t = [s EXCEPT ![m] = j]
    BY <1>5 DEF Adding
  <2>3. m \in 1..n /\ Class(rule, s[m]) = Class(rule, o) /\ s[m] \in OfferRecord
    BY <1>1, <1>2, <2>1
  <2> HIDE DEF m
  <2>4. j \in OfferRecord /\ Class(rule, j) = Class(rule, s[m])
    BY <2>3, JoinedIs
  <2> HIDE DEF at, t, j, n
  <2>5. /\ t \in Seq(OfferRecord) /\ DOMAIN t = 1..n /\ t[m] = j
        /\ \A i \in 1..n : i # m => t[i] = s[i]
    BY <1>1, <2>2, <2>3, <2>4
  <2>6. NoTwoAlike(rule, t)
    <3>1. \A i \in 1..n : Class(rule, t[i]) = Class(rule, s[i])
      BY <2>4, <2>5
    <3> QED
      BY <1>1, <2>5, <3>1 DEF NoTwoAlike
  <2>7. ToSet(t) = (ToSet(s) \ {s[m]}) \union {j}
    <3>1. ToSet(t) = {t[i] : i \in 1..n}
      BY <2>5 DEF ToSet
    <3>2. \A i \in 1..n : i # m => s[i] # s[m]
      BY <1>1, <2>3 DEF NoTwoAlike
    <3> QED
      BY <1>3, <2>3, <2>5, <3>1, <3>2
  <2>8. s[m] \in ToSet(s)
    BY <1>3, <2>3
  <2> QED
    BY <2>3, <2>5, <2>6, <2>7, <2>8 DEF t, j
<1> QED
  BY <1>4, <1>5

(* One more offer is one more of which one of each class is kept.          *)
LEMMA BesideKept ==
  ASSUME NEW rule \in Rule, NEW R \in SUBSET OfferRecord, NEW X \in SUBSET OfferRecord, IsKept(rule, R, X),
         NEW o \in OfferRecord, \A a \in R : Class(rule, a) # Class(rule, o)
  PROVE  IsKept(rule, R \union {o}, X \union {o})
<1>1. \A x \in X : Class(rule, x) # Class(rule, o)
  BY DEF IsKept
<1>2. \A r \in R \union {o} : \E x \in X \union {o} : Class(rule, x) = Class(rule, r)
  BY DEF IsKept
<1>3. \A x \in X \union {o} : \E r \in R \union {o} : Class(rule, x) = Class(rule, r)
  BY DEF IsKept
<1>4. ASSUME rule # "list", NEW r \in R \union {o}
      PROVE  r \in X \union {o} /\ \A x \in X \union {o} : Class(rule, x) = Class(rule, r) => ~Better(rule, x, r)
  <2>1. ~Better(rule, o, o)
    BY <1>4, BetterStill
  <2> QED
    BY <1>1, <1>4, <2>1 DEF IsKept
<1>5. ASSUME rule = "list", NEW r \in R \union {o} PROVE r.paths = PathsOf(rule, X \union {o}, r)
  <2>1. CASE r = o
    <3>1. {y \in X \union {o} : Class(rule, y) = Class(rule, r)} = {o}
      BY <1>1, <2>1
    <3>2. {x.paths : x \in {o}} = {o.paths}
      OBVIOUS
    <3> QED
      BY <2>1, <3>1, <3>2 DEF PathsOf
  <2>2. CASE r \in R
    <3>1. {y \in X \union {o} : Class(rule, y) = Class(rule, r)} = {y \in X : Class(rule, y) = Class(rule, r)}
      BY <2>2
    <3>2. r.paths = PathsOf(rule, X, r)
      BY <1>5, <2>2 DEF IsKept
    <3> QED
      BY <3>1, <3>2 DEF PathsOf
  <2> QED
    BY <2>1, <2>2
<1> QED
  BY <1>2, <1>3, <1>4, <1>5 DEF IsKept

(* One more offer of a class that is kept joins the one kept of it.        *)
LEMMA JoinsKept ==
  ASSUME NEW rule \in Rule, NEW R \in SUBSET OfferRecord, NEW X \in SUBSET OfferRecord, IsKept(rule, R, X),
         \A r, q \in R : Class(rule, r) = Class(rule, q) => r = q,
         NEW o \in OfferRecord, NEW a \in R, Class(rule, a) = Class(rule, o)
  PROVE  IsKept(rule, (R \ {a}) \union {Joined(rule, a, o)}, X \union {o})
<1> DEFINE j == Joined(rule, a, o)
<1>1. /\ j \in OfferRecord /\ Class(rule, j) = Class(rule, a) /\ a \in OfferRecord
      /\ rule # "list" => \/ j = a /\ ~Better(rule, o, a)
                          \/ j = o /\ Better(rule, o, a)
      /\ rule = "list" => j.paths = a.paths \union o.paths
  BY JoinedIs
<1> HIDE DEF j
<1>2. \A r \in R \ {a} : Class(rule, r) # Class(rule, a)
  OBVIOUS
<1>3. \A r \in (R \ {a}) \union {j} : \E x \in X \union {o} : Class(rule, x) = Class(rule, r)
  BY <1>1 DEF IsKept
<1>4. \A x \in X \union {o} : \E r \in (R \ {a}) \union {j} : Class(rule, x) = Class(rule, r)
  <2> SUFFICES ASSUME NEW x \in X PROVE \E r \in (R \ {a}) \union {j} : Class(rule, x) = Class(rule, r)
    BY <1>1
  <2>1. PICK r \in R : Class(rule, x) = Class(rule, r)
    BY DEF IsKept
  <2> QED
    BY <1>1, <2>1
<1>5. ASSUME rule # "list", NEW r \in (R \ {a}) \union {j}
      PROVE  r \in X \union {o} /\ \A x \in X \union {o} : Class(rule, x) = Class(rule, r) => ~Better(rule, x, r)
  <2>1. CASE r \in R \ {a}
    BY <1>2, <1>5, <2>1 DEF IsKept
  <2>2. a \in X /\ \A x \in X : Class(rule, x) = Class(rule, a) => ~Better(rule, x, a)
    BY <1>5 DEF IsKept
  <2>3. CASE r = j /\ j = a /\ ~Better(rule, o, a)
    BY <2>2, <2>3
  <2>4. CASE r = j /\ j = o /\ Better(rule, o, a)
    <3>1. ~Better(rule, o, o)
      BY <1>5, BetterStill
    <3>2. \A x \in X : ~Better(rule, x, a) => ~Better(rule, x, o)
      BY <1>1, <1>5, <2>4, BetterStill
    <3> QED
      BY <2>2, <2>4, <3>1, <3>2
  <2> QED
    BY <1>1, <1>5, <2>1, <2>3, <2>4
<1>6. ASSUME rule = "list", NEW r \in (R \ {a}) \union {j} PROVE r.paths = PathsOf(rule, X \union {o}, r)
  <2>1. CASE r \in R \ {a}
    <3>1. {y \in X \union {o} : Class(rule, y) = Class(rule, r)} = {y \in X : Class(rule, y) = Class(rule, r)}
      BY <1>2, <2>1
    <3>2. r.paths = PathsOf(rule, X, r)
      BY <1>6, <2>1 DEF IsKept
    <3> QED
      BY <3>1, <3>2 DEF PathsOf
  <2>2. CASE r = j
    <3> DEFINE Y == {y \in X : Class(rule, y) = Class(rule, a)}
    <3>1. {y \in X \union {o} : Class(rule, y) = Class(rule, r)} = Y \union {o}
      BY <1>1, <2>2
    <3>2. a.paths = UNION {x.paths : x \in Y}
      BY <1>6 DEF IsKept, PathsOf
    <3> HIDE DEF Y
    <3>3. UNION {x.paths : x \in Y \union {o}} = (UNION {x.paths : x \in Y}) \union o.paths
      OBVIOUS
    <3> QED
      BY <1>1, <1>6, <2>2, <3>1, <3>2, <3>3 DEF PathsOf
  <2> QED
    BY <2>1, <2>2
<1> QED
  BY <1>3, <1>4, <1>5, <1>6 DEF IsKept, j

(* What is kept of a list of offers, one put after the other.              *)
LEMMA KeptIs ==
  ASSUME NEW rule \in Rule, NEW s \in Seq(OfferRecord)
  PROVE  /\ Kept(s, rule) \in Seq(OfferRecord) /\ NoTwoAlike(rule, Kept(s, rule))
         /\ IsKept(rule, ToSet(Kept(s, rule)), ToSet(s))
<1> DEFINE N == Len(s)
           More(g, n) == IF n = 0 THEN <<>> ELSE Adding(rule, g[n - 1], s[n])
           IsIt(g, m) == g = [n \in 0..m |-> More(g, n)]
           k[n \in 0..N] == IF n = 0 THEN <<>> ELSE Adding(rule, k[n - 1], s[n])
           Ready == {m \in Nat : \E g : IsIt(g, m)}
<1>1. N \in Nat /\ \A i \in 1..N : s[i] \in OfferRecord
  OBVIOUS
<1>2. \A m \in 0..N : m \in Ready
  <2>1. 0 \in Ready
    <3>1. IsIt([n \in 0..0 |-> <<>>], 0)
      OBVIOUS
    <3> QED
      BY <3>1
  <2>2. ASSUME NEW m \in Nat, m < N, m \in Ready PROVE m + 1 \in Ready
    <3>1. PICK g : IsIt(g, m)
      BY <2>2
    <3> DEFINE h == [n \in 0..(m + 1) |-> IF n = m + 1 THEN More(g, m + 1) ELSE g[n]]
    <3>2. \A n \in 0..m : h[n] = g[n]
      OBVIOUS
    <3>3. \A n \in 0..m : h[n] = More(g, n)
      <4> HIDE DEF h, More
      <4>1. \A n \in 0..m : g[n] = More(g, n)
        BY <3>1
      <4> QED
        BY <3>2, <4>1
    <3>4. h[m + 1] = More(g, m + 1)
      OBVIOUS
    <3>5. \A n \in 0..(m + 1) : n = 0 \/ n - 1 \in 0..m
      OBVIOUS
    <3>6. \A n \in 0..(m + 1) : More(g, n) = More(h, n)
      <4> HIDE DEF h
      <4> QED
        BY <3>2, <3>5
    <3>7. \A n \in 0..(m + 1) : n \in 0..m \/ n = m + 1
      OBVIOUS
    <3>8. DOMAIN h = 0..(m + 1) /\ h = [n \in 0..(m + 1) |-> h[n]]
      OBVIOUS
    <3> HIDE DEF h, More
    <3>9. \A n \in 0..(m + 1) : h[n] = More(h, n)
      BY <3>3, <3>4, <3>6, <3>7
    <3>10. IsIt(h, m + 1)
      BY <3>8, <3>9
    <3> HIDE DEF IsIt
    <3> QED
      BY <3>10
  <2> HIDE DEF Ready
  <2> QED
    BY <1>1, <2>1, <2>2, UpTo
<1>3. \E g : IsIt(g, N)
  <2>1. N \in Ready
    <3> HIDE DEF Ready
    <3> QED
      BY <1>1, <1>2
  <2> QED
    BY <2>1
<1>4. k = CHOOSE g : IsIt(g, N)
  BY DEF k
<1>5. Kept(s, rule) = k[N]
  BY DEF Kept
<1> HIDE DEF k
<1>6. IsIt(k, N)
  BY <1>3, <1>4
<1>7. k[0] = <<>> /\ \A n \in Nat : n < N => k[n + 1] = Adding(rule, k[n], s[n + 1])
  <2>1. \A n \in 0..N : k[n] = More(k, n)
    <3> HIDE DEF More
    <3> QED
      BY <1>6
  <2>2. 0 \in 0..N /\ \A n \in Nat : n < N => n + 1 \in 0..N /\ n + 1 # 0 /\ (n + 1) - 1 = n
    BY <1>1
  <2> QED
    BY <2>1, <2>2
<1> DEFINE First(n) == {s[i] : i \in 1..n}
           IsRight(n) == /\ k[n] \in Seq(OfferRecord) /\ NoTwoAlike(rule, k[n])
                         /\ IsKept(rule, ToSet(k[n]), First(n))
           Right == {n \in Nat : n <= N => IsRight(n)}
<1>8. 0 \in Right
  <2>1. k[0] \in Seq(OfferRecord) /\ DOMAIN k[0] = {} /\ ToSet(k[0]) = {}
    BY <1>7 DEF ToSet
  <2>2. First(0) = {}
    OBVIOUS
  <2>3. NoTwoAlike(rule, k[0])
    BY <2>1 DEF NoTwoAlike
  <2>4. IsKept(rule, {}, {})
    BY DEF IsKept
  <2> QED
    BY <2>1, <2>2, <2>3, <2>4
<1>9. ASSUME NEW n \in Nat, n < N, n \in Right PROVE n + 1 \in Right
  <2> DEFINE o == s[n + 1]  R == ToSet(k[n])
  <2>1. IsRight(n) /\ k[n + 1] = Adding(rule, k[n], o) /\ n + 1 \in 1..N
    BY <1>1, <1>7, <1>9
  <2>2. o \in OfferRecord
    BY <1>1, <2>1
  <2>3. First(n) \in SUBSET OfferRecord /\ First(n + 1) = First(n) \union {o}
    <3>1. \A i \in 1..(n + 1) : i \in 1..n \/ i = n + 1
      OBVIOUS
    <3>2. 1..n \subseteq 1..(n + 1) /\ n + 1 \in 1..(n + 1) /\ 1..n \subseteq 1..N
      BY <1>1, <1>9
    <3> QED
      BY <1>1, <3>1, <3>2
  <2>4. /\ R \in SUBSET OfferRecord
        /\ \A r, q \in R : Class(rule, r) = Class(rule, q) => r = q
    BY <2>1 DEF ToSet, NoTwoAlike
  <2> HIDE DEF First, o
  <2>5. /\ k[n + 1] \in Seq(OfferRecord) /\ NoTwoAlike(rule, k[n + 1])
        /\ \/ /\ \A a \in R : Class(rule, a) # Class(rule, o)
              /\ ToSet(k[n + 1]) = R \union {o}
           \/ \E a \in R :
                /\ Class(rule, a) = Class(rule, o)
                /\ ToSet(k[n + 1]) = (R \ {a}) \union {Joined(rule, a, o)}
    <3> HIDE DEF IsKept
    <3> DEFINE kn == k[n]
    <3>1. kn \in Seq(OfferRecord) /\ NoTwoAlike(rule, kn)
      BY <2>1
    <3>2. k[n + 1] = Adding(rule, kn, o) /\ R = ToSet(kn)
      BY <2>1
    <3> HIDE DEF kn, R
    <3>3. /\ Adding(rule, kn, o) \in Seq(OfferRecord) /\ NoTwoAlike(rule, Adding(rule, kn, o))
          /\ \/ /\ \A a \in ToSet(kn) : Class(rule, a) # Class(rule, o)
                /\ ToSet(Adding(rule, kn, o)) = ToSet(kn) \union {o}
             \/ \E a \in ToSet(kn) :
                  /\ Class(rule, a) = Class(rule, o)
                  /\ ToSet(Adding(rule, kn, o)) = (ToSet(kn) \ {a}) \union {Joined(rule, a, o)}
      BY <2>2, <3>1, AddingIs
    <3> QED
      BY <3>2, <3>3
  <2> HIDE DEF R
  <2>6. IsKept(rule, ToSet(k[n + 1]), First(n) \union {o})
    <3>1. IsKept(rule, R, First(n))
      BY <2>1 DEF R
    <3>2. CASE \A a \in R : Class(rule, a) # Class(rule, o)
      <4>1. ToSet(k[n + 1]) = R \union {o}
        BY <2>5, <3>2
      <4> QED
        BY <2>2, <2>3, <2>4, <3>1, <3>2, <4>1, BesideKept
    <3>3. CASE ~\A a \in R : Class(rule, a) # Class(rule, o)
      <4>1. PICK a \in R : /\ Class(rule, a) = Class(rule, o)
                           /\ ToSet(k[n + 1]) = (R \ {a}) \union {Joined(rule, a, o)}
        BY <2>5, <3>3
      <4> QED
        BY <2>2, <2>3, <2>4, <3>1, <4>1, JoinsKept
    <3> QED
      BY <3>2, <3>3
  <2>7. IsRight(n + 1)
    BY <2>3, <2>5, <2>6
  <2> HIDE DEF IsRight
  <2> QED
    BY <2>7
<1>10. N \in Right
  <2> HIDE DEF Right
  <2>1. \A n \in 0..N : n \in Right
    BY <1>1, <1>8, <1>9, UpTo
  <2> QED
    BY <1>1, <2>1
<1>11. First(N) = ToSet(s)
  BY DEF ToSet
<1> HIDE DEF First
<1> QED
  BY <1>1, <1>5, <1>10, <1>11

(* Lists of numbers of one length come one before the other, as their      *)
(* first difference says.                                                  *)
LEMMA OneIsBefore ==
  ASSUME NEW n \in Nat, NEW a \in [1..n -> Int], NEW b \in [1..n -> Int], a # b
  PROVE  KeyBefore(a, b) \/ KeyBefore(b, a)
<1> DEFINE D == {i \in 1..n : a[i] # b[i]}
<1>1. D \in SUBSET Nat /\ D # {}
  <2>1. D \in SUBSET Nat
    OBVIOUS
  <2>2. (\A i \in 1..n : a[i] = b[i]) => a = b
    OBVIOUS
  <2> QED
    BY <2>1, <2>2
<1>2. \E m \in D : \A i \in D : m <= i
  <2> HIDE DEF D
  <2> QED
    BY <1>1, SmallestOf
<1>3. PICK m \in D : \A i \in D : m <= i
  BY <1>2
<1>4. m \in 1..n /\ a[m] # b[m] /\ a[m] \in Int /\ b[m] \in Int
  BY <1>3
<1>5. \A i \in 1..(m - 1) : a[i] = b[i]
  <2> SUFFICES ASSUME NEW i \in 1..(m - 1), a[i] # b[i] PROVE FALSE
    OBVIOUS
  <2>1. i \in D
    BY <1>4
  <2> QED
    BY <1>3, <1>4, <2>1
<1>6. DOMAIN a = 1..n /\ DOMAIN b = 1..n /\ (a[m] < b[m] \/ b[m] < a[m])
  BY <1>4
<1> QED
  BY <1>4, <1>5, <1>6 DEF KeyBefore

(* No key comes before itself.                                             *)
LEMMA NoneBeforeItself ==
  ASSUME NEW n \in Nat, NEW a \in [1..n -> Int] PROVE ~KeyBefore(a, a)
BY DEF KeyBefore

(* A key before one that is before a third is before the third.            *)
LEMMA BeforeThat ==
  ASSUME NEW n \in Nat, NEW a \in [1..n -> Int], NEW b \in [1..n -> Int], NEW c \in [1..n -> Int],
         KeyBefore(a, b), KeyBefore(b, c)
  PROVE  KeyBefore(a, c)
<1>1. PICK i \in 1..n : a[i] < b[i] /\ \A j \in 1..(i - 1) : a[j] = b[j]
  BY DEF KeyBefore
<1>2. PICK k \in 1..n : b[k] < c[k] /\ \A j \in 1..(k - 1) : b[j] = c[j]
  BY DEF KeyBefore
<1>3. \A m \in 1..n : a[m] \in Int /\ b[m] \in Int /\ c[m] \in Int
  OBVIOUS
<1>4. DOMAIN a = 1..n
  OBVIOUS
<1>5. CASE i < k
  <2>1. i \in 1..(k - 1) /\ \A j \in 1..(i - 1) : j \in 1..(k - 1)
    BY <1>5
  <2>2. a[i] < c[i] /\ \A j \in 1..(i - 1) : a[j] = c[j]
    BY <1>1, <1>2, <2>1
  <2> QED
    BY <1>4, <2>2 DEF KeyBefore
<1>6. CASE i = k
  <2>1. a[i] < c[i] /\ \A j \in 1..(i - 1) : a[j] = c[j]
    BY <1>1, <1>2, <1>3, <1>6
  <2> QED
    BY <1>4, <2>1 DEF KeyBefore
<1>7. CASE k < i
  <2>1. k \in 1..(i - 1) /\ \A j \in 1..(k - 1) : j \in 1..(i - 1)
    BY <1>7
  <2>2. a[k] < c[k] /\ \A j \in 1..(k - 1) : a[j] = c[j]
    BY <1>1, <1>2, <2>1
  <2> QED
    BY <1>4, <2>2 DEF KeyBefore
<1> QED
  BY <1>5, <1>6, <1>7

(* Two numbers and six are eight, the six last.                            *)
LEMMA TwoAndSix ==
  ASSUME NEW p \in Seq(Int), NEW q \in Seq(Int), Len(p) = 2, Len(q) = 6
  PROVE  p \o q \in [1..8 -> Int] /\ \A i \in 1..6 : (p \o q)[i + 2] = q[i]
<1> DEFINE r == p \o q
<1>0. /\ r \in Seq(Int) /\ Len(r) = Len(p) + Len(q)
      /\ \A i \in 1..(Len(p) + Len(q)) : r[i] = IF i <= Len(p) THEN p[i] ELSE q[i - Len(p)]
  BY ConcatProperties
<1> HIDE DEF r
<1>1. r \in Seq(Int) /\ Len(r) = 8
  BY <1>0
<1>2. \A i \in 1..6 : r[i + 2] = q[i]
  <2> SUFFICES ASSUME NEW i \in 1..6 PROVE r[i + 2] = q[i]
    OBVIOUS
  <2>1. i + 2 \in 1..(Len(p) + Len(q)) /\ ~(i + 2 <= Len(p)) /\ (i + 2) - Len(p) = i
    OBVIOUS
  <2> QED
    BY <1>0, <2>1
<1>3. r \in [1..8 -> Int]
  <2>1. r \in [1..Len(r) -> Int]
    BY <1>1, LenProperties
  <2> QED
    BY <1>1, <2>1
<1> QED
  BY <1>2, <1>3 DEF r

(* The offers of a list are sorted by eight numbers, which are the same if *)
(* their keys are.                                                         *)
LEMMA SortKeyIs ==
  ASSUME NEW way, NEW a \in OfferRecord, NEW b \in OfferRecord
  PROVE  /\ SortKey(way, a) \in [1..8 -> Int]
         /\ SortKey(way, a) = SortKey(way, b) <=> Key(a) = Key(b)
<1> DEFINE first(o) == IF way = "cheapest" THEN o.price ELSE o.minutes
           two(o) == <<first(o), o.day>>
<1>1. ASSUME NEW o \in OfferRecord
      PROVE  /\ SortKey(way, o) = two(o) \o Key(o)
             /\ two(o) \in Seq(Int) /\ Len(two(o)) = 2
             /\ Key(o) \in Seq(Int) /\ Len(Key(o)) = 6
  <2>1. /\ o.price \in Int /\ o.day \in Int /\ o.minutes \in Int
        /\ o.out \in Int /\ o.in \in Int /\ o.bags \in Int
    BY DEF OfferRecord
  <2>2. first(o) \in Int
    BY <2>1
  <2>3. Key(o) \in Seq(Int) /\ Len(Key(o)) = 6
    BY <2>1 DEF Key
  <2>4. SortKey(way, o) = two(o) \o Key(o)
    BY DEF SortKey
  <2> HIDE DEF first
  <2>5. two(o) \in Seq(Int) /\ Len(two(o)) = 2
    BY <2>1, <2>2
  <2> QED
    BY <2>3, <2>4, <2>5
<1>2. ASSUME NEW o \in OfferRecord
      PROVE  /\ SortKey(way, o) \in [1..8 -> Int]
             /\ \A i \in 1..6 : SortKey(way, o)[i + 2] = Key(o)[i]
  <2> DEFINE q == two(o)  k == Key(o)
  <2>1. SortKey(way, o) = q \o k /\ q \in Seq(Int) /\ Len(q) = 2 /\ k \in Seq(Int) /\ Len(k) = 6
    BY <1>1
  <2> HIDE DEF q, k
  <2>2. q \o k \in [1..8 -> Int] /\ \A i \in 1..6 : (q \o k)[i + 2] = k[i]
    BY <2>1, TwoAndSix
  <2> QED
    BY <2>1, <2>2 DEF k
<1>3. ASSUME SortKey(way, a) = SortKey(way, b) PROVE Key(a) = Key(b)
  <2>1. \A i \in 1..6 : Key(a)[i] = Key(b)[i]
    BY <1>2, <1>3
  <2> DEFINE k == Key(a)  m == Key(b)
  <2>2. k \in Seq(Int) /\ Len(k) = 6 /\ m \in Seq(Int) /\ Len(m) = 6
    BY <1>1
  <2> HIDE DEF k, m
  <2>3. \A i \in 1..Len(k) : k[i] = m[i]
    BY <2>1, <2>2 DEF k, m
  <2>4. k = m
    BY <2>2, <2>3, SeqEqual
  <2> QED
    BY <2>4 DEF k, m
<1>4. ASSUME Key(a) = Key(b) PROVE SortKey(way, a) = SortKey(way, b)
  <2>1. a.price = b.price /\ a.minutes = b.minutes /\ a.day = b.day
    BY <1>4, KeysAre
  <2> QED
    BY <1>1, <1>4, <2>1
<1> QED
  BY <1>2, <1>3, <1>4

(* The sort keys of a list, and those that precede one of them.            *)
SortKeys(way, s) == {SortKey(way, s[i]) : i \in DOMAIN s}
Ahead(K) == [k \in K |-> {m \in K : KeyBefore(m, k)}]
NoKeyTwice(s) == \A i, j \in DOMAIN s : Key(s[i]) = Key(s[j]) => i = j

(* Among finitely many keys each has a rank of its own, and every rank is  *)
(* taken.                                                                  *)
LEMMA RanksAreTaken ==
  ASSUME NEW K \in SUBSET [1..8 -> Int], IsFiniteSet(K)
  PROVE  /\ \A a, b \in K : Cardinality(Ahead(K)[a]) = Cardinality(Ahead(K)[b]) => a = b
         /\ \A k \in 0..(Cardinality(K) - 1) : \E a \in K : Cardinality(Ahead(K)[a]) = k
<1> DEFINE A == Ahead(K)
<1>1. A \in [K -> SUBSET K] /\ \A a \in K : A[a] = {m \in K : KeyBefore(m, a)}
  BY DEF Ahead
<1>2. \A a \in K : a \notin A[a]
  <2> SUFFICES ASSUME NEW a \in K PROVE a \notin A[a]
    OBVIOUS
  <2>1. a \in [1..8 -> Int] /\ 8 \in Nat
    OBVIOUS
  <2>2. ~KeyBefore(a, a)
    BY <2>1, NoneBeforeItself
  <2> HIDE DEF A
  <2> QED
    BY <1>1, <2>2
<1>3. \A a, b \in K : a # b => a \in A[b] \/ b \in A[a]
  <2> SUFFICES ASSUME NEW a \in K, NEW b \in K, a # b PROVE a \in A[b] \/ b \in A[a]
    OBVIOUS
  <2>1. a \in [1..8 -> Int] /\ b \in [1..8 -> Int] /\ 8 \in Nat
    OBVIOUS
  <2>2. KeyBefore(a, b) \/ KeyBefore(b, a)
    BY <2>1, OneIsBefore
  <2> HIDE DEF A
  <2> QED
    BY <1>1, <2>2
<1>4. \A a, b \in K : a \in A[b] => A[a] \subseteq A[b]
  <2> SUFFICES ASSUME NEW a \in K, NEW b \in K, a \in A[b], NEW m \in A[a] PROVE m \in A[b]
    OBVIOUS
  <2> HIDE DEF A
  <2>1. m \in K /\ KeyBefore(m, a) /\ KeyBefore(a, b)
    BY <1>1
  <2>2. a \in [1..8 -> Int] /\ b \in [1..8 -> Int] /\ m \in [1..8 -> Int] /\ 8 \in Nat
    BY <2>1
  <2>3. KeyBefore(m, b)
    BY <2>1, <2>2, BeforeThat
  <2> QED
    BY <1>1, <2>1, <2>3
<1> HIDE DEF A
<1>5. /\ \A a, b \in K : Cardinality(A[a]) = Cardinality(A[b]) => a = b
      /\ \A k \in 0..(Cardinality(K) - 1) : \E a \in K : Cardinality(A[a]) = k
  BY <1>1, <1>2, <1>3, <1>4, PlacesAreTaken
<1> QED
  BY <1>5 DEF A

(* A list in which no key comes twice has as many keys as places.          *)
LEMMA KeysOfAll ==
  ASSUME NEW way, NEW s \in Seq(OfferRecord), NoKeyTwice(s)
  PROVE  /\ SortKeys(way, s) \in SUBSET [1..8 -> Int] /\ IsFiniteSet(SortKeys(way, s))
         /\ Cardinality(SortKeys(way, s)) = Len(s)
<1> DEFINE n == Len(s)  ks == [i \in 1..n |-> SortKey(way, s[i])]
<1>1. n \in Nat /\ DOMAIN s = 1..n /\ \A i \in 1..n : s[i] \in OfferRecord
  OBVIOUS
<1>2. \A i \in 1..n : SortKey(way, s[i]) \in [1..8 -> Int]
  BY <1>1, SortKeyIs
<1>3. \A i, j \in 1..n : SortKey(way, s[i]) = SortKey(way, s[j]) => i = j
  BY <1>1, SortKeyIs DEF NoKeyTwice
<1>4. ks \in Seq([1..8 -> Int]) /\ Len(ks) = n /\ DOMAIN ks = 1..n
  BY <1>1, <1>2
<1>5. IsInjective(ks)
  BY <1>3, <1>4 DEF IsInjective
<1>6. ToSet(ks) = SortKeys(way, s)
  BY <1>1 DEF ToSet, SortKeys
<1> HIDE DEF ks
<1>7. Cardinality(ToSet(ks)) = n
  BY <1>4, <1>5, NothingTwice
<1>8. IsFiniteSet(ToSet(ks))
  <2>1. ks \in Surjection(1..n, ToSet(ks))
    <3>1. ks = [i \in 1..n |-> ks[i]]
      BY <1>4
    <3>2. ToSet(ks) = {ks[i] : i \in 1..n}
      BY <1>4 DEF ToSet
    <3>3. ks \in [1..n -> ToSet(ks)]
      BY <3>1, <3>2
    <3> QED
      BY <3>2, <3>3 DEF Surjection
  <2>2. IsFiniteSet(1..n)
    <3>1. n \in Int /\ 1 \in Int
      BY <1>1
    <3> QED
      BY <3>1, FS_Interval
  <2> QED
    BY <2>1, <2>2, FS_Surjection
<1> QED
  BY <1>2, <1>1, <1>6, <1>7, <1>8 DEF SortKeys

(* A list is sorted by the ranks of its keys, and nothing is lost in it.   *)
LEMMA SortedIs ==
  ASSUME NEW way, NEW s \in Seq(OfferRecord), NoKeyTwice(s)
  PROVE  LET t == Sorted(way, s)
         IN /\ t \in Seq(OfferRecord) /\ Len(t) = Len(s) /\ ToSet(t) = ToSet(s)
            /\ \A k \in 1..Len(s) :
                 /\ SortKey(way, t[k]) \in SortKeys(way, s)
                 /\ Cardinality(Ahead(SortKeys(way, s))[SortKey(way, t[k])]) = k - 1
<1> DEFINE n == Len(s)
           D == DOMAIN s
           K == SortKeys(way, s)
           key == [i \in D |-> SortKey(way, s[i])] \o <<>>
           before(j, i) == IF j < i THEN ~KeyBefore(key[i], key[j]) ELSE KeyBefore(key[j], key[i])
           inFront(i) == {j \in D : before(j, i)}
           rank == [i \in D |-> Cardinality(inFront(i))] \o <<>>
           spot(k) == CHOOSE i \in D : rank[i] = k - 1
           t == Sorted(way, s)
           R(a) == Cardinality(Ahead(K)[a])
<1>1. t = [k \in D |-> s[spot(k)]]
  BY DEF Sorted
<1>2. n \in Nat /\ D = 1..n /\ \A i \in D : s[i] \in OfferRecord
  OBVIOUS
<1>3. \A i \in D : SortKey(way, s[i]) \in [1..8 -> Int]
  BY <1>2, SortKeyIs
<1>4. \A i \in D : key[i] = SortKey(way, s[i])
  <2> DEFINE f == [i \in D |-> SortKey(way, s[i])]
  <2>1. f \in Seq([1..8 -> Int])
    BY <1>2, <1>3
  <2>2. f \o <<>> = f
    <3> HIDE DEF f
    <3> QED
      BY <2>1
  <2> QED
    BY <2>2
<1>5. K = {key[i] : i \in D}
  BY <1>4 DEF SortKeys
<1>6. \A i, j \in D : key[i] = key[j] => i = j
  BY <1>2, <1>4, SortKeyIs DEF NoKeyTwice
<1>7. K \in SUBSET [1..8 -> Int] /\ IsFiniteSet(K) /\ Cardinality(K) = n
  BY KeysOfAll
<1> HIDE DEF key
<1>8. \A i, j \in D : before(j, i) <=> KeyBefore(key[j], key[i])
  <2> SUFFICES ASSUME NEW i \in D, NEW j \in D, j < i
               PROVE  ~KeyBefore(key[i], key[j]) <=> KeyBefore(key[j], key[i])
    OBVIOUS
  <2>1. key[i] \in [1..8 -> Int] /\ key[j] \in [1..8 -> Int] /\ key[i] # key[j] /\ 8 \in Nat
    <3>1. key[i] = SortKey(way, s[i]) /\ key[j] = SortKey(way, s[j])
      BY <1>4
    <3>2. SortKey(way, s[i]) \in [1..8 -> Int] /\ SortKey(way, s[j]) \in [1..8 -> Int]
      BY <1>3
    <3>3. i # j
      BY <1>2
    <3>4. key[i] # key[j]
      BY <1>6, <3>3
    <3> HIDE DEF D
    <3> QED
      BY <3>1, <3>2, <3>4
  <2>2. KeyBefore(key[i], key[j]) \/ KeyBefore(key[j], key[i])
    BY <2>1, OneIsBefore
  <2>3. ~(KeyBefore(key[i], key[j]) /\ KeyBefore(key[j], key[i]))
    <3>1. ~KeyBefore(key[i], key[i])
      BY <2>1, NoneBeforeItself
    <3>2. KeyBefore(key[i], key[j]) /\ KeyBefore(key[j], key[i]) => KeyBefore(key[i], key[i])
      BY <2>1, BeforeThat
    <3> QED
      BY <3>1, <3>2
  <2> QED
    BY <2>2, <2>3
<1> HIDE DEF before
<1>9. ASSUME NEW i \in D PROVE Cardinality(inFront(i)) = R(key[i])
  <2> DEFINE T == Ahead(K)[key[i]]
             f == [j \in inFront(i) |-> key[j]]
  <2>1. key[i] \in K
    BY <1>5
  <2>2. T = {m \in K : KeyBefore(m, key[i])}
    BY <2>1 DEF Ahead
  <2>3. inFront(i) = {j \in D : KeyBefore(key[j], key[i])}
    BY <1>8
  <2>4. IsFiniteSet(inFront(i))
    <3>1. IsFiniteSet(1..n)
      <4>1. n \in Int /\ 1 \in Int
        BY <1>2
      <4> QED
        BY <4>1, FS_Interval
    <3>2. inFront(i) \in SUBSET (1..n)
      BY <1>2
    <3> QED
      BY <3>1, <3>2, FS_Subset
  <2>5. f \in Bijection(inFront(i), T)
    <3>1. \A j \in inFront(i) : key[j] \in T
      BY <1>5, <2>2, <2>3
    <3>2. f \in [inFront(i) -> T]
      BY <3>1
    <3>3. \A j, m \in inFront(i) : f[j] = f[m] => j = m
      BY <1>6
    <3>4. \A x \in T : \E j \in inFront(i) : f[j] = x
      <4> SUFFICES ASSUME NEW x \in T PROVE \E j \in inFront(i) : f[j] = x
        OBVIOUS
      <4>1. PICK j \in D : x = key[j]
        BY <1>5, <2>2
      <4>2. j \in inFront(i)
        BY <2>2, <2>3, <4>1
      <4> QED
        BY <4>1, <4>2
    <3> HIDE DEF f, T, inFront
    <3> QED
      BY <3>2, <3>3, <3>4 DEF Bijection, Injection, Surjection, IsInjective
  <2>6. ExistsBijection(inFront(i), T)
    BY <2>5 DEF ExistsBijection
  <2> HIDE DEF T, inFront
  <2>7. Cardinality(T) = Cardinality(inFront(i))
    BY <2>4, <2>6, FS_Bijection
  <2> QED
    BY <2>7 DEF T
<1>10. \A a \in K : R(a) \in 0..(n - 1)
  <2> SUFFICES ASSUME NEW a \in K PROVE R(a) \in 0..(n - 1)
    OBVIOUS
  <2>1. Ahead(K)[a] \in SUBSET K /\ a \notin Ahead(K)[a]
    BY <1>7, NoneBeforeItself DEF Ahead
  <2>2. /\ IsFiniteSet(Ahead(K)[a]) /\ Cardinality(Ahead(K)[a]) <= Cardinality(K)
        /\ Cardinality(K) # Cardinality(Ahead(K)[a])
    BY <1>7, <2>1, FS_Subset
  <2>3. Cardinality(Ahead(K)[a]) \in Nat
    BY <2>2, FS_CardinalityType
  <2> QED
    BY <1>2, <1>7, <2>2, <2>3
<1>11. \A i \in D : rank[i] = R(key[i])
  <2> DEFINE f == [i \in D |-> Cardinality(inFront(i))]
  <2>1. \A i \in D : f[i] = R(key[i]) /\ f[i] \in Nat
    <3> HIDE DEF inFront, R, K
    <3> QED
      BY <1>5, <1>9, <1>10
  <2>2. f \in Seq(Nat)
    <3>1. f = [i \in D |-> f[i]]
      OBVIOUS
    <3> HIDE DEF f
    <3> QED
      BY <1>2, <2>1, <3>1
  <2>3. f \o <<>> = f
    <3> HIDE DEF f
    <3> QED
      BY <2>2
  <2> QED
    BY <2>1, <2>3
<1>12. /\ \A a, b \in K : R(a) = R(b) => a = b
       /\ \A k \in 0..(n - 1) : \E a \in K : R(a) = k
  BY <1>7, RanksAreTaken
<1> HIDE DEF rank, inFront, R, K, D, n, t
<1>13. ASSUME NEW k \in D PROVE spot(k) \in D /\ rank[spot(k)] = k - 1
  <2>1. k - 1 \in 0..(n - 1)
    BY <1>2
  <2>2. PICK a \in K : R(a) = k - 1
    BY <1>12, <2>1
  <2>3. \E i \in D : rank[i] = k - 1
    BY <1>5, <1>11, <2>2
  <2> QED
    BY <2>3
<1> HIDE DEF spot
<1>14. \A k \in D : t[k] = s[spot(k)] /\ t[k] \in OfferRecord
  BY <1>1, <1>2, <1>13
<1>15. t \in Seq(OfferRecord) /\ Len(t) = n /\ DOMAIN t = D
  <2>1. DOMAIN t = D /\ t = [k \in D |-> t[k]]
    BY <1>1
  <2> QED
    BY <1>2, <1>14, <2>1
<1>16. \A k \in D : SortKey(way, t[k]) \in K /\ R(SortKey(way, t[k])) = k - 1
  <2> SUFFICES ASSUME NEW k \in D PROVE SortKey(way, t[k]) \in K /\ R(SortKey(way, t[k])) = k - 1
    OBVIOUS
  <2>1. SortKey(way, t[k]) = key[spot(k)]
    BY <1>4, <1>13, <1>14
  <2> QED
    BY <1>5, <1>11, <1>13, <2>1
<1>17. ASSUME NEW i \in D PROVE \E k \in D : t[k] = s[i]
  <2> DEFINE k == R(key[i]) + 1
  <2>1. key[i] \in K /\ R(key[i]) \in 0..(n - 1)
    BY <1>5, <1>10
  <2>2. k \in D /\ k - 1 = R(key[i])
    BY <1>2, <2>1
  <2> HIDE DEF k
  <2>3. R(key[spot(k)]) = R(key[i]) /\ key[spot(k)] \in K
    BY <1>5, <1>11, <1>13, <2>2
  <2>4. spot(k) = i
    BY <1>6, <1>12, <1>13, <2>1, <2>2, <2>3
  <2> QED
    BY <1>14, <2>2, <2>4
<1>18. ToSet(t) = ToSet(s)
  <2>1. ToSet(t) = {t[k] : k \in D} /\ ToSet(s) = {s[i] : i \in D}
    BY <1>15 DEF ToSet, D
  <2>2. \A k \in D : t[k] \in {s[i] : i \in D}
    BY <1>13, <1>14
  <2> QED
    BY <1>17, <2>1, <2>2
<1> QED
  BY <1>2, <1>15, <1>16, <1>18 DEF R, K, D, n, t

(* Lists with the same keys, each once, are sorted alike.                  *)
KeysOf(s) == {Key(s[i]) : i \in DOMAIN s}

(* Two lists of the same keys, each key once, sort into the same keys.     *)
LEMMA SortedAlike ==
  ASSUME NEW way, NEW a \in Seq(OfferRecord), NEW b \in Seq(OfferRecord),
         NoKeyTwice(a), NoKeyTwice(b), KeysOf(a) = KeysOf(b)
  PROVE  LET p == Sorted(way, a)
             q == Sorted(way, b)
         IN [i \in DOMAIN p |-> Key(p[i])] = [i \in DOMAIN q |-> Key(q[i])]
<1> DEFINE p == Sorted(way, a)
           q == Sorted(way, b)
           K == SortKeys(way, a)
<1>1. SortKeys(way, a) = SortKeys(way, b)
  <2>1. \A i \in DOMAIN a : \E j \in DOMAIN b : Key(a[i]) = Key(b[j])
    BY DEF KeysOf
  <2>2. \A j \in DOMAIN b : \E i \in DOMAIN a : Key(a[i]) = Key(b[j])
    BY DEF KeysOf
  <2>3. \A i \in DOMAIN a : a[i] \in OfferRecord
    OBVIOUS
  <2>4. \A j \in DOMAIN b : b[j] \in OfferRecord
    OBVIOUS
  <2>5. \A i \in DOMAIN a, j \in DOMAIN b : Key(a[i]) = Key(b[j]) => SortKey(way, a[i]) = SortKey(way, b[j])
    BY <2>3, <2>4, SortKeyIs
  <2> QED
    BY <2>1, <2>2, <2>5 DEF SortKeys
<1>2. K \in SUBSET [1..8 -> Int] /\ IsFiniteSet(K) /\ Cardinality(K) = Len(a) /\ Cardinality(K) = Len(b)
  BY <1>1, KeysOfAll
<1>3. /\ p \in Seq(OfferRecord) /\ Len(p) = Len(a)
      /\ \A k \in 1..Len(a) : SortKey(way, p[k]) \in K /\ Cardinality(Ahead(K)[SortKey(way, p[k])]) = k - 1
  BY SortedIs
<1>4. /\ q \in Seq(OfferRecord) /\ Len(q) = Len(b)
      /\ \A k \in 1..Len(b) : SortKey(way, q[k]) \in K /\ Cardinality(Ahead(K)[SortKey(way, q[k])]) = k - 1
  BY <1>1, SortedIs
<1> HIDE DEF p, q, K
<1>5. DOMAIN p = 1..Len(a) /\ DOMAIN q = 1..Len(a)
  BY <1>2, <1>3, <1>4
<1>6. \A k \in 1..Len(a) : SortKey(way, p[k]) = SortKey(way, q[k])
  <2> SUFFICES ASSUME NEW k \in 1..Len(a) PROVE SortKey(way, p[k]) = SortKey(way, q[k])
    OBVIOUS
  <2>1. \A x, y \in K : Cardinality(Ahead(K)[x]) = Cardinality(Ahead(K)[y]) => x = y
    BY <1>2, RanksAreTaken
  <2>2. k \in 1..Len(b)
    BY <1>2
  <2>3. /\ SortKey(way, p[k]) \in K /\ Cardinality(Ahead(K)[SortKey(way, p[k])]) = k - 1
        /\ SortKey(way, q[k]) \in K /\ Cardinality(Ahead(K)[SortKey(way, q[k])]) = k - 1
    BY <1>3, <1>4, <2>2
  <2> QED
    BY <2>1, <2>3
<1>7. \A k \in 1..Len(a) : Key(p[k]) = Key(q[k])
  <2> SUFFICES ASSUME NEW k \in 1..Len(a) PROVE Key(p[k]) = Key(q[k])
    OBVIOUS
  <2>1. p[k] \in OfferRecord /\ q[k] \in OfferRecord
    BY <1>3, <1>4, <1>5
  <2> QED
    BY <1>6, <2>1, SortKeyIs
<1> QED
  BY <1>5, <1>7 DEF p, q

(* The list that is made of some offers has one of each key, with the      *)
(* paths of all that have it.                                              *)
LEMMA MaterializedIs ==
  ASSUME NEW s \in Seq(OfferRecord)
  PROVE  /\ Materialized(s) \in Seq(OfferRecord)
         /\ IsKept("list", ToSet(Materialized(s)), ToSet(s))
<1> DEFINE g == Kept(s, "list")
<1>1. g \in Seq(OfferRecord) /\ NoTwoAlike("list", g) /\ IsKept("list", ToSet(g), ToSet(s))
  <2>1. "list" \in Rule
    BY RulesAre
  <2> QED
    BY <2>1, KeptIs
<1>2. NoKeyTwice(g)
  BY <1>1 DEF NoTwoAlike, NoKeyTwice, Class
<1>3. Materialized(s) = Sorted(plan.sort, g)
  BY DEF Materialized, Grouped
<1> HIDE DEF g
<1>4. Sorted(plan.sort, g) \in Seq(OfferRecord) /\ ToSet(Sorted(plan.sort, g)) = ToSet(g)
  BY <1>1, <1>2, SortedIs
<1> QED
  BY <1>1, <1>3, <1>4

(* Lists that are made of offers of the same keys show the same keys.      *)
LEMMA ShownAlike ==
  ASSUME NEW a \in Seq(OfferRecord), NEW b \in Seq(OfferRecord),
         \A x \in ToSet(a) : \E y \in ToSet(b) : Key(x) = Key(y),
         \A y \in ToSet(b) : \E x \in ToSet(a) : Key(x) = Key(y)
  PROVE  LET p == Materialized(a)
             q == Materialized(b)
         IN [i \in DOMAIN p |-> Key(p[i])] = [i \in DOMAIN q |-> Key(q[i])]
<1> DEFINE g == Kept(a, "list")
           h == Kept(b, "list")
<1>1. /\ g \in Seq(OfferRecord) /\ NoTwoAlike("list", g) /\ IsKept("list", ToSet(g), ToSet(a))
      /\ h \in Seq(OfferRecord) /\ NoTwoAlike("list", h) /\ IsKept("list", ToSet(h), ToSet(b))
  <2>1. "list" \in Rule
    BY RulesAre
  <2> QED
    BY <2>1, KeptIs
<1>2. NoKeyTwice(g) /\ NoKeyTwice(h)
  BY <1>1 DEF NoTwoAlike, NoKeyTwice, Class
<1>3. Materialized(a) = Sorted(plan.sort, g) /\ Materialized(b) = Sorted(plan.sort, h)
  BY DEF Materialized, Grouped
<1> HIDE DEF g, h
<1>4. KeysOf(g) = KeysOf(h)
  <2>1. ToSet(g) = {g[i] : i \in DOMAIN g} /\ ToSet(h) = {h[i] : i \in DOMAIN h}
    BY DEF ToSet
  <2>2. \A r \in ToSet(g) : \E r2 \in ToSet(h) : Key(r) = Key(r2)
    BY <1>1 DEF IsKept, Class
  <2>3. \A r2 \in ToSet(h) : \E r \in ToSet(g) : Key(r) = Key(r2)
    BY <1>1 DEF IsKept, Class
  <2>4. KeysOf(g) = {Key(r) : r \in ToSet(g)} /\ KeysOf(h) = {Key(r) : r \in ToSet(h)}
    BY <2>1 DEF KeysOf
  <2> QED
    BY <2>2, <2>3, <2>4
<1> QED
  BY <1>1, <1>2, <1>3, <1>4, SortedAlike

(* No part is answered twice.                                              *)
PartsDiffer(said) == \A i, j \in DOMAIN said : said[i].part = said[j].part => i = j

(* Answers in the order of their parts are the same answers.               *)
LEMMA InPartOrderIs ==
  ASSUME NEW said \in Seq(AnswerRecord), PartsDiffer(said)
  PROVE  InPartOrder(said) \in Seq(AnswerRecord) /\ ToSet(InPartOrder(said)) = ToSet(said)
<1> DEFINE n == Len(said)
           S == DOMAIN said
           fewer(i) == {j \in S : said[j].part < said[i].part}
           A == [i \in S |-> fewer(i)]
           spot(k) == CHOOSE i \in S : Cardinality(fewer(i)) = k - 1
           t == InPartOrder(said)
<1>1. t = [k \in S |-> said[spot(k)]]
  BY DEF InPartOrder
<1>2. n \in Nat /\ S = 1..n /\ \A i \in S : said[i] \in AnswerRecord /\ said[i].part \in Nat
  <2>1. n \in Nat /\ S = 1..n /\ \A i \in S : said[i] \in AnswerRecord
    OBVIOUS
  <2>2. \A a \in AnswerRecord : a.part \in Nat
    BY DEF AnswerRecord
  <2> HIDE DEF S
  <2> QED
    BY <2>1, <2>2
<1>3. IsFiniteSet(S) /\ Cardinality(S) = n
  <2>1. n \in Int /\ 1 \in Int
    BY <1>2
  <2>2. IsFiniteSet(1..n) /\ Cardinality(1..n) = n
    BY <1>2, <2>1, FS_Interval
  <2> QED
    BY <1>2, <2>2
<1>4. A \in [S -> SUBSET S] /\ \A i \in S : A[i] = fewer(i)
  OBVIOUS
<1>5. /\ \A i, j \in S : Cardinality(A[i]) = Cardinality(A[j]) => i = j
      /\ \A k \in 0..(n - 1) : \E i \in S : Cardinality(A[i]) = k
  <2>1. \A i \in S : i \notin A[i]
    BY <1>2
  <2>2. \A i, j \in S : i # j => i \in A[j] \/ j \in A[i]
    BY <1>2 DEF PartsDiffer
  <2>3. \A i, j \in S : i \in A[j] => A[i] \subseteq A[j]
    BY <1>2
  <2> HIDE DEF A, S
  <2> QED
    BY <1>3, <1>4, <2>1, <2>2, <2>3, PlacesAreTaken
<1>6. \A i \in S : Cardinality(A[i]) \in 0..(n - 1)
  <2> SUFFICES ASSUME NEW i \in S PROVE Cardinality(A[i]) \in 0..(n - 1)
    OBVIOUS
  <2>1. A[i] \in SUBSET S /\ A[i] # S
    BY <1>2
  <2> HIDE DEF A, S
  <2>2. IsFiniteSet(A[i]) /\ Cardinality(A[i]) <= n /\ Cardinality(A[i]) # n
    BY <1>3, <2>1, FS_Subset
  <2>3. Cardinality(A[i]) \in Nat
    BY <2>2, FS_CardinalityType
  <2> QED
    BY <1>2, <2>2, <2>3
<1> HIDE DEF A, fewer, S, n, t
<1>7. \A k \in S : spot(k) \in S /\ Cardinality(A[spot(k)]) = k - 1
  <2> SUFFICES ASSUME NEW k \in S PROVE spot(k) \in S /\ Cardinality(A[spot(k)]) = k - 1
    OBVIOUS
  <2>1. k - 1 \in 0..(n - 1)
    BY <1>2
  <2>2. PICK i \in S : Cardinality(A[i]) = k - 1
    BY <1>5, <2>1
  <2>3. \E j \in S : Cardinality(fewer(j)) = k - 1
    BY <1>4, <2>2
  <2>4. spot(k) \in S /\ Cardinality(fewer(spot(k))) = k - 1
    BY <2>3
  <2> QED
    BY <1>4, <2>4
<1> HIDE DEF spot
<1>8. t \in Seq(AnswerRecord) /\ DOMAIN t = S /\ \A k \in S : t[k] = said[spot(k)]
  <2>1. DOMAIN t = S /\ \A k \in S : t[k] = said[spot(k)]
    BY <1>1
  <2>2. \A k \in S : t[k] \in AnswerRecord
    BY <1>2, <1>7, <2>1
  <2>3. t = [k \in S |-> t[k]]
    BY <1>1
  <2> QED
    BY <1>2, <2>1, <2>2, <2>3
<1>9. \A i \in S : \E k \in S : t[k] = said[i]
  <2> SUFFICES ASSUME NEW i \in S PROVE \E k \in S : t[k] = said[i]
    OBVIOUS
  <2> DEFINE k == Cardinality(A[i]) + 1
  <2>1. Cardinality(A[i]) \in 0..(n - 1)
    BY <1>6
  <2>2. k \in S /\ k - 1 = Cardinality(A[i])
    BY <1>2, <2>1
  <2> HIDE DEF k
  <2>3. spot(k) = i
    BY <1>5, <1>7, <2>2
  <2> QED
    BY <1>8, <2>2, <2>3
<1>10. ToSet(t) = {t[k] : k \in S} /\ ToSet(said) = {said[i] : i \in S}
  BY <1>8 DEF ToSet, S
<1>11. ToSet(t) = ToSet(said)
  <2>1. \A k \in S : \E i \in S : t[k] = said[i]
    BY <1>7, <1>8
  <2> QED
    BY <1>9, <1>10, <2>1
<1> QED
  BY <1>8, <1>11 DEF t

(* Each schedule of a group leads to one of the list's offers.             *)
LEMMA GroupsAre ==
  ASSUME NEW s \in Seq(OfferRecord), NEW g \in ScheduleGroups(s)
  PROVE  /\ {s[c].out : c \in g.combinations} = g.outbound
         /\ {s[c].in : c \in g.combinations} = g.inbound
         /\ Cardinality({<<s[c].out, s[c].in>> : c \in g.combinations}) = Cardinality(g.combinations)
         /\ Cardinality({s[c].price : c \in g.combinations}) = 1
<1> DEFINE members(b) == {i \in DOMAIN s : Bucket(s[i]) = b}
           way(i) == <<s[i].out, s[i].in>>
           firsts(b) ==
             {i \in members(b) : \A j \in members(b) :
                <<s[j].out, s[j].in>> = <<s[i].out, s[i].in>> => i <= j}
           cut(b) == \E i \in members(b) : s[i].truncated
           group(b) ==
             [outbound |-> {s[i].out : i \in members(b)}, inbound |-> {s[i].in : i \in members(b)},
              combinations |-> firsts(b), truncated |-> cut(b)]
           buckets == {Bucket(s[i]) : i \in DOMAIN s}
<1>0. ScheduleGroups(s) = {group(b) : b \in {c \in buckets : Cardinality(firsts(c)) > 1}}
  BY Zenon DEF ScheduleGroups
<1>1. PICK b : /\ Cardinality(firsts(b)) > 1
               /\ g.outbound = {s[i].out : i \in members(b)}
               /\ g.inbound = {s[i].in : i \in members(b)}
               /\ g.combinations = firsts(b)
  <2> DEFINE outs(b) == {s[i].out : i \in members(b)}
             ins(b) == {s[i].in : i \in members(b)}
  <2> HIDE DEF firsts, cut, buckets
  <2>1. PICK b : Cardinality(firsts(b)) > 1 /\ g = group(b)
    <3> HIDE DEF group
    <3> QED
      BY <1>0
  <2> HIDE DEF members, outs, ins
  <2>2. group(b) = [outbound |-> outs(b), inbound |-> ins(b), combinations |-> firsts(b), truncated |-> cut(b)]
    BY DEF outs, ins
  <2> HIDE DEF group
  <2>3. g.outbound = outs(b) /\ g.inbound = ins(b) /\ g.combinations = firsts(b)
    BY <2>1, <2>2
  <2> QED
    BY <2>1, <2>3 DEF outs, ins
<1> DEFINE M == members(b)
           C == firsts(b)
<1>2. M \in SUBSET Nat /\ M \in SUBSET (1..Len(s)) /\ Len(s) \in Nat
  OBVIOUS
<1>3. C \subseteq M
  OBVIOUS
<1>4. \A i \in M : \E c \in C : way(c) = way(i)
  <2> SUFFICES ASSUME NEW i \in M PROVE \E c \in C : way(c) = way(i)
    OBVIOUS
  <2> DEFINE T == {j \in M : way(j) = way(i)}
  <2>1. T \in SUBSET Nat /\ T # {}
    BY <1>2
  <2>2. \E c \in T : \A j \in T : c <= j
    <3> HIDE DEF T
    <3> QED
      BY <2>1, SmallestOf
  <2>3. PICK c \in T : \A j \in T : c <= j
    BY <2>2
  <2>4. c \in C
    BY <2>3
  <2> QED
    BY <2>3, <2>4
<1>5. \A c, e \in C : way(c) = way(e) => c = e
  BY <1>2
<1>6. \A c \in C : Bucket(s[c]) = b
  OBVIOUS
<1>7. \A i, c \in Nat : way(c) = way(i) => s[c].out = s[i].out /\ s[c].in = s[i].in
  OBVIOUS
<1> HIDE DEF M, C, way, members, firsts, cut, group, buckets
<1>8. {s[c].out : c \in C} = {s[i].out : i \in M} /\ {s[c].in : c \in C} = {s[i].in : i \in M}
  <2>1. \A i \in M : \E c \in C : s[c].out = s[i].out /\ s[c].in = s[i].in
    <3> SUFFICES ASSUME NEW i \in M PROVE \E c \in C : s[c].out = s[i].out /\ s[c].in = s[i].in
      OBVIOUS
    <3>1. PICK c \in C : way(c) = way(i)
      BY <1>4
    <3>2. i \in Nat /\ c \in Nat
      BY <1>2, <1>3
    <3> QED
      BY <1>7, <3>1, <3>2
  <2>2. {s[c].out : c \in C} = {s[i].out : i \in M}
    BY <1>3, <2>1
  <2>3. {s[c].in : c \in C} = {s[i].in : i \in M}
    BY <1>3, <2>1
  <2> QED
    BY <2>2, <2>3
<1>9. IsFiniteSet(C)
  <2>1. Len(s) \in Int /\ 1 \in Int
    BY <1>2
  <2>2. IsFiniteSet(1..Len(s))
    BY <2>1, FS_Interval
  <2>3. C \in SUBSET (1..Len(s))
    BY <1>2, <1>3
  <2> QED
    BY <2>2, <2>3, FS_Subset
<1>10. Cardinality({way(c) : c \in C}) = Cardinality(C)
  <2> DEFINE f == [c \in C |-> way(c)]
             W == {way(c) : c \in C}
  <2>1. f \in [C -> W] /\ (\A c, e \in C : f[c] = f[e] => c = e) /\ \A w \in W : \E c \in C : f[c] = w
    BY <1>5
  <2> HIDE DEF f, W
  <2>2. f \in Bijection(C, W)
    BY <2>1 DEF Bijection, Injection, Surjection, IsInjective
  <2>3. ExistsBijection(C, W)
    BY <2>2 DEF ExistsBijection
  <2>4. Cardinality(W) = Cardinality(C)
    BY <1>9, <2>3, FS_Bijection
  <2> QED
    BY <2>4 DEF W
<1>11. Cardinality({s[c].price : c \in C}) = 1
  <2>1. C # {}
    <3>1. Cardinality(C) > 1
      BY <1>1 DEF C
    <3>2. Cardinality({}) = 0
      BY FS_EmptySet
    <3>3. ~(0 > 1)
      OBVIOUS
    <3> QED
      BY <3>1, <3>2, <3>3, Zenon
  <2>2. \A c \in C : s[c].price = b[4]
    BY <1>6 DEF Bucket
  <2>3. {s[c].price : c \in C} = {b[4]}
    BY <2>1, <2>2
  <2> QED
    BY <2>3, FS_Singleton
<1> QED
  BY <1>1, <1>8, <1>10, <1>11 DEF M, C, way

(* What is kept of the answers of different days is kept of them together. *)
LEMMA KeptTogether ==
  ASSUME NEW p \in Provider, NEW R, NEW Q,
         NEW X \in SUBSET OfferRecord, NEW Y \in SUBSET OfferRecord,
         IsKept(p, R, X), IsKept(p, Q, Y), \A x \in X, y \in Y : x.day # y.day
  PROVE  IsKept(p, R \union Q, X \union Y)
<1>1. p # "list"
  BY RulesAre
<1>2. R \subseteq X /\ Q \subseteq Y
  BY <1>1 DEF IsKept
<1>3. \A x \in X, y \in Y : Class(p, x) # Class(p, y)
  BY <1>1 DEF Class
<1>4. ASSUME NEW r \in R \union Q
      PROVE  /\ r \in X \union Y
             /\ \A x \in X \union Y : Class(p, x) = Class(p, r) => ~Better(p, x, r)
  BY <1>1, <1>2, <1>3 DEF IsKept
<1>5. \A x \in X \union Y : \E r \in R \union Q : Class(p, x) = Class(p, r)
  BY DEF IsKept
<1> QED
  BY <1>1, <1>4, <1>5 DEF IsKept

(* All a provider said in some answers is its own, and of their days.      *)
LEMMA SaidFits ==
  ASSUME NEW p \in Provider, NEW T \in SUBSET AnswerRecord, NEW o \in SaidBy(p, T)
  PROVE  o \in OfferRecord /\ o.paths = {p} /\ \E a \in T : o.day = a.day /\ o \in ToSet(Mapped(p, a))
<1>1. PICK a \in T : o \in ToSet(Mapped(p, a))
  BY DEF SaidBy
<1>2. Mapped(p, a) \in Seq(OffersOf(p, a.day))
  BY MappedFits
<1> DEFINE S == OffersOf(p, a.day)  m == Mapped(p, a)
<1> HIDE DEF S, m
<1>3. m \in Seq(S) /\ o \in ToSet(m)
  BY <1>1, <1>2 DEF S, m
<1>4. o \in S
  BY <1>3 DEF ToSet
<1> QED
  BY <1>1, <1>4 DEF S, OffersOf

(* An answer that holds no fare says nothing.                              *)
LEMMA NothingSaid ==
  ASSUME NEW p, NEW answer, answer.fares = <<>>
  PROVE  ToSet(Mapped(p, answer)) = {}
<1> DEFINE ss == [n \in DOMAIN answer.fares |->
                    IF p = "agil-local" THEN MapGroup(answer, n) ELSE MapRecommendation(answer, n)]
<1>1. ss = <<>>
  OBVIOUS
<1>2. Mapped(p, answer) = FlattenSeq(<<>>)
  BY <1>1 DEF Mapped
<1>3. <<>> \in Seq(Seq(Int)) /\ Len(<<>>) = 0
  OBVIOUS
<1> DEFINE none == <<>>
<1> HIDE DEF none
<1>4. none \in Seq(Seq(Int)) /\ Len(none) = 0
  BY <1>3 DEF none
<1>5. \A x : x \in ToSet(FlattenSeq(none)) <=> \E i \in 1..Len(none) : x \in ToSet(none[i])
  BY <1>4, FlattenHolds
<1>6. ToSet(FlattenSeq(none)) = {}
  BY <1>4, <1>5
<1> QED
  BY <1>2, <1>6 DEF none

(* One more answer says more.                                              *)
LEMMA SaidMore ==
  ASSUME NEW p, NEW said \in Seq(AnswerRecord), NEW answer \in AnswerRecord
  PROVE  /\ ToSet(Append(said, answer)) = ToSet(said) \union {answer}
         /\ SaidBy(p, ToSet(Append(said, answer)))
              = SaidBy(p, ToSet(said)) \union ToSet(Mapped(p, answer))
<1> DEFINE n == Len(said)  t == Append(said, answer)
<1>1. n \in Nat /\ DOMAIN said = 1..n
  OBVIOUS
<1>2. DOMAIN t = 1..(n + 1) /\ t[n + 1] = answer /\ \A i \in 1..n : t[i] = said[i]
  OBVIOUS
<1>3. ToSet(said) = {said[i] : i \in 1..n}
  BY <1>1 DEF ToSet
<1> HIDE DEF n, t
<1>4. ToSet(t) = {t[i] : i \in 1..(n + 1)}
  BY <1>2 DEF ToSet
<1>5. ToSet(t) = ToSet(said) \union {answer}
  <2>1. \A i \in 1..(n + 1) : i \in 1..n \/ i = n + 1
    BY <1>1
  <2>2. 1..n \subseteq 1..(n + 1) /\ n + 1 \in 1..(n + 1)
    BY <1>1
  <2> QED
    BY <1>2, <1>3, <1>4, <2>1, <2>2
<1>6. SaidBy(p, ToSet(said) \union {answer}) = SaidBy(p, ToSet(said)) \union ToSet(Mapped(p, answer))
  BY DEF SaidBy
<1> QED
  BY <1>5, <1>6 DEF t

(* A provider reports the best of all it said, or of one answer.           *)
LEMMA DedupedIs ==
  ASSUME NEW p \in Provider, NEW s \in Seq(OfferRecord)
  PROVE  Deduped(p, s) \in Seq(OfferRecord) /\ IsKept(p, ToSet(Deduped(p, s)), ToSet(s))
<1>1. p \in Rule /\ (p = "agil-local" \/ p = "costamar")
  BY DEF Rule, Provider
<1>2. Deduped(p, s) = Kept(s, p)
  BY <1>1 DEF Deduped, DedupeAgil, DedupeCostamar
<1>3. Kept(s, p) \in Seq(OfferRecord) /\ IsKept(p, ToSet(Kept(s, p)), ToSet(s))
  BY <1>1, KeptIs
<1> QED
  BY <1>2, <1>3

(* A provider that reports all it said reports the best of each fare.      *)
LEMMA AllIsKept ==
  ASSUME NEW p \in Provider, NEW said \in Seq(AnswerRecord)
  PROVE  /\ Deduped(p, AllMapped(p, said)) \in Seq(OfferRecord)
         /\ IsKept(p, ToSet(Deduped(p, AllMapped(p, said))), SaidBy(p, ToSet(said)))
<1>1. AllMapped(p, said) \in Seq(OfferRecord) /\ ToSet(AllMapped(p, said)) = SaidBy(p, ToSet(said))
  BY ToldIs
<1> DEFINE all == AllMapped(p, said)
<1> HIDE DEF all
<1>2. all \in Seq(OfferRecord) /\ ToSet(all) = SaidBy(p, ToSet(said))
  BY <1>1 DEF all
<1>3. Deduped(p, all) \in Seq(OfferRecord) /\ IsKept(p, ToSet(Deduped(p, all)), ToSet(all))
  BY <1>2, DedupedIs
<1> QED
  BY <1>2, <1>3 DEF all

(* So it does of one answer, whose offers are of its day.                  *)
LEMMA OneIsKept ==
  ASSUME NEW p \in Provider, NEW answer \in AnswerRecord
  PROVE  /\ Deduped(p, Mapped(p, answer)) \in Seq(OfferRecord)
         /\ IsKept(p, ToSet(Deduped(p, Mapped(p, answer))), ToSet(Mapped(p, answer)))
         /\ \A o \in ToSet(Mapped(p, answer)) : o \in OfferRecord /\ o.paths = {p} /\ o.day = answer.day
<1> DEFINE S == OffersOf(p, answer.day)  m == Mapped(p, answer)
<1>1. m \in Seq(S)
  BY MappedFits
<1>2. \A o \in S : o \in OfferRecord /\ o.paths = {p} /\ o.day = answer.day
  BY DEF OffersOf
<1> HIDE DEF S, m
<1>3. m \in Seq(OfferRecord) /\ \A o \in ToSet(m) : o \in S
  BY <1>1, <1>2 DEF ToSet
<1>4. Deduped(p, m) \in Seq(OfferRecord) /\ IsKept(p, ToSet(Deduped(p, m)), ToSet(m))
  BY <1>3, DedupedIs
<1> QED
  BY <1>2, <1>3, <1>4 DEF m

(* A report is of all that was said, or of what was said beside the rest.  *)
ProviderResult == [offers : Seq(OfferRecord), partial : BOOLEAN, completed : BOOLEAN, fresh : BOOLEAN]

(* Merged into what is shown, a report leaves the best of all that was     *)
(* said.                                                                   *)
LEMMA MergedIs ==
  ASSUME NEW p \in Provider, NEW c \in ProviderResult, NEW u, u.offers \in Seq(OfferRecord),
         NEW X \in SUBSET OfferRecord, NEW Y \in SUBSET OfferRecord,
         c.fresh => IsKept(p, ToSet(c.offers), X), ~c.fresh => X = {},
         \/ u.incremental = TRUE /\ IsKept(p, ToSet(u.offers), Y) /\ \A x \in X, y \in Y : x.day # y.day
         \/ u.incremental = FALSE /\ IsKept(p, ToSet(u.offers), X \union Y)
  PROVE  /\ Merged(c, u) \in ProviderResult /\ Merged(c, u).fresh = TRUE
         /\ IsKept(p, ToSet(Merged(c, u).offers), X \union Y)
<1>1. c.offers \in Seq(OfferRecord) /\ c.fresh \in BOOLEAN
  BY DEF ProviderResult
<1>2. CASE u.incremental = TRUE /\ c.fresh
  <2>1. Merged(c, u) = [c EXCEPT !.offers = c.offers \o u.offers, !.partial = TRUE, !.completed = FALSE]
    BY <1>2 DEF Merged
  <2> DEFINE both == c.offers \o u.offers
             m == [c EXCEPT !.offers = both, !.partial = TRUE, !.completed = FALSE]
  <2>2. both \in Seq(OfferRecord) /\ ToSet(both) = ToSet(c.offers) \union ToSet(u.offers)
    BY <1>1, JoinedHolds
  <2> HIDE DEF both
  <2>3. m \in ProviderResult /\ m.fresh = c.fresh /\ m.offers = both
    BY <2>2 DEF ProviderResult
  <2>4. IsKept(p, ToSet(c.offers) \union ToSet(u.offers), X \union Y)
    <3>1. IsKept(p, ToSet(c.offers), X) /\ IsKept(p, ToSet(u.offers), Y) /\ \A x \in X, y \in Y : x.day # y.day
      BY <1>2
    <3> DEFINE R == ToSet(c.offers)  Q == ToSet(u.offers)
    <3> HIDE DEF R, Q
    <3>2. IsKept(p, R, X) /\ IsKept(p, Q, Y) /\ \A x \in X, y \in Y : x.day # y.day
      BY <3>1 DEF R, Q
    <3>3. IsKept(p, R \union Q, X \union Y)
      BY <3>2, KeptTogether
    <3> QED
      BY <3>3 DEF R, Q
  <2>5. c.fresh = TRUE
    BY <1>1, <1>2
  <2>6. Merged(c, u) = m
    BY <2>1 DEF both
  <2> HIDE DEF m
  <2> QED
    BY <2>2, <2>3, <2>4, <2>5, <2>6
<1>3. CASE ~(u.incremental = TRUE /\ c.fresh)
  <2> DEFINE m == [offers |-> u.offers, partial |-> TRUE, completed |-> FALSE, fresh |-> TRUE]
  <2>1. Merged(c, u) = m
    BY <1>3 DEF Merged
  <2>2. m \in ProviderResult /\ m.fresh = TRUE /\ m.offers = u.offers
    BY DEF ProviderResult
  <2>3. IsKept(p, ToSet(u.offers), X \union Y)
    <3>1. CASE u.incremental = TRUE
      <4>1. X \union Y = Y
        BY <1>3, <3>1
      <4> QED
        BY <3>1, <4>1
    <3>2. CASE u.incremental = FALSE
      BY <3>2
    <3> QED
      BY <3>1, <3>2
  <2> HIDE DEF m
  <2> QED
    BY <2>1, <2>2, <2>3
<1> QED
  BY <1>2, <1>3

(* What a provider has said, what it has left out, and what of it is       *)
(* shown: the best of each fare, or until it first reports what an earlier *)
(* search left.                                                            *)
DayIn(mode, n) == IF mode = "range" THEN n ELSE 1
PartsOf(said) == {said[i].part : i \in DOMAIN said}
ProviderIs(p, mode, said, result, out) ==
  /\ said \in Seq(AnswerRecord) /\ PartsDiffer(said)
  /\ \A i \in DOMAIN said : said[i].day = DayIn(mode, said[i].part)
  /\ out \in SUBSET Nat
  /\ PartsOf(said) \union out \subseteq Parts(p, mode) /\ PartsOf(said) \intersect out = {}
  /\ result \in ProviderResult /\ \A o \in ToSet(result.offers) : o.paths = {p}
  /\ ~result.fresh => said = <<>>
  /\ result.fresh => IsKept(p, ToSet(result.offers), SaidBy(p, ToSet(said)))

OffersIInv ==
  /\ plan \in Plan
  /\ answers \in [Provider -> Seq(AnswerRecord)]
  /\ results \in [Provider -> ProviderResult]
  /\ dropped \in [Provider -> SUBSET Nat]
  /\ \A p \in Provider : ProviderIs(p, plan.mode, answers[p], results[p], dropped[p])

(* A report of what was said before with one more answer, which is of a    *)
(* part nobody answered, or with none.                                     *)
LEMMA ReportKeeps ==
  ASSUME OffersIInv, NEW p \in Provider, NEW answer \in AnswerRecord, answer.day = DayIn(plan.mode, answer.part),
         answer.part \notin PartsOf(answers[p]),
         NEW said \in Seq(AnswerRecord),
         \/ said = Append(answers[p], answer)
         \/ said = answers[p] /\ answer.fares = <<>>
  PROVE  LET r == Merged(results[p], Update(p, said, answer))
         IN /\ r \in ProviderResult /\ r.fresh = TRUE /\ \A o \in ToSet(r.offers) : o.paths = {p}
            /\ IsKept(p, ToSet(r.offers), SaidBy(p, ToSet(said)))
<1> DEFINE c == results[p]
           u == Update(p, said, answer)
           X == SaidBy(p, ToSet(answers[p]))
           Y == ToSet(Mapped(p, answer))
           Z == SaidBy(p, ToSet(said))
<1>1. ProviderIs(p, plan.mode, answers[p], c, dropped[p]) /\ answers[p] \in Seq(AnswerRecord) /\ c \in ProviderResult
  BY DEF OffersIInv
<1>2. ToSet(answers[p]) \in SUBSET AnswerRecord /\ ToSet(said) \in SUBSET AnswerRecord
  BY <1>1 DEF ToSet
<1>3. Z = X \union Y
  <2>1. CASE said = Append(answers[p], answer)
    BY <1>1, <2>1, SaidMore
  <2>2. CASE said = answers[p] /\ answer.fares = <<>>
    <3>1. Y = {}
      BY <2>2, NothingSaid
    <3> HIDE DEF Y
    <3> QED
      BY <2>2, <3>1
  <2> QED
    BY <2>1, <2>2
<1>4. X \in SUBSET OfferRecord
  <2> HIDE DEF X
  <2>1. \A o \in X : o \in OfferRecord
    BY <1>2, SaidFits DEF X
  <2> QED
    BY <2>1
<1>5. \A o \in Z : o \in OfferRecord /\ o.paths = {p}
  BY <1>2, SaidFits
<1>6. /\ Deduped(p, Mapped(p, answer)) \in Seq(OfferRecord)
      /\ IsKept(p, ToSet(Deduped(p, Mapped(p, answer))), Y)
      /\ \A o \in Y : o \in OfferRecord /\ o.day = answer.day
  BY OneIsKept
<1>7. /\ Deduped(p, AllMapped(p, said)) \in Seq(OfferRecord)
      /\ IsKept(p, ToSet(Deduped(p, AllMapped(p, said))), Z)
  BY AllIsKept
<1>8. c.fresh => IsKept(p, ToSet(c.offers), X)
  BY <1>1 DEF ProviderIs
<1>9. ~c.fresh => X = {}
  <2> SUFFICES ASSUME ~c.fresh PROVE X = {}
    OBVIOUS
  <2>1. answers[p] = <<>>
    BY <1>1 DEF ProviderIs
  <2>2. ToSet(answers[p]) = {}
    BY <2>1 DEF ToSet
  <2> QED
    BY <2>2 DEF SaidBy
<1>10. CASE plan.mode = "range"
  <2>1. u = [offers |-> Deduped(p, Mapped(p, answer)), incremental |-> TRUE]
    BY <1>10 DEF Update
  <2>2. u.offers = Deduped(p, Mapped(p, answer)) /\ u.incremental = TRUE
    BY <2>1
  <2>3. \A x \in X, y \in Y : x.day # y.day
    <3> SUFFICES ASSUME NEW x \in X, NEW y \in Y PROVE x.day # y.day
      OBVIOUS
    <3>1. PICK a \in ToSet(answers[p]) : x.day = a.day
      BY <1>2, SaidFits
    <3>2. PICK i \in DOMAIN answers[p] : a = answers[p][i]
      BY <3>1 DEF ToSet
    <3>3. a.day = a.part
      BY <1>1, <1>10, <3>2 DEF ProviderIs, DayIn
    <3>4. a.part # answer.part
      BY <3>2 DEF PartsOf
    <3>5. y.day = answer.part
      BY <1>6, <1>10 DEF DayIn
    <3> QED
      BY <3>1, <3>3, <3>4, <3>5
  <2>4. IsKept(p, ToSet(u.offers), Y) /\ u.offers \in Seq(OfferRecord)
    BY <1>6, <2>2
  <2>5. Y \in SUBSET OfferRecord
    BY <1>6
  <2> HIDE DEF X, Y, Z, c, u
  <2>6. /\ Merged(c, u) \in ProviderResult /\ Merged(c, u).fresh = TRUE
        /\ IsKept(p, ToSet(Merged(c, u).offers), X \union Y)
    BY <1>1, <1>4, <1>8, <1>9, <2>2, <2>3, <2>4, <2>5, MergedIs
  <2> DEFINE m == Merged(c, u)
  <2> HIDE DEF m
  <2>7. m \in ProviderResult /\ m.fresh = TRUE /\ IsKept(p, ToSet(m.offers), Z)
    BY <1>3, <2>6 DEF m
  <2>8. \A o \in ToSet(m.offers) : o.paths = {p}
    <3>1. p # "list"
      BY RulesAre
    <3> QED
      BY <1>5, <2>7, <3>1 DEF IsKept
  <2> QED
    BY <2>7, <2>8 DEF m, c, u, Z
<1>11. CASE plan.mode # "range"
  <2>1. u = [offers |-> Deduped(p, AllMapped(p, said)), incremental |-> FALSE]
    BY <1>11 DEF Update
  <2>2. u.offers = Deduped(p, AllMapped(p, said)) /\ u.incremental = FALSE
    BY <2>1
  <2>4. IsKept(p, ToSet(u.offers), X \union Y) /\ u.offers \in Seq(OfferRecord)
    BY <1>3, <1>7, <2>2
  <2>5. Y \in SUBSET OfferRecord
    BY <1>6
  <2> HIDE DEF X, Y, Z, c, u
  <2>6. /\ Merged(c, u) \in ProviderResult /\ Merged(c, u).fresh = TRUE
        /\ IsKept(p, ToSet(Merged(c, u).offers), X \union Y)
    BY <1>1, <1>4, <1>8, <1>9, <2>2, <2>4, <2>5, MergedIs
  <2> DEFINE m == Merged(c, u)
  <2> HIDE DEF m
  <2>7. m \in ProviderResult /\ m.fresh = TRUE /\ IsKept(p, ToSet(m.offers), Z)
    BY <1>3, <2>6 DEF m
  <2>8. \A o \in ToSet(m.offers) : o.paths = {p}
    <3>1. p # "list"
      BY RulesAre
    <3> QED
      BY <1>5, <2>7, <3>1 DEF IsKept
  <2> QED
    BY <2>7, <2>8 DEF m, c, u, Z
<1> QED
  BY <1>10, <1>11

(* Of nothing, nothing is kept.                                            *)
LEMMA NothingIsKept == ASSUME NEW rule PROVE IsKept(rule, {}, {})
BY DEF IsKept

(* What a part answers is a list of fares.                                 *)
LEMMA OneFareIs == OneFare \subseteq Seq(Fare)
<1>1. ASSUME NEW f \in Fare PROVE <<f>> \in Seq(Fare)
  OBVIOUS
<1>2. <<>> \in Seq(Fare)
  OBVIOUS
<1> QED
  BY <1>1, <1>2 DEF OneFare

(* Parts are numbers.                                                      *)
LEMMA PartsFit ==
  ASSUME NEW p \in Provider, NEW mode
  PROVE  Parts(p, mode) \subseteq Nat
BY OffersAssumption DEF Parts

(* One provider's answers, left parts and results change at a time.        *)
LEMMA OneProviderChanges ==
  ASSUME OffersIInv, NEW p \in Provider, NEW said, NEW r, NEW out,
         ProviderIs(p, plan.mode, said, r, out), plan' = plan,
         answers' = [answers EXCEPT ![p] = said], results' = [results EXCEPT ![p] = r],
         dropped' = [dropped EXCEPT ![p] = out]
  PROVE  OffersIInv'
<1>1. said \in Seq(AnswerRecord) /\ r \in ProviderResult /\ out \in SUBSET Nat
  BY DEF ProviderIs
<1>2. /\ plan \in Plan /\ answers \in [Provider -> Seq(AnswerRecord)]
      /\ results \in [Provider -> ProviderResult] /\ dropped \in [Provider -> SUBSET Nat]
      /\ \A q \in Provider : ProviderIs(q, plan.mode, answers[q], results[q], dropped[q])
  BY DEF OffersIInv
<1>3. /\ answers' \in [Provider -> Seq(AnswerRecord)] /\ results' \in [Provider -> ProviderResult]
      /\ dropped' \in [Provider -> SUBSET Nat]
  BY <1>1, <1>2
<1>4. \A q \in Provider : ProviderIs(q, plan.mode, answers'[q], results'[q], dropped'[q])
  <2> SUFFICES ASSUME NEW q \in Provider
               PROVE  ProviderIs(q, plan.mode, answers'[q], results'[q], dropped'[q])
    OBVIOUS
  <2>1. CASE q = p
    <3>1. answers'[q] = said /\ results'[q] = r /\ dropped'[q] = out
      BY <1>2, <2>1
    <3> QED
      BY <2>1, <3>1
  <2>2. CASE q # p
    <3>1. answers'[q] = answers[q] /\ results'[q] = results[q] /\ dropped'[q] = dropped[q]
      BY <1>2, <2>2
    <3> QED
      BY <1>2, <3>1
  <2> QED
    BY <2>1, <2>2
<1> QED
  BY <1>2, <1>3, <1>4 DEF OffersIInv

(* A search begins with nothing answered, over what an earlier one left.   *)
LEMMA OffersStart == OffersInit => OffersIInv
<1> SUFFICES ASSUME OffersInit PROVE OffersIInv
  OBVIOUS
<1>1. PICK fares \in OneFare :
        results = [p \in Provider |->
          Nothing(p, IF p = "agil-local" THEN Mapped(p, [part |-> 1, day |-> 1, fares |-> fares]) ELSE <<>>)]
  BY DEF OffersInit
<1> DEFINE answer == [part |-> 1, day |-> 1, fares |-> fares]
           cached(p) == IF p = "agil-local" THEN Mapped(p, answer) ELSE <<>>
<1>2. answer \in AnswerRecord
  <2>1. fares \in Seq(Fare)
    BY OneFareIs
  <2> QED
    BY <2>1 DEF AnswerRecord
<1>3. results = [p \in Provider |-> Nothing(p, cached(p))]
  BY <1>1
<1>4. ASSUME NEW p \in Provider
      PROVE  cached(p) \in Seq(OfferRecord) /\ \A o \in ToSet(cached(p)) : o.paths = {p}
  <2>1. CASE p = "agil-local"
    <3> DEFINE m == Mapped(p, answer)  S == OffersOf(p, answer.day)
    <3>1. m \in Seq(S)
      BY <1>2, MappedFits
    <3>2. \A o \in S : o \in OfferRecord /\ o.paths = {p}
      BY DEF OffersOf
    <3>3. cached(p) = m
      BY <2>1
    <3> HIDE DEF m, S, cached
    <3>4. m \in Seq(OfferRecord) /\ \A o \in ToSet(m) : o \in S
      BY <3>1, <3>2 DEF ToSet
    <3> QED
      BY <3>2, <3>3, <3>4
  <2>2. CASE p # "agil-local"
    <3>1. cached(p) = <<>>
      BY <2>2
    <3>2. <<>> \in Seq(OfferRecord) /\ ToSet(<<>>) = {}
      BY DEF ToSet
    <3> HIDE DEF cached
    <3> QED
      BY <3>1, <3>2
  <2> QED
    BY <2>1, <2>2
<1> HIDE DEF answer, cached
<1>5. ASSUME NEW p \in Provider
      PROVE  /\ results[p] \in ProviderResult /\ results[p].fresh = FALSE
             /\ \A o \in ToSet(results[p].offers) : o.paths = {p}
  <2> DEFINE r == Nothing(p, cached(p))
  <2>1. results[p] = r
    BY <1>3
  <2>2. r \in ProviderResult /\ r.fresh = FALSE /\ r.offers = cached(p)
    BY <1>4 DEF Nothing, ProviderResult
  <2> HIDE DEF r
  <2> QED
    BY <1>4, <2>1, <2>2
<1>6. /\ plan \in Plan /\ answers \in [Provider -> Seq(AnswerRecord)] /\ dropped \in [Provider -> SUBSET Nat]
      /\ \A p \in Provider : answers[p] = <<>> /\ dropped[p] = {}
  BY DEF OffersInit
<1>7. results \in [Provider -> ProviderResult]
  <2>1. DOMAIN results = Provider /\ results = [p \in Provider |-> results[p]]
    BY <1>3
  <2> QED
    BY <1>5, <2>1
<1>8. ASSUME NEW p \in Provider PROVE ProviderIs(p, plan.mode, answers[p], results[p], dropped[p])
  <2>1. <<>> \in Seq(AnswerRecord) /\ PartsDiffer(<<>>) /\ PartsOf(<<>>) = {}
    BY DEF PartsDiffer, PartsOf
  <2>2. \A i \in DOMAIN <<>> : <<>>[i].day = DayIn(plan.mode, <<>>[i].part)
    OBVIOUS
  <2> QED
    BY <1>5, <1>6, <2>1, <2>2 DEF ProviderIs
<1> QED
  BY <1>6, <1>7, <1>8 DEF OffersIInv

(* Answers of parts that differ, each of the day of its part.              *)
InTurn(mode, said) ==
  /\ said \in Seq(AnswerRecord) /\ PartsDiffer(said)
  /\ \A i \in DOMAIN said : said[i].day = DayIn(mode, said[i].part)

(* One more answer is of one more part, and of its day.                    *)
LEMMA OneMorePart ==
  ASSUME NEW mode, NEW said, InTurn(mode, said), NEW answer \in AnswerRecord,
         answer.part \notin PartsOf(said), answer.day = DayIn(mode, answer.part)
  PROVE  /\ InTurn(mode, Append(said, answer))
         /\ PartsOf(Append(said, answer)) = PartsOf(said) \union {answer.part}
<1> DEFINE n == Len(said)  t == Append(said, answer)
<1>0. /\ said \in Seq(AnswerRecord) /\ PartsDiffer(said)
      /\ \A i \in DOMAIN said : said[i].day = DayIn(mode, said[i].part)
  BY DEF InTurn
<1>1. n \in Nat /\ DOMAIN said = 1..n
  BY <1>0
<1>2. t \in Seq(AnswerRecord) /\ DOMAIN t = 1..(n + 1) /\ t[n + 1] = answer /\ \A i \in 1..n : t[i] = said[i]
  BY <1>0
<1> HIDE DEF n, t
<1>3. \A i \in 1..(n + 1) : i \in 1..n \/ i = n + 1
  BY <1>1
<1>4. 1..n \subseteq 1..(n + 1) /\ n + 1 \in 1..(n + 1)
  BY <1>1
<1>5. \A i \in 1..n : said[i].part # answer.part
  BY <1>1 DEF PartsOf
<1>6. PartsDiffer(t)
  BY <1>0, <1>1, <1>2, <1>3, <1>5 DEF PartsDiffer
<1>7. PartsOf(t) = PartsOf(said) \union {answer.part}
  BY <1>1, <1>2, <1>3, <1>4 DEF PartsOf
<1>8. \A i \in DOMAIN t : t[i].day = DayIn(mode, t[i].part)
  BY <1>0, <1>1, <1>2, <1>3
<1> QED
  BY <1>2, <1>6, <1>7, <1>8 DEF t, InTurn

(* An answer, a failure and a provider's last word keep what is known.     *)
LEMMA OffersStep == OffersIInv /\ [OffersNext]_offersVars => OffersIInv'
<1> SUFFICES ASSUME OffersIInv, [OffersNext]_offersVars PROVE OffersIInv'
  OBVIOUS
<1>0. ASSUME NEW p \in Provider
      PROVE  /\ ProviderIs(p, plan.mode, answers[p], results[p], dropped[p])
             /\ answers[p] \in Seq(AnswerRecord) /\ results[p] \in ProviderResult /\ dropped[p] \in SUBSET Nat
             /\ Answered(p) = PartsOf(answers[p])
             /\ answers = [answers EXCEPT ![p] = answers[p]] /\ dropped = [dropped EXCEPT ![p] = dropped[p]]
  BY DEF OffersIInv, Answered, PartsOf
<1>1. ASSUME NEW p \in Provider, NEW piece \in 1..PartCount, PartAnswers(p, piece) PROVE OffersIInv'
  <2>1. PICK fares \in OneFare :
          LET answer == Answer(piece, fares)
              said == Append(answers[p], answer)
          IN /\ answers' = [answers EXCEPT ![p] = said]
             /\ results' = [results EXCEPT ![p] = Merged(results[p], Update(p, said, answer))]
    BY <1>1 DEF PartAnswers
  <2> DEFINE answer == Answer(piece, fares)
             said == Append(answers[p], answer)
             r == Merged(results[p], Update(p, said, answer))
  <2>2. /\ plan' = plan /\ dropped' = dropped /\ piece \in Parts(p, plan.mode)
        /\ piece \notin PartsOf(answers[p]) /\ piece \notin dropped[p]
    BY <1>0, <1>1 DEF PartAnswers, Open
  <2>3. answer \in AnswerRecord /\ answer.part = piece /\ answer.day = DayIn(plan.mode, piece)
    <3>1. fares \in Seq(Fare) /\ piece \in Nat /\ DayOf(piece) \in Nat
      BY OneFareIs, OffersAssumption DEF DayOf
    <3> QED
      BY <3>1 DEF AnswerRecord, Answer, DayOf, DayIn
  <2> HIDE DEF answer
  <2>4. \A i \in DOMAIN answers[p] : answers[p][i].day = DayIn(plan.mode, answers[p][i].part)
    BY <1>0 DEF ProviderIs
  <2>5. PartsDiffer(answers[p])
    BY <1>0 DEF ProviderIs
  <2>6. /\ said \in Seq(AnswerRecord) /\ PartsDiffer(said) /\ PartsOf(said) = PartsOf(answers[p]) \union {piece}
        /\ \A i \in DOMAIN said : said[i].day = DayIn(plan.mode, said[i].part)
    <3> DEFINE before == answers[p]  mode == plan.mode
    <3>1. /\ before \in Seq(AnswerRecord) /\ PartsDiffer(before) /\ answer.part \notin PartsOf(before)
          /\ \A i \in DOMAIN before : before[i].day = DayIn(mode, before[i].part)
          /\ answer.day = DayIn(mode, answer.part)
      BY <1>0, <2>2, <2>3, <2>4, <2>5
    <3> HIDE DEF before, mode, said
    <3>2. said = Append(before, answer) /\ answer \in AnswerRecord
      BY <2>3 DEF said, before
    <3>3. InTurn(mode, before)
      BY <3>1 DEF InTurn
    <3>4. InTurn(mode, said) /\ PartsOf(said) = PartsOf(before) \union {answer.part}
      BY <3>1, <3>2, <3>3, OneMorePart
    <3> QED
      BY <2>3, <3>4 DEF InTurn, before, mode
  <2>7. /\ r \in ProviderResult /\ r.fresh = TRUE /\ \A o \in ToSet(r.offers) : o.paths = {p}
        /\ IsKept(p, ToSet(r.offers), SaidBy(p, ToSet(said)))
    BY <2>2, <2>3, <2>6, ReportKeeps
  <2>8. answers' = [answers EXCEPT ![p] = said] /\ results' = [results EXCEPT ![p] = r]
    BY <2>1 DEF answer
  <2> HIDE DEF said, r
  <2>9. ProviderIs(p, plan.mode, said, r, dropped[p])
    <3>1. dropped[p] \in SUBSET Nat /\ PartsOf(answers[p]) \union dropped[p] \subseteq Parts(p, plan.mode)
          /\ PartsOf(answers[p]) \intersect dropped[p] = {}
      BY <1>0 DEF ProviderIs
    <3> QED
      BY <2>2, <2>6, <2>7, <3>1 DEF ProviderIs
  <2>10. dropped' = [dropped EXCEPT ![p] = dropped[p]]
    BY <1>0, <2>2
  <2> QED
    BY <2>2, <2>8, <2>9, <2>10, OneProviderChanges
<1>2. ASSUME NEW p \in Provider, NEW piece \in 1..PartCount, PartFails(p, piece) PROVE OffersIInv'
  <2> DEFINE answer == Answer(piece, <<>>)
             said == answers[p]
             r == Merged(results[p], Update(p, said, answer))
             out == dropped[p] \union {piece}
  <2>1. /\ plan' = plan /\ answers' = answers /\ piece \in Parts(p, plan.mode)
        /\ piece \notin PartsOf(answers[p]) /\ piece \notin dropped[p]
        /\ dropped' = [dropped EXCEPT ![p] = out] /\ results' = [results EXCEPT ![p] = r]
    BY <1>0, <1>2 DEF PartFails, Open
  <2>2. /\ answer \in AnswerRecord /\ answer.part = piece /\ answer.day = DayIn(plan.mode, piece)
        /\ answer.fares = <<>>
    <3>1. <<>> \in Seq(Fare) /\ piece \in Nat /\ DayOf(piece) \in Nat
      BY OffersAssumption DEF DayOf
    <3> QED
      BY <3>1 DEF AnswerRecord, Answer, DayOf, DayIn
  <2> HIDE DEF answer
  <2>3. /\ r \in ProviderResult /\ r.fresh = TRUE /\ \A o \in ToSet(r.offers) : o.paths = {p}
        /\ IsKept(p, ToSet(r.offers), SaidBy(p, ToSet(said)))
    BY <1>0, <2>1, <2>2, ReportKeeps
  <2> HIDE DEF r
  <2>4. ProviderIs(p, plan.mode, said, r, out)
    <3>1. /\ said \in Seq(AnswerRecord) /\ PartsDiffer(said)
          /\ \A i \in DOMAIN said : said[i].day = DayIn(plan.mode, said[i].part)
          /\ dropped[p] \in SUBSET Nat /\ PartsOf(said) \union dropped[p] \subseteq Parts(p, plan.mode)
          /\ PartsOf(said) \intersect dropped[p] = {}
      BY <1>0 DEF ProviderIs
    <3>2. out \in SUBSET Nat
      BY <3>1, <2>1, PartsFit
    <3> HIDE DEF said
    <3> QED
      BY <2>1, <2>3, <3>1, <3>2 DEF ProviderIs, said
  <2>5. answers' = [answers EXCEPT ![p] = said]
    BY <1>0, <2>1
  <2> HIDE DEF said, out
  <2> QED
    BY <2>1, <2>4, <2>5, OneProviderChanges
<1>3. ASSUME NEW p \in Provider, ProviderCompletes(p) PROVE OffersIInv'
  <2> DEFINE said == answers[p]
             offers == Deduped(p, AllMapped(p, said))
             left == dropped[p] # {}
             r == [offers |-> offers, partial |-> left, completed |-> TRUE, fresh |-> TRUE]
  <2>1. results' = [results EXCEPT ![p] = r] /\ plan' = plan /\ answers' = answers /\ dropped' = dropped
    BY <1>3 DEF ProviderCompletes
  <2>2. offers \in Seq(OfferRecord) /\ IsKept(p, ToSet(offers), SaidBy(p, ToSet(said)))
    BY <1>0, AllIsKept
  <2>3. left \in BOOLEAN
    OBVIOUS
  <2> HIDE DEF offers, left
  <2>4. r \in ProviderResult /\ r.fresh = TRUE /\ r.offers = offers
    BY <2>2, <2>3 DEF ProviderResult
  <2>5. \A o \in ToSet(offers) : o.paths = {p}
    <3>1. p # "list"
      BY RulesAre
    <3>2. \A o \in ToSet(offers) : o \in SaidBy(p, ToSet(said))
      BY <2>2, <3>1 DEF IsKept
    <3>3. ToSet(said) \in SUBSET AnswerRecord
      BY <1>0 DEF ToSet
    <3> HIDE DEF said
    <3> QED
      BY <3>2, <3>3, SaidFits
  <2> HIDE DEF r
  <2>6. ProviderIs(p, plan.mode, said, r, dropped[p])
    <3>1. ProviderIs(p, plan.mode, said, results[p], dropped[p])
      BY <1>0
    <3> HIDE DEF said
    <3> QED
      BY <2>2, <2>4, <2>5, <3>1 DEF ProviderIs
  <2>7. answers' = [answers EXCEPT ![p] = said] /\ dropped' = [dropped EXCEPT ![p] = dropped[p]]
    BY <1>0, <2>1
  <2> HIDE DEF said
  <2> QED
    BY <2>1, <2>6, <2>7, OneProviderChanges
<1>4. ASSUME NEW p \in Provider, ProviderFails(p) PROVE OffersIInv'
  <2> DEFINE said == answers[p]
             offers == IF results[p].fresh THEN results[p].offers ELSE <<>>
             r == [offers |-> offers, partial |-> TRUE, completed |-> TRUE, fresh |-> TRUE]
  <2>1. results' = [results EXCEPT ![p] = r] /\ plan' = plan /\ answers' = answers /\ dropped' = dropped
    BY <1>4 DEF ProviderFails
  <2>2. /\ offers \in Seq(OfferRecord) /\ IsKept(p, ToSet(offers), SaidBy(p, ToSet(said)))
        /\ \A o \in ToSet(offers) : o.paths = {p}
    <3>1. CASE results[p].fresh
      <4>1. offers = results[p].offers
        BY <3>1
      <4>2. results[p].offers \in Seq(OfferRecord)
        BY <1>0 DEF ProviderResult
      <4>3. IsKept(p, ToSet(results[p].offers), SaidBy(p, ToSet(said)))
        BY <1>0, <3>1 DEF ProviderIs
      <4>4. \A o \in ToSet(results[p].offers) : o.paths = {p}
        BY <1>0 DEF ProviderIs
      <4> HIDE DEF offers, said
      <4> QED
        BY <4>1, <4>2, <4>3, <4>4
    <3>2. CASE ~results[p].fresh
      <4>1. offers = <<>>
        BY <3>2
      <4>2. <<>> \in Seq(OfferRecord) /\ ToSet(<<>>) = {}
        BY DEF ToSet
      <4>3. said = <<>>
        BY <1>0, <3>2 DEF ProviderIs
      <4>4. SaidBy(p, ToSet(said)) = {}
        BY <4>2, <4>3 DEF SaidBy
      <4> HIDE DEF offers, said
      <4> QED
        BY <4>1, <4>2, <4>4, NothingIsKept
    <3> QED
      BY <3>1, <3>2
  <2> HIDE DEF offers
  <2>4. r \in ProviderResult /\ r.fresh = TRUE /\ r.offers = offers
    BY <2>2 DEF ProviderResult
  <2> HIDE DEF r
  <2>6. ProviderIs(p, plan.mode, said, r, dropped[p])
    <3>1. ProviderIs(p, plan.mode, said, results[p], dropped[p])
      BY <1>0
    <3> HIDE DEF said
    <3> QED
      BY <2>2, <2>4, <3>1 DEF ProviderIs
  <2>7. answers' = [answers EXCEPT ![p] = said] /\ dropped' = [dropped EXCEPT ![p] = dropped[p]]
    BY <1>0, <2>1
  <2> HIDE DEF said
  <2> QED
    BY <2>1, <2>6, <2>7, OneProviderChanges
<1>5. CASE UNCHANGED offersVars
  BY <1>5 DEF OffersIInv, offersVars
<1> QED
  BY <1>1, <1>2, <1>3, <1>4, <1>5 DEF OffersNext

(* The best of the same offers have the same keys.                         *)
LEMMA BestAlike ==
  ASSUME NEW p \in Provider, NEW X \in SUBSET OfferRecord, NEW R, NEW Q, IsKept(p, R, X), IsKept(p, Q, X),
         NEW r \in R
  PROVE  \E q \in Q : Key(r) = Key(q)
<1>1. p # "list" /\ p \in Rule
  BY RulesAre DEF Rule
<1>2. r \in X /\ \A x \in X : Class(p, x) = Class(p, r) => ~Better(p, x, r)
  BY <1>1 DEF IsKept
<1>3. PICK q \in Q : Class(p, r) = Class(p, q)
  BY <1>2 DEF IsKept
<1>4. q \in X /\ \A x \in X : Class(p, x) = Class(p, q) => ~Better(p, x, q)
  BY <1>1 DEF IsKept
<1>5. ~Better(p, r, q) /\ ~Better(p, q, r) /\ r \in OfferRecord /\ q \in OfferRecord
  BY <1>2, <1>3, <1>4
<1>6. Key(r) = Key(q)
  BY <1>1, <1>3, <1>5, BetterStill
<1> QED
  BY <1>6

(* Two offers are of one fare field by field.                              *)
LEMMA SameFareIs ==
  ASSUME NEW a, NEW b
  PROVE  SameFare(a, b) <=> /\ a.day = b.day /\ a.out = b.out /\ a.in = b.in /\ a.bags = b.bags /\ a.price = b.price
BY DEF SameFare

(* The list is made of what the two providers' results hold.               *)
LEMMA ListIs ==
  ASSUME OffersIInv
  PROVE  /\ AllOffers \in Seq(OfferRecord)
         /\ ToSet(AllOffers) = ToSet(results["agil-local"].offers) \union ToSet(results["costamar"].offers)
         /\ List \in Seq(OfferRecord) /\ IsKept("list", ToSet(List), ToSet(AllOffers))
<1>1. results["agil-local"].offers \in Seq(OfferRecord) /\ results["costamar"].offers \in Seq(OfferRecord)
  BY DEF OffersIInv, ProviderResult, Provider
<1>2. /\ AllOffers \in Seq(OfferRecord)
      /\ ToSet(AllOffers) = ToSet(results["agil-local"].offers) \union ToSet(results["costamar"].offers)
  BY <1>1, JoinedHolds DEF AllOffers
<1>3. List = Materialized(AllOffers)
  BY DEF List
<1> QED
  BY <1>2, <1>3, MaterializedIs

(* The list is what the providers that reported answered, and no more.     *)
LEMMA ListWhole == OffersIInv => ListIsWhatWasAnswered
<1> SUFFICES ASSUME OffersIInv PROVE ListIsWhatWasAnswered
  OBVIOUS
<1> DEFINE list == ToSet(List)
           all == ToSet(AllOffers)
           of(p) == ToSet(AllMapped(p, answers[p]))
           listed(p) == {l \in list : p \in l.paths}
           R(p) == ToSet(results[p].offers)
<1>1. all = R("agil-local") \union R("costamar") /\ IsKept("list", list, all) /\ list \in SUBSET OfferRecord
      /\ all \in SUBSET OfferRecord
  <2>1. /\ AllOffers \in Seq(OfferRecord) /\ List \in Seq(OfferRecord)
        /\ ToSet(AllOffers) = ToSet(results["agil-local"].offers) \union ToSet(results["costamar"].offers)
        /\ IsKept("list", ToSet(List), ToSet(AllOffers))
    BY ListIs
  <2>2. \A s \in Seq(OfferRecord) : ToSet(s) \in SUBSET OfferRecord
    BY DEF ToSet
  <2> QED
    BY <2>1, <2>2
<1>2. ASSUME NEW p \in Provider PROVE \A o \in R(p) : o.paths = {p}
  BY DEF OffersIInv, ProviderIs
<1>3. ASSUME NEW p \in Provider, results[p].fresh PROVE IsKept(p, R(p), of(p))
  <2>1. of(p) = SaidBy(p, ToSet(answers[p]))
    BY ToldIs DEF OffersIInv
  <2> HIDE DEF of
  <2> QED
    BY <1>3, <2>1 DEF OffersIInv, ProviderIs
<1>4. \A p \in Provider : p # "list" /\ R(p) \subseteq all
  BY <1>1, RulesAre DEF Provider
<1> HIDE DEF list, all, of, R
<1>5. ASSUME NEW x \in all, NEW l \in list, Key(x) = Key(l) PROVE SameFare(x, l)
  <2>1. x \in OfferRecord /\ l \in OfferRecord
    BY <1>1
  <2>2. x.day = l.day /\ x.out = l.out /\ x.in = l.in /\ x.bags = l.bags /\ x.price = l.price
    BY <1>5, <2>1, KeysAre
  <2> QED
    BY <2>2, SameFareIs
<1>6. ASSUME NEW p \in Provider, results[p].fresh, NEW o \in of(p)
      PROVE  \E l \in listed(p) : SameFare(o, l)
  <2>1. PICK r \in R(p) : Class(p, o) = Class(p, r)
    BY <1>3, <1>6 DEF IsKept
  <2>2. r \in all /\ r.paths = {p}
    BY <1>2, <1>4, <2>1
  <2>3. PICK l \in list : Class("list", r) = Class("list", l)
    BY <1>1, <2>2 DEF IsKept
  <2>4. Key(r) = Key(l)
    BY <2>3 DEF Class
  <2>5. l.paths = PathsOf("list", all, l)
    BY <1>1 DEF IsKept
  <2>6. p \in l.paths
    BY <2>2, <2>3, <2>5 DEF PathsOf
  <2>7. SameFare(r, l)
    BY <1>5, <2>2, <2>4
  <2>8. o.day = r.day /\ o.out = r.out /\ o.in = r.in /\ o.bags = r.bags /\ o.price = r.price
    BY <1>4, <2>1 DEF Class
  <2>9. SameFare(o, l)
    BY <2>7, <2>8, SameFareIs
  <2> QED
    BY <2>6, <2>9
<1>7. ASSUME NEW p \in Provider, results[p].fresh, NEW l \in listed(p)
      PROVE  \E o \in of(p) : SameFare(o, l)
  <2>1. l \in list /\ p \in l.paths
    OBVIOUS
  <2>2. l.paths = PathsOf("list", all, l)
    BY <1>1, <2>1 DEF IsKept
  <2>3. PICK y \in all : Class("list", y) = Class("list", l) /\ p \in y.paths
    BY <2>1, <2>2 DEF PathsOf
  <2>4. PICK q \in Provider : y \in R(q)
    BY <1>1, <2>3 DEF Provider
  <2>5. y.paths = {q}
    BY <1>2, <2>4
  <2>6. y \in R(p)
    BY <2>3, <2>4, <2>5
  <2>7. y \in of(p)
    BY <1>3, <1>4, <1>7, <2>6 DEF IsKept
  <2>8. SameFare(y, l)
    <3>1. Key(y) = Key(l)
      BY <2>3 DEF Class
    <3> QED
      BY <1>5, <2>1, <2>3, <3>1
  <2> QED
    BY <2>7, <2>8
<1> QED
  BY <1>6, <1>7 DEF ListIsWhatWasAnswered, list, of

(* Sorted, the best of what was said is the same in whatever order it      *)
(* came.                                                                   *)
LEMMA NoTrace == OffersIInv => ArrivalLeavesNoTrace
<1> SUFFICES ASSUME OffersIInv, \A p \in Provider : results[p].fresh
             PROVE  LET whole(p) == Deduped(p, AllMapped(p, InPartOrder(answers[p])))
                        keys(offers) == [i \in DOMAIN offers |-> Key(offers[i])]
                    IN keys(List) = keys(Materialized(whole("agil-local") \o whole("costamar")))
  BY DEF ArrivalLeavesNoTrace
<1> DEFINE whole(p) == Deduped(p, AllMapped(p, InPartOrder(answers[p])))
           X(p) == SaidBy(p, ToSet(answers[p]))
           R(p) == ToSet(results[p].offers)
           W(p) == ToSet(whole(p))
<1>1. ASSUME NEW p \in Provider
      PROVE  /\ whole(p) \in Seq(OfferRecord) /\ IsKept(p, W(p), X(p)) /\ IsKept(p, R(p), X(p))
             /\ X(p) \in SUBSET OfferRecord
  <2>1. answers[p] \in Seq(AnswerRecord) /\ PartsDiffer(answers[p]) /\ IsKept(p, R(p), X(p))
    BY DEF OffersIInv, ProviderIs
  <2> DEFINE said == InPartOrder(answers[p])
  <2>2. said \in Seq(AnswerRecord) /\ ToSet(said) = ToSet(answers[p])
    BY <2>1, InPartOrderIs
  <2> HIDE DEF said
  <2>3. /\ Deduped(p, AllMapped(p, said)) \in Seq(OfferRecord)
        /\ IsKept(p, ToSet(Deduped(p, AllMapped(p, said))), SaidBy(p, ToSet(said)))
    BY <2>2, AllIsKept
  <2>4. X(p) \in SUBSET OfferRecord
    <3>1. ToSet(answers[p]) \in SUBSET AnswerRecord
      BY <2>1 DEF ToSet
    <3>2. \A o \in X(p) : o \in OfferRecord
      BY <3>1, SaidFits
    <3> HIDE DEF X
    <3> QED
      BY <3>2
  <2> QED
    BY <2>1, <2>2, <2>3, <2>4 DEF said
<1> HIDE DEF whole, X, R, W
<1>2. "agil-local" \in Provider /\ "costamar" \in Provider
  BY DEF Provider
<1> DEFINE a == AllOffers
           b == whole("agil-local") \o whole("costamar")
<1>3. a \in Seq(OfferRecord) /\ ToSet(a) = R("agil-local") \union R("costamar")
  BY ListIs DEF R
<1>4. b \in Seq(OfferRecord) /\ ToSet(b) = W("agil-local") \union W("costamar")
  BY <1>1, <1>2, JoinedHolds DEF W
<1> HIDE DEF a, b
<1>5. ASSUME NEW p \in Provider
      PROVE  /\ \A r \in R(p) : \E w \in W(p) : Key(r) = Key(w)
             /\ \A w \in W(p) : \E r \in R(p) : Key(r) = Key(w)
  <2>1. \A r \in R(p) : \E w \in W(p) : Key(r) = Key(w)
    <3> SUFFICES ASSUME NEW r \in R(p) PROVE \E w \in W(p) : Key(r) = Key(w)
      OBVIOUS
    <3> QED
      BY <1>1, BestAlike
  <2>2. ASSUME NEW w \in W(p) PROVE \E r \in R(p) : Key(w) = Key(r)
    BY <1>1, BestAlike
  <2> QED
    BY <2>1, <2>2
<1>6. \A x \in ToSet(a) : \E y \in ToSet(b) : Key(x) = Key(y)
  BY <1>2, <1>3, <1>4, <1>5
<1>7. \A y \in ToSet(b) : \E x \in ToSet(a) : Key(x) = Key(y)
  BY <1>2, <1>3, <1>4, <1>5
<1>8. LET p == Materialized(a)
          q == Materialized(b)
      IN [i \in DOMAIN p |-> Key(p[i])] = [i \in DOMAIN q |-> Key(q[i])]
  BY <1>3, <1>4, <1>6, <1>7, ShownAlike
<1>9. List = Materialized(a)
  BY DEF List, a
<1> QED
  BY <1>8, <1>9 DEF b, whole

(* The schedules to choose from are those of offers of the list.           *)
LEMMA ChoicesAreOffers == OffersIInv => SchedulesAreOffers
<1> SUFFICES ASSUME OffersIInv PROVE SchedulesAreOffers
  OBVIOUS
<1>1. List \in Seq(OfferRecord)
  BY ListIs
<1> DEFINE s == List
<1> HIDE DEF s
<1>2. s \in Seq(OfferRecord)
  BY <1>1 DEF s
<1>3. ASSUME NEW g \in ScheduleGroups(s)
      PROVE  /\ {s[c].out : c \in g.combinations} = g.outbound
             /\ {s[c].in : c \in g.combinations} = g.inbound
             /\ Cardinality({<<s[c].out, s[c].in>> : c \in g.combinations}) = Cardinality(g.combinations)
             /\ Cardinality({s[c].price : c \in g.combinations}) = 1
  BY <1>2, <1>3, GroupsAre
<1> QED
  BY <1>3 DEF SchedulesAreOffers, s

(* What is known of a search has its type.                                 *)
LEMMA OffersTyped == OffersIInv => OffersTypeOK
<1> SUFFICES ASSUME OffersIInv PROVE OffersTypeOK
  OBVIOUS
<1>1. ASSUME NEW p \in Provider
      PROVE  /\ Answered(p) \union dropped[p] \subseteq Parts(p, plan.mode)
             /\ Answered(p) \intersect dropped[p] = {}
             /\ {results[p].partial, results[p].completed, results[p].fresh} \subseteq BOOLEAN
  <2>1. ProviderIs(p, plan.mode, answers[p], results[p], dropped[p])
    BY DEF OffersIInv
  <2>2. Answered(p) = PartsOf(answers[p])
    BY DEF Answered, PartsOf
  <2>3. {results[p].partial, results[p].completed, results[p].fresh} \subseteq BOOLEAN
    BY <2>1 DEF ProviderIs, ProviderResult
  <2> QED
    BY <2>1, <2>2, <2>3 DEF ProviderIs
<1> QED
  BY <1>1 DEF OffersTypeOK, OffersIInv

(* Whatever the fares, the parts, their order and their failures, the list *)
(* shows what was answered, the order of arrival leaves no trace in it,    *)
(* and its schedules to choose from are offers of it (Merged, Deduped,     *)
(* Grouped, Sorted, ScheduleGroups).                                       *)
LEMMA ListShown ==
  OffersSpec => [](OffersTypeOK /\ ListIsWhatWasAnswered /\ ArrivalLeavesNoTrace /\ SchedulesAreOffers)
<1>1. OffersInit => OffersIInv
  BY OffersStart
<1>2. OffersIInv /\ [OffersNext]_offersVars => OffersIInv'
  BY OffersStep
<1>3. OffersIInv => OffersTypeOK /\ ListIsWhatWasAnswered /\ ArrivalLeavesNoTrace /\ SchedulesAreOffers
  BY OffersTyped, ListWhole, NoTrace, ChoicesAreOffers
<1> QED
  BY <1>1, <1>2, <1>3, PTL DEF OffersSpec

(* So the list is what the providers answered, in every state of a search; *)
(* the run asks it where a search is what moves.                           *)
THEOREM ListIsWhole == OffersSpec => []ListIsTheAnswers
<1>1. OffersTypeOK /\ ListIsWhatWasAnswered /\ ArrivalLeavesNoTrace /\ SchedulesAreOffers => ListIsTheAnswers
  BY DEF ListIsTheAnswers
<1> QED
  BY <1>1, ListShown, PTL
=============================================================================
