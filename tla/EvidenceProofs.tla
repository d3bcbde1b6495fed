--------------------------- MODULE EvidenceProofs ---------------------------
(***************************************************************************)
(* What searches know of their providers: that a fare one search shows of  *)
(* another is recent (PriceReuse), that the desk says of a provider what   *)
(* was last heard of it (ProviderStatus), and that a request that is sent  *)
(* again does no more than one (ProviderFetch). Each has an inductive      *)
(* invariant of its own, and each is proved for any searches, requests,    *)
(* times and limits. The last theorem is that a step of the three together *)
(* with the jobs they serve is, for each, a step of its own or none, so    *)
(* what is proved of each holds of the whole.                              *)
(***************************************************************************)
EXTENDS MCSearches, TLAPS

-----------------------------------------------------------------------------
(* REUSED FARES                                                            *)

FareRecord == [kind : {"none", "own", "cached", "renewed"}, time : Nat]

(* A fare that is listed at the time now by a search that is running, or   *)
(* over.                                                                   *)
FareIsRight(search, p, now) ==
  LET fare == search.fares[p]
  IN /\ fare.kind = "own" =>
          /\ fare.time <= now
          /\ search.status \in {"running", "completed"}
          /\ search.status = "running" => 0 < search.begun /\ search.begun <= fare.time
          /\ search.status = "completed" => search.completedAt <= fare.time + SearchTime
     /\ fare.kind = "cached" =>
          /\ search.status = "running" /\ search.partial /\ p \notin search.ended
          /\ fare.time <= SearchTime + ReuseTTL
     /\ fare.kind = "renewed" =>
          /\ search.partial /\ p \notin search.ended
          /\ search.status = "completed" => search.stopped

AnyQuery == Query \cup {NotMade.query}
SearchRecord ==
  [status : {"none", "running", "completed", "cancelled"}, query : AnyQuery,
   fares : [FareProvider -> FareRecord], ended : SUBSET FareProvider, begun : Nat,
   completedAt : Nat, touched : Nat, stopped : BOOLEAN, partial : BOOLEAN]

(* All a search is at the time now: while it runs, no more than SearchTime *)
(* has passed since its first answer.                                      *)
SearchIsRight(search, now) ==
  /\ search \in SearchRecord
  /\ search.completedAt <= now /\ search.begun <= now
  /\ (search.status = "running" /\ search.begun > 0) => now <= search.begun + SearchTime
  /\ \A p \in FareProvider : FareIsRight(search, p, now)

(* Why a reused fare is recent: a fare of its own is no older than the     *)
(* search's first answer, only a stop leaves cached fares in a search that *)
(* is over, and that dates them again.                                     *)
ReuseIInv ==
  /\ reuseTime \in Nat \ {0}
  /\ made \in [Made -> SearchRecord]
  /\ \A j \in Made : SearchIsRight(made[j], reuseTime)

(* A search that was not made, and one that was cancelled, list nothing.   *)
LEMMA NotMadeIsRight ==
  ASSUME NEW now \in Nat
  PROVE  /\ SearchIsRight(NotMade, now)
         /\ SearchIsRight([NotMade EXCEPT !.status = "cancelled"], now)
<1>1. NoFares \in FareRecord
  BY DEF NoFares, FareRecord
<1>2. NotMade \in SearchRecord /\ NotMade.fares = [p \in FareProvider |-> NoFares]
  BY <1>1 DEF NotMade, SearchRecord, AnyQuery
<1>3. [NotMade EXCEPT !.status = "cancelled"] \in SearchRecord
  BY <1>2 DEF SearchRecord
<1> QED
  BY <1>1, <1>2, <1>3 DEF SearchIsRight, FareIsRight, NotMade, NoFares

(* The invariant is kept when one search is replaced by another that is    *)
(* right, at the same time.                                                *)
LEMMA OneSearchChanges ==
  ASSUME ReuseIInv, reuseTime' = reuseTime, NEW j \in Made, NEW search,
         made' = [made EXCEPT ![j] = search], SearchIsRight(search, reuseTime)
  PROVE  ReuseIInv'
<1>1. search \in SearchRecord
  BY DEF SearchIsRight
<1>2. /\ made' \in [Made -> SearchRecord]
      /\ \A k \in Made : made'[k] = IF k = j THEN search ELSE made[k]
  BY <1>1 DEF ReuseIInv
<1>3. \A k \in Made : SearchIsRight(made'[k], reuseTime)
  BY <1>2 DEF ReuseIInv
<1> QED
  BY <1>2, <1>3 DEF ReuseIInv

(* What providers answer: fares of its own as of now, fewer, or those it   *)
(* had; a search that listed none began with them.                         *)
LEMMA AnswerIsRight ==
  ASSUME ReuseIInv, NEW j \in Made, NEW p \in FareProvider, ReuseRuns(j, p),
         NEW fares \in {IF made[j].fares[p].kind = "own" THEN made[j].fares[p] ELSE NoFares, Own, NoFares},
         NEW over \in BOOLEAN
  PROVE  SearchIsRight([made[j] EXCEPT !.fares[p] = fares,
                                       !.ended = IF over THEN @ \cup {p} ELSE @,
                                       !.begun = IF @ = 0 THEN reuseTime ELSE @], reuseTime)
<1> DEFINE search == made[j]
           begun == IF search.begun = 0 THEN reuseTime ELSE search.begun
           ended == IF over THEN search.ended \cup {p} ELSE search.ended
           listed == [search.fares EXCEPT ![p] = fares]
           next == [search EXCEPT !.fares = listed, !.ended = ended, !.begun = begun]
<1>1. search \in SearchRecord /\ SearchIsRight(search, reuseTime) /\ reuseTime \in Nat \ {0}
  BY DEF ReuseIInv
<1>2. search.status = "running" /\ p \notin search.ended
  BY DEF ReuseRuns
<1>3. fares \in FareRecord
  BY <1>1 DEF Own, Dated, NoFares, FareRecord, SearchRecord
<1>4. listed \in [FareProvider -> FareRecord]
  BY <1>1, <1>3 DEF SearchRecord
<1>5. begun \in Nat \ {0} /\ ended \in SUBSET FareProvider
  BY <1>1 DEF SearchRecord
<1> HIDE DEF listed, ended, begun
<1>6. /\ next \in SearchRecord
      /\ next.status = search.status /\ next.fares = listed /\ next.ended = ended
      /\ next.begun = begun /\ next.completedAt = search.completedAt
      /\ next.partial = search.partial /\ next.stopped = search.stopped
  BY <1>1, <1>4, <1>5 DEF SearchRecord
<1>7. /\ begun <= reuseTime /\ reuseTime <= begun + SearchTime
      /\ search.begun > 0 => begun = search.begun
  BY <1>1, <1>2, ReuseAssumption DEF begun, SearchIsRight, SearchRecord
<1>8. ASSUME NEW q \in FareProvider
      PROVE  FareIsRight(next, q, reuseTime)
  <2>1. FareIsRight(search, q, reuseTime) /\ search.fares[q] \in FareRecord
    BY <1>1 DEF SearchIsRight, SearchRecord
  <2>2. CASE q = p
    <3>1. listed[q] = fares
      BY <1>1, <2>2 DEF listed, SearchRecord
    <3>2. fares.kind = "own" => fares.time <= reuseTime /\ begun <= fares.time
      BY <1>1, <1>2, <1>7, <2>1, <2>2 DEF FareIsRight, Own, Dated, NoFares
    <3>3. fares.kind \in {"own", "none"}
      BY DEF Own, Dated, NoFares
    <3> QED
      BY <1>2, <1>5, <1>6, <3>1, <3>2, <3>3 DEF FareIsRight
  <2>3. CASE q # p
    <3>1. listed[q] = search.fares[q] /\ (q \in ended <=> q \in search.ended)
      BY <1>1, <2>3 DEF listed, ended, SearchRecord
    <3>2. search.fares[q].kind = "own" => begun <= search.fares[q].time
      BY <1>1, <1>2, <1>7, <2>1 DEF FareIsRight, SearchRecord, FareRecord
    <3> QED
      BY <1>2, <1>5, <1>6, <2>1, <3>1, <3>2 DEF FareIsRight
  <2> QED
    BY <2>2, <2>3
<1>9. SearchIsRight(next, reuseTime)
  BY <1>1, <1>2, <1>5, <1>6, <1>7, <1>8 DEF SearchIsRight
<1> QED
  BY <1>9 DEF listed, ended, begun

(* A search that begins with what another lists.                           *)
LEMMA DonorIsRight ==
  ASSUME ReuseIInv, NEW query \in Query, NEW donor \in Donors(query)
  PROVE  SearchIsRight(Created(donor, query, CachedFares(made[donor].fares)), reuseTime)
<1> DEFINE search == made[donor]
           fares == CachedFares(search.fares)
           next == Created(donor, query, fares)
<1>1. /\ donor \in Made /\ search.status = "completed"
      /\ reuseTime - search.completedAt <= ReuseTTL
  BY DEF Donors, AgedAt
<1>2. search \in SearchRecord /\ SearchIsRight(search, reuseTime) /\ reuseTime \in Nat \ {0}
  BY <1>1 DEF ReuseIInv
<1>3. ASSUME NEW p \in FareProvider
      PROVE  /\ fares[p] \in FareRecord
             /\ fares[p].kind # "own"
             /\ fares[p].kind = "cached" => fares[p].time <= SearchTime + ReuseTTL
  <2>1. search.fares[p] \in FareRecord /\ FareIsRight(search, p, reuseTime)
    BY <1>2 DEF SearchIsRight, SearchRecord
  <2>2. CASE search.fares[p].kind = "own"
    <3> DEFINE age == reuseTime - search.fares[p].time
    <3>1. fares[p] = [kind |-> "cached", time |-> age]
      BY <2>2 DEF CachedFares, Dated
    <3>2. age \in Nat /\ age <= SearchTime + ReuseTTL
      BY <1>1, <1>2, <2>1, <2>2, ReuseAssumption DEF FareIsRight, FareRecord, SearchRecord
    <3> QED
      BY <3>1, <3>2 DEF FareRecord
  <2>3. CASE search.fares[p].kind # "own"
    BY <1>1, <2>1, <2>3 DEF FareIsRight, CachedFares
  <2> QED
    BY <2>2, <2>3
<1>4. fares \in [FareProvider -> FareRecord]
  BY <1>3 DEF CachedFares
<1> HIDE DEF fares
<1>5. /\ next \in SearchRecord
      /\ next.status = "running" /\ next.fares = fares /\ next.partial = TRUE
      /\ next.ended = {} /\ next.begun = 0 /\ next.completedAt = 0
  BY <1>4 DEF Created, NotMade, SearchRecord, AnyQuery
<1> HIDE DEF next
<1>6. \A p \in FareProvider : FareIsRight(next, p, reuseTime)
  BY <1>3, <1>5 DEF FareIsRight, FareRecord
<1>7. SearchIsRight(next, reuseTime)
  BY <1>2, <1>5, <1>6 DEF SearchIsRight
<1> QED
  BY <1>7 DEF next, fares

(* A search is read, and then no different but for when it was touched.    *)
LEMMA TouchedIsRight ==
  ASSUME ReuseIInv, NEW j \in Made
  PROVE  SearchIsRight([made[j] EXCEPT !.touched = reuseTime], reuseTime)
<1> DEFINE search == made[j]
           next == [search EXCEPT !.touched = reuseTime]
<1>1. search \in SearchRecord /\ SearchIsRight(search, reuseTime) /\ reuseTime \in Nat
  BY DEF ReuseIInv
<1>2. /\ next \in SearchRecord
      /\ next.status = search.status /\ next.fares = search.fares /\ next.ended = search.ended
      /\ next.begun = search.begun /\ next.completedAt = search.completedAt
      /\ next.partial = search.partial /\ next.stopped = search.stopped
  BY <1>1 DEF SearchRecord
<1> HIDE DEF next, search
<1>3. SearchIsRight(next, reuseTime)
  BY <1>1, <1>2 DEF SearchIsRight, FareIsRight
<1> QED
  BY <1>3 DEF next, search

(* What a stop that keeps what is shown leaves, and what a search leaves   *)
(* whose providers have all ended.                                         *)
LEMMA OverIsRight ==
  ASSUME ReuseIInv, NEW j \in Made, made[j].status = "running",
         NEW fares \in [FareProvider -> FareRecord], NEW partial \in BOOLEAN, NEW halted \in BOOLEAN,
         \A p \in FareProvider :
           \/ fares[p] = made[j].fares[p] /\ fares[p].kind \in {"own", "none"}
           \/ fares[p].kind = "renewed" /\ partial /\ halted
  PROVE  SearchIsRight([Over(made[j], fares, partial) EXCEPT !.stopped = halted], reuseTime)
<1> DEFINE search == made[j]
           next == [Over(search, fares, partial) EXCEPT !.stopped = halted]
<1>1. search \in SearchRecord /\ SearchIsRight(search, reuseTime) /\ reuseTime \in Nat
  BY DEF ReuseIInv
<1>2. /\ next \in SearchRecord
      /\ next.status = "completed" /\ next.fares = fares /\ next.ended = {}
      /\ next.begun = 0 /\ next.completedAt = reuseTime
      /\ next.partial = partial /\ next.stopped = halted
  BY <1>1 DEF Over, NotMade, SearchRecord
<1> HIDE DEF next
<1>3. ASSUME NEW p \in FareProvider
      PROVE  FareIsRight(next, p, reuseTime)
  <2>1. FareIsRight(search, p, reuseTime) /\ search.fares[p] \in FareRecord
    BY <1>1 DEF SearchIsRight, SearchRecord
  <2>2. fares[p].kind = "own" =>
          /\ fares[p] = search.fares[p] /\ 0 < search.begun
          /\ search.begun <= fares[p].time /\ fares[p].time <= reuseTime
    BY <2>1 DEF FareIsRight
  <2>3. fares[p].kind = "own" => reuseTime <= fares[p].time + SearchTime
    BY <1>1, <2>1, <2>2, ReuseAssumption DEF SearchIsRight, SearchRecord, FareRecord
  <2> QED
    BY <1>2, <2>2, <2>3 DEF FareIsRight
<1>4. SearchIsRight(next, reuseTime)
  BY <1>1, <1>2, <1>3 DEF SearchIsRight
<1> QED
  BY <1>4 DEF next

(* No search is made when the server starts.                              *)
LEMMA ReuseInitIsRight == ReuseInit => ReuseIInv
<1> SUFFICES ASSUME ReuseInit
             PROVE  ReuseIInv
  OBVIOUS
<1>1. reuseTime = 1 /\ SearchIsRight(NotMade, 1)
  BY NotMadeIsRight DEF ReuseInit
<1>2. NotMade \in SearchRecord
  BY <1>1 DEF SearchIsRight
<1> QED
  BY <1>1, <1>2 DEF ReuseInit, ReuseIInv

(* Every step of a search, and of the clock, keeps the fares right.        *)
LEMMA ReuseStepIsRight == ReuseIInv /\ [ReuseNext]_reuseVars => ReuseIInv'
<1> SUFFICES ASSUME ReuseIInv, [ReuseNext]_reuseVars
             PROVE  ReuseIInv'
  OBVIOUS
<1>T. reuseTime \in Nat \ {0} /\ made \in [Made -> SearchRecord]
  BY DEF ReuseIInv
<1>1. ASSUME NEW j \in Made, NEW query \in Query, MakeSearch(j, query)
      PROVE  ReuseIInv'
  <2> DEFINE donors == IF ReuseTTL > 0 THEN Donors(query) ELSE {}
  <2>1. reuseTime' = reuseTime
    BY <1>1 DEF MakeSearch
  <2>2. CASE donors = {}
    <3>1. made' = [made EXCEPT ![j] = Created(j, query, NotMade.fares)]
      BY <1>1, <2>2 DEF MakeSearch
    <3>2. SearchIsRight(Created(j, query, NotMade.fares), reuseTime)
      <4>1. NotMade.fares = [p \in FareProvider |-> NoFares] /\ NoFares \in FareRecord
        BY DEF NotMade, NoFares, FareRecord
      <4> DEFINE next == Created(j, query, NotMade.fares)
      <4>2. /\ next \in SearchRecord
            /\ next.fares = [p \in FareProvider |-> NoFares]
            /\ next.completedAt = 0 /\ next.begun = 0
        BY <4>1 DEF Created, NotMade, SearchRecord, AnyQuery
      <4> HIDE DEF next
      <4>3. SearchIsRight(next, reuseTime)
        BY <1>T, <4>2 DEF SearchIsRight, FareIsRight, NoFares
      <4> QED
        BY <4>3 DEF next
    <3> QED
      BY <2>1, <3>1, <3>2, OneSearchChanges
  <2>3. CASE donors # {}
    <3>1. PICK donor \in Donors(query) :
            made' = [made EXCEPT ![j] = Created(j, query, CachedFares(made[donor].fares)),
                                 ![donor].touched = reuseTime]
      BY <1>1, <2>3 DEF MakeSearch
    <3> DEFINE new == Created(donor, query, CachedFares(made[donor].fares))
               touched == [made[donor] EXCEPT !.touched = reuseTime]
    <3>2. donor \in Made /\ donor # j
      <4>1. made[donor].status = "completed" /\ donor \in Made
        BY DEF Donors
      <4>2. ~(j < j) /\ made[j].status = "none"
        BY <1>1 DEF MakeSearch, Made
      <4> QED
        BY <4>1, <4>2
    <3>3. new = Created(j, query, CachedFares(made[donor].fares))
      BY DEF Created
    <3>4. SearchIsRight(new, reuseTime) /\ SearchIsRight(touched, reuseTime)
      BY <3>2, DonorIsRight, TouchedIsRight
    <3>5. new \in SearchRecord /\ touched \in SearchRecord
      BY <3>4 DEF SearchIsRight
    <3> HIDE DEF new, touched
    <3>6. made' = [[made EXCEPT ![j] = new] EXCEPT ![donor] = touched]
      BY <1>T, <3>1, <3>2, <3>3 DEF touched
    <3>7. \A k \in Made : made'[k] = IF k = donor THEN touched ELSE IF k = j THEN new ELSE made[k]
      BY <1>T, <3>2, <3>5, <3>6
    <3>8. made' \in [Made -> SearchRecord]
      BY <1>T, <3>2, <3>5, <3>6
    <3>9. \A k \in Made : SearchIsRight(made'[k], reuseTime)
      BY <3>4, <3>7 DEF ReuseIInv
    <3> QED
      BY <1>T, <2>1, <3>8, <3>9 DEF ReuseIInv
  <2> QED
    BY <2>2, <2>3
<1>2. ASSUME NEW j \in Made, NEW p \in FareProvider, FirstFares(j, p)
      PROVE  ReuseIInv'
  <2> DEFINE next == [made[j] EXCEPT !.fares[p] = Own, !.ended = IF FALSE THEN @ \cup {p} ELSE @,
                                     !.begun = IF @ = 0 THEN reuseTime ELSE @]
  <2>1. ReuseRuns(j, p) /\ reuseTime' = reuseTime
    BY <1>2 DEF FirstFares
  <2>2. SearchIsRight(next, reuseTime)
    BY <2>1, AnswerIsRight
  <2>3. made' = [made EXCEPT ![j] = next]
    BY <1>T, <1>2 DEF FirstFares, Lists, SearchRecord
  <2> HIDE DEF next
  <2> QED
    BY <2>1, <2>2, <2>3, OneSearchChanges
<1>3. ASSUME NEW j \in Made, NEW p \in FareProvider, ProviderIsDone(j, p)
      PROVE  ReuseIInv'
  <2>1. ReuseRuns(j, p) /\ reuseTime' = reuseTime
    BY <1>3 DEF ProviderIsDone
  <2>2. PICK fares \in {IF made[j].fares[p].kind = "own" THEN made[j].fares[p] ELSE NoFares, Own, NoFares} :
          made' = [made EXCEPT ![j].fares[p] = fares, ![j].ended = @ \cup {p},
                               ![j].begun = IF @ = 0 THEN reuseTime ELSE @]
    BY <1>3 DEF ProviderIsDone
  <2> DEFINE next == [made[j] EXCEPT !.fares[p] = fares, !.ended = IF TRUE THEN @ \cup {p} ELSE @,
                                     !.begun = IF @ = 0 THEN reuseTime ELSE @]
  <2>3. SearchIsRight(next, reuseTime)
    BY <2>1, AnswerIsRight
  <2>4. made' = [made EXCEPT ![j] = next]
    BY <1>T, <2>2 DEF SearchRecord
  <2> HIDE DEF next
  <2> QED
    BY <2>1, <2>3, <2>4, OneSearchChanges
<1>4. ASSUME NEW j \in Made, NEW failed \in BOOLEAN, SearchIsDone(j, failed)
      PROVE  ReuseIInv'
  <2> DEFINE next == [Over(made[j], made[j].fares, failed) EXCEPT !.stopped = FALSE]
  <2>1. made[j].status = "running" /\ made[j].ended = FareProvider /\ reuseTime' = reuseTime
    BY <1>4 DEF SearchIsDone
  <2>2. made[j].fares \in [FareProvider -> FareRecord]
    BY <1>T DEF SearchRecord
  <2>3. \A p \in FareProvider : made[j].fares[p].kind \in {"own", "none"}
    BY <2>1, <2>2 DEF ReuseIInv, SearchIsRight, FareIsRight, FareRecord
  <2>4. SearchIsRight(next, reuseTime)
    BY <2>1, <2>2, <2>3, OverIsRight
  <2> DEFINE over == Over(made[j], made[j].fares, failed)
  <2>5. over \in SearchRecord /\ over.stopped = FALSE
    BY <1>T, <2>2 DEF Over, NotMade, SearchRecord
  <2>6. over = next
    <3> HIDE DEF over
    <3>1. over = [over EXCEPT !.stopped = FALSE]
      BY <2>5 DEF SearchRecord
    <3> QED
      BY <3>1 DEF over
  <2>7. made' = [made EXCEPT ![j] = next]
    BY <1>4, <2>6 DEF SearchIsDone
  <2> HIDE DEF next
  <2> QED
    BY <2>1, <2>4, <2>7, OneSearchChanges
<1>5. ASSUME NEW j \in Made, NEW cachePartial \in BOOLEAN, StopMade(j, cachePartial)
      PROVE  ReuseIInv'
  <2> DEFINE kept == cachePartial /\ \E p \in FareProvider : made[j].fares[p] # NoFares
             fares == Renewed(made[j].fares)
             next == [Over(made[j], fares, TRUE) EXCEPT !.stopped = TRUE]
             cancelled == [NotMade EXCEPT !.status = "cancelled"]
  <2>1. made[j].status = "running" /\ reuseTime' = reuseTime
    BY <1>5 DEF StopMade
  <2>2. CASE kept
    <3>1. made[j].fares \in [FareProvider -> FareRecord]
      BY <1>T DEF SearchRecord
    <3>2. fares \in [FareProvider -> FareRecord]
      BY <3>1 DEF Renewed, Dated, FareRecord
    <3>3. \A p \in FareProvider :
            \/ fares[p] = made[j].fares[p] /\ fares[p].kind \in {"own", "none"}
            \/ fares[p].kind = "renewed"
      BY <3>1 DEF Renewed, Dated, FareRecord
    <3>4. made' = [made EXCEPT ![j] = next]
      BY <1>5, <2>2 DEF StopMade
    <3> HIDE DEF fares
    <3>5. SearchIsRight(next, reuseTime)
      BY <2>1, <3>2, <3>3, OverIsRight
    <3> HIDE DEF next
    <3> QED
      BY <2>1, <3>4, <3>5, OneSearchChanges
  <2>3. CASE ~kept
    <3>1. made' = [made EXCEPT ![j] = cancelled]
      BY <1>5, <2>3 DEF StopMade
    <3>2. SearchIsRight(cancelled, reuseTime)
      BY <1>T, NotMadeIsRight
    <3> HIDE DEF cancelled
    <3> QED
      BY <2>1, <3>1, <3>2, OneSearchChanges
  <2> QED
    BY <2>2, <2>3
<1>6. ASSUME NEW j \in Made, ReadMade(j)
      PROVE  ReuseIInv'
  <2> DEFINE next == [made[j] EXCEPT !.touched = reuseTime]
  <2>1. reuseTime' = reuseTime /\ made' = [made EXCEPT ![j] = next]
    BY <1>6 DEF ReadMade
  <2>2. SearchIsRight(next, reuseTime)
    BY TouchedIsRight
  <2> HIDE DEF next
  <2> QED
    BY <2>1, <2>2, OneSearchChanges
<1>7. ASSUME NEW j \in Made, LeaveMemory(j)
      PROVE  ReuseIInv'
  <2> DEFINE next == [NotMade EXCEPT !.status = "cancelled"]
  <2>1. reuseTime' = reuseTime /\ made' = [made EXCEPT ![j] = next]
    BY <1>7 DEF LeaveMemory
  <2>2. SearchIsRight(next, reuseTime)
    BY <1>T, NotMadeIsRight
  <2> HIDE DEF next
  <2> QED
    BY <2>1, <2>2, OneSearchChanges
<1>8. CASE ReuseTimePasses
  <2>1. reuseTime' = reuseTime + 1 /\ made' = made
    BY <1>8 DEF ReuseTimePasses
  <2>2. ASSUME NEW j \in Made
        PROVE  SearchIsRight(made[j], reuseTime + 1)
    <3>1. made[j] \in SearchRecord /\ SearchIsRight(made[j], reuseTime)
      BY DEF ReuseIInv
    <3>2. (made[j].status = "running" /\ made[j].begun > 0) => reuseTime + 1 <= made[j].begun + SearchTime
      BY <1>T, <1>8, <3>1, ReuseAssumption DEF ReuseTimePasses, SearchRecord
    <3>3. \A p \in FareProvider : FareIsRight(made[j], p, reuseTime + 1)
      BY <1>T, <3>1 DEF SearchIsRight, FareIsRight, SearchRecord, FareRecord
    <3> QED
      BY <1>T, <3>1, <3>2, <3>3 DEF SearchIsRight, SearchRecord
  <2> QED
    BY <1>T, <2>1, <2>2 DEF ReuseIInv
<1>9. CASE UNCHANGED reuseVars
  BY <1>9 DEF ReuseIInv, reuseVars
<1> QED
  BY <1>1, <1>2, <1>3, <1>4, <1>5, <1>6, <1>7, <1>8, <1>9 DEF ReuseNext

(* A fare a search starts with was found no longer before than a search    *)
(* takes and the TTL allows, through any number of searches and reads, and *)
(* only a search a stop kept lists it when it is over                      *)
(* (findRecentCompletedSearchJob, cancelSearchJob).                        *)
THEOREM ReusedIsRecent == ReuseSpec => []ReusedPriceIsRecent
<1>1. ReuseIInv => ReusedPriceIsRecent
  BY DEF ReuseIInv, SearchIsRight, FareIsRight, ReusedPriceIsRecent
<1> QED
  BY <1>1, ReuseInitIsRight, ReuseStepIsRight, PTL DEF ReuseSpec

-----------------------------------------------------------------------------
(* PROVIDER STATUS                                                         *)

Reasons == {"none", "not_checked", "check_in_progress", "partial_results", "error", "context_only"}
StatusRecord ==
  [state : {"unknown", "checking", "ready", "degraded"}, evidence : {"none", "search", "prewarm"},
   reason : Reasons, at : Nat \cup {Never}]
Answers == {"whole", "partial", "failed", "stopped"}
HeardRecord == [answer : Answers \cup {"none"}, at : Nat \cup {Never}, later : BOOLEAN]

IsFresh(at) == statusTime - at < StatusTTL
StateOf(answer) == IF answer = "whole" THEN "ready" ELSE "degraded"

(* What was last heard stands as the evidence of a search while it is      *)
(* fresh and no other search asks; a prewarm never makes Click and Book    *)
(* Plus ready.                                                             *)
StatusIsRight(p) ==
  /\ (heard[p].answer # "none" /\ ~heard[p].later /\ IsFresh(heard[p].at)) =>
       /\ status[p].evidence = "search" /\ status[p].at = heard[p].at
       /\ status[p].state = StateOf(heard[p].answer)
  /\ status[p].at = Never => status[p].state = "unknown"
  /\ (p = "costamar" /\ status[p].state = "ready") => heard[p].answer = "whole"

StatusTypeOK ==
  /\ statusTime \in Nat
  /\ status \in [StatusProvider -> StatusRecord]
  /\ heard \in [StatusProvider -> HeardRecord]

StatusIInv ==
  /\ StatusTypeOK
  /\ \A p \in StatusProvider : heard[p].answer # "none" => heard[p].at # Never
  /\ \A p \in StatusProvider : StatusIsRight(p)

(* What the tracker takes is of now, or what it had, and what a search     *)
(* says is always taken.                                                   *)
LEMMA TakesEither ==
  ASSUME StatusTypeOK, NEW p \in StatusProvider,
         NEW state \in {"unknown", "checking", "ready", "degraded"},
         NEW evidence \in {"search", "prewarm"}, NEW reason \in Reasons
  PROVE  /\ Evidence(state, evidence, reason) \in StatusRecord
         /\ Takes(p, Evidence(state, evidence, reason)) \in StatusRecord
         /\ Evidence(state, evidence, reason).state = state
         /\ Evidence(state, evidence, reason).evidence = evidence
         /\ Evidence(state, evidence, reason).at = statusTime
         /\ \/ Takes(p, Evidence(state, evidence, reason)) = Evidence(state, evidence, reason)
            \/ evidence = "prewarm" /\ Takes(p, Evidence(state, evidence, reason)) = status[p]
         /\ (evidence = "prewarm" /\ status[p].evidence = "search" /\ IsFresh(status[p].at))
               => Takes(p, Evidence(state, evidence, reason)) = status[p]
BY DEF Takes, KeepsSearch, Evidence, StatusTypeOK, StatusRecord, IsFresh

(* What a prewarm says of a provider leaves its status right.              *)
LEMMA PrewarmKeeps ==
  ASSUME StatusIInv, statusTime' = statusTime, heard' = heard, NEW p \in StatusProvider,
         NEW state \in {"unknown", "checking", "ready", "degraded"}, NEW reason \in Reasons,
         p = "costamar" => state # "ready",
         status'[p] = Takes(p, Evidence(state, "prewarm", reason))
  PROVE  status'[p] \in StatusRecord /\ StatusIsRight(p)'
<1> DEFINE record == Evidence(state, "prewarm", reason)
<1>1. /\ Takes(p, record) \in StatusRecord /\ record \in StatusRecord
      /\ record.state = state /\ record.at = statusTime
      /\ Takes(p, record) = record \/ Takes(p, record) = status[p]
      /\ (status[p].evidence = "search" /\ IsFresh(status[p].at)) => Takes(p, record) = status[p]
  BY TakesEither DEF StatusIInv
<1> HIDE DEF record
<1>2. StatusIsRight(p) /\ statusTime \in Nat /\ Never \notin Nat
  BY DEF StatusIInv, StatusTypeOK, Never
<1>3. CASE status'[p] = status[p]
  BY <1>1, <1>2, <1>3 DEF StatusIsRight, IsFresh, record
<1>4. CASE status'[p] # status[p]
  <2>1. status'[p] = record /\ ~(status[p].evidence = "search" /\ IsFresh(status[p].at))
    BY <1>1, <1>4 DEF record
  <2>2. ~(heard[p].answer # "none" /\ ~heard[p].later /\ IsFresh(heard[p].at))
    BY <1>2, <2>1 DEF StatusIsRight
  <2> QED
    BY <1>1, <1>2, <2>1, <2>2 DEF StatusIsRight, IsFresh
<1> QED
  BY <1>3, <1>4

(* Nothing is known when the server starts.                                *)
LEMMA StatusInitIsRight == StatusInit => StatusIInv
<1> SUFFICES ASSUME StatusInit
             PROVE  StatusIInv
  OBVIOUS
<1> DEFINE unknown == [state |-> "unknown", evidence |-> "none", reason |-> "not_checked", at |-> Never]
           unheard == [answer |-> "none", at |-> Never, later |-> FALSE]
<1>1. /\ statusTime = 0
      /\ status = [p \in StatusProvider |-> unknown]
      /\ heard = [p \in StatusProvider |-> unheard]
  BY DEF StatusInit
<1>2. unknown \in StatusRecord /\ unheard \in HeardRecord
  BY DEF StatusRecord, HeardRecord, Reasons
<1>3. /\ unknown.state = "unknown" /\ unheard.answer = "none"
  OBVIOUS
<1> HIDE DEF unknown, unheard
<1>4. \A p \in StatusProvider : StatusIsRight(p)
  BY <1>1, <1>3 DEF StatusIsRight
<1> QED
  BY <1>1, <1>2, <1>3, <1>4 DEF StatusIInv, StatusTypeOK

(* Searches and prewarms that begin and end in any order, and time, keep   *)
(* what is known of the providers right.                                   *)
LEMMA StatusStepIsRight == StatusIInv /\ [StatusNext]_statusVars => StatusIInv'
<1> SUFFICES ASSUME StatusIInv, [StatusNext]_statusVars
             PROVE  StatusIInv'
  OBVIOUS
<1>T. StatusTypeOK
  BY DEF StatusIInv
<1>1. ASSUME NEW s \in Asking, AskProviders(s)
      PROVE  StatusIInv'
  <2> DEFINE record == Evidence("checking", "search", "check_in_progress")
  <2>1. /\ statusTime' = statusTime
        /\ status' = [p \in StatusProvider |-> Takes(p, record)]
        /\ heard' = [p \in StatusProvider |-> [heard[p] EXCEPT !.later = TRUE]]
    BY <1>1 DEF AskProviders
  <2>2. \A p \in StatusProvider :
          /\ Takes(p, record) = record /\ Takes(p, record) \in StatusRecord
          /\ record.state = "checking" /\ record.at = statusTime
    BY <1>T, TakesEither DEF Reasons
  <2> HIDE DEF record
  <2>3. \A p \in StatusProvider :
          /\ heard'[p] \in HeardRecord /\ heard'[p].later = TRUE
          /\ heard'[p].answer = heard[p].answer /\ heard'[p].at = heard[p].at
    BY <1>T, <2>1 DEF StatusTypeOK, HeardRecord
  <2>4. StatusTypeOK'
    BY <1>T, <2>1, <2>2, <2>3 DEF StatusTypeOK
  <2>5. \A p \in StatusProvider : StatusIsRight(p)'
    BY <1>T, <2>1, <2>2, <2>3 DEF StatusIsRight, StatusTypeOK, Never
  <2> QED
    BY <2>3, <2>4, <2>5 DEF StatusIInv
<1>2. ASSUME NEW s \in Asking, NEW p \in StatusProvider, NEW answer \in Answers,
             SearchHears(s, p, answer)
      PROVE  StatusIInv'
  <2>1. CASE answer = "stopped"
    BY <1>2, <2>1 DEF SearchHears, StatusIInv, StatusTypeOK, StatusIsRight, IsFresh
  <2>2. CASE answer # "stopped"
    <3> DEFINE record == SearchOutcome(answer)
               news == [answer |-> answer, at |-> statusTime, later |-> FALSE]
    <3>1. /\ statusTime' = statusTime
          /\ status' = [status EXCEPT ![p] = Takes(p, record)]
          /\ heard' = [heard EXCEPT ![p] = news]
      BY <1>2, <2>2 DEF SearchHears
    <3>2. /\ Takes(p, record) = record /\ record \in StatusRecord
          /\ record.state = StateOf(answer) /\ record.evidence = "search" /\ record.at = statusTime
      <4>1. \E reason \in Reasons : record = Evidence(StateOf(answer), "search", reason)
        <5>1. {"none", "partial_results", "error"} \subseteq Reasons
          BY DEF Reasons
        <5>2. CASE answer = "whole"
          BY <5>1, <5>2 DEF SearchOutcome, StateOf
        <5>3. CASE answer = "partial"
          BY <5>1, <5>3 DEF SearchOutcome, StateOf
        <5>4. CASE answer = "failed"
          BY <5>1, <5>4 DEF SearchOutcome, StateOf
        <5> QED
          BY <2>2, <5>2, <5>3, <5>4 DEF Answers
      <4>2. PICK reason \in Reasons : record = Evidence(StateOf(answer), "search", reason)
        BY <4>1
      <4>3. StateOf(answer) \in {"unknown", "checking", "ready", "degraded"}
        BY DEF StateOf
      <4> QED
        BY <1>T, <4>2, <4>3, TakesEither
    <3>3. news \in HeardRecord /\ news.answer = answer /\ news.at = statusTime /\ answer # "none"
      BY <1>T DEF StatusTypeOK, HeardRecord, Answers
    <3> HIDE DEF record, news
    <3>4. /\ status' \in [StatusProvider -> StatusRecord] /\ heard' \in [StatusProvider -> HeardRecord]
          /\ \A q \in StatusProvider :
               /\ status'[q] = IF q = p THEN record ELSE status[q]
               /\ heard'[q] = IF q = p THEN news ELSE heard[q]
      BY <1>T, <3>1, <3>2, <3>3 DEF StatusTypeOK
    <3>5. StatusIsRight(p)'
      BY <1>T, <3>2, <3>3, <3>4 DEF StatusIsRight, StatusTypeOK, Never, StateOf
    <3>6. \A q \in StatusProvider \ {p} : StatusIsRight(q)'
      BY <3>1, <3>4 DEF StatusIInv, StatusIsRight, IsFresh
    <3>7. \A q \in StatusProvider : heard'[q].answer # "none" => heard'[q].at # Never
      BY <1>T, <3>3, <3>4 DEF StatusIInv, StatusTypeOK, Never
    <3> QED
      BY <1>T, <3>1, <3>4, <3>5, <3>6, <3>7 DEF StatusIInv, StatusTypeOK
  <2> QED
    BY <2>1, <2>2
<1>3. CASE BeginPrewarm
  <2>1. /\ statusTime' = statusTime /\ heard' = heard
        /\ status' = [p \in StatusProvider |-> Takes(p, Evidence("checking", "prewarm", "check_in_progress"))]
    BY <1>3 DEF BeginPrewarm
  <2>2. \A p \in StatusProvider : status'[p] \in StatusRecord /\ StatusIsRight(p)'
    BY <2>1, PrewarmKeeps DEF Reasons
  <2> QED
    BY <1>T, <2>1, <2>2 DEF StatusIInv, StatusTypeOK
<1>4. ASSUME NEW ok \in [StatusProvider -> BOOLEAN], EndPrewarm(ok)
      PROVE  StatusIInv'
  <2>1. /\ statusTime' = statusTime /\ heard' = heard
        /\ status' = [p \in StatusProvider |-> Takes(p, PrewarmOutcome(p, ok[p]))]
    BY <1>4 DEF EndPrewarm
  <2>2. ASSUME NEW p \in StatusProvider
        PROVE  status'[p] \in StatusRecord /\ StatusIsRight(p)'
    <3>1. PICK state \in {"unknown", "ready", "degraded"} : \E reason \in Reasons :
            /\ p = "costamar" => state # "ready"
            /\ PrewarmOutcome(p, ok[p]) = Evidence(state, "prewarm", reason)
      <4>1. {"none", "context_only", "error"} \subseteq Reasons
        BY DEF Reasons
      <4>2. CASE ~ok[p]
        BY <4>1, <4>2 DEF PrewarmOutcome
      <4>3. CASE ok[p] /\ p = "costamar"
        BY <4>1, <4>3 DEF PrewarmOutcome
      <4>4. CASE ok[p] /\ p # "costamar"
        BY <4>1, <4>4 DEF PrewarmOutcome
      <4> QED
        BY <4>2, <4>3, <4>4
    <3>2. PICK reason \in Reasons :
            /\ p = "costamar" => state # "ready"
            /\ PrewarmOutcome(p, ok[p]) = Evidence(state, "prewarm", reason)
      BY <3>1
    <3>3. status'[p] = Takes(p, Evidence(state, "prewarm", reason))
      BY <2>1, <3>2
    <3> QED
      BY <2>1, <3>2, <3>3, PrewarmKeeps
  <2> QED
    BY <1>T, <2>1, <2>2 DEF StatusIInv, StatusTypeOK
<1>5. CASE StatusTimePasses
  <2>1. statusTime' = statusTime + 1 /\ status' = status /\ heard' = heard
    BY <1>5 DEF StatusTimePasses
  <2>2. ASSUME NEW p \in StatusProvider
        PROVE  StatusIsRight(p)'
    <3>1. heard[p].at \in Nat \cup {Never} /\ (heard[p].answer # "none" => heard[p].at # Never)
      BY <1>T DEF StatusTypeOK, StatusIInv, HeardRecord
    <3>2. (heard[p].answer # "none" /\ IsFresh(heard[p].at)') => IsFresh(heard[p].at)
      BY <1>T, <2>1, <3>1, StatusAssumption DEF IsFresh, StatusTypeOK
    <3> QED
      BY <2>1, <3>2 DEF StatusIInv, StatusIsRight
  <2> QED
    BY <1>T, <2>1, <2>2 DEF StatusIInv, StatusTypeOK
<1>6. CASE UNCHANGED statusVars
  BY <1>6 DEF StatusIInv, StatusTypeOK, StatusIsRight, IsFresh, statusVars
<1> QED
  BY <1>1, <1>2, <1>3, <1>4, <1>5, <1>6 DEF StatusNext, Answers

(* What is shown of a provider is what the last search to hear of it heard *)
(* while that is fresh, whatever prewarms begin and end meanwhile; nothing *)
(* older is said (ProviderStatusTracker).                                  *)
THEOREM StatusIsLatest == StatusSpec => []StatusIsLatestEvidence
<1>1. ASSUME StatusIInv, NEW p \in StatusProvider
      PROVE  LET said == Shown(p)
             IN /\ (heard[p].answer # "none" /\ ~heard[p].later /\ statusTime - heard[p].at < StatusTTL) =>
                     said = (IF heard[p].answer = "whole" THEN "ready" ELSE "degraded")
                /\ said \in {"ready", "degraded"} => statusTime - status[p].at < StatusTTL
                /\ (p = "costamar" /\ said = "ready") => heard[p].answer = "whole"
  <2>1. StatusIsRight(p) /\ status[p] \in StatusRecord /\ statusTime \in Nat
    BY <1>1 DEF StatusIInv, StatusTypeOK
  <2>2. status[p].at \in Nat \cup {Never}
    BY <2>1 DEF StatusRecord
  <2> QED
    BY <2>1, <2>2, StatusAssumption DEF StatusIsRight, Shown, IsStale, IsFresh, StateOf, Never
<1>2. StatusIInv => StatusIsLatestEvidence
  BY <1>1 DEF StatusIsLatestEvidence
<1> QED
  BY <1>2, StatusInitIsRight, StatusStepIsRight, PTL DEF StatusSpec

-----------------------------------------------------------------------------
(* REQUESTS                                                                *)

FetchRecord ==
  [step : {"unsent", "waiting", "reading", "over"}, sends : Nat, since : Nat, first : Nat,
   headers : BOOLEAN,
   end : {"none", "cancelled", "unanswered", "answered", "broken", "timed out"}]

(* A request of owner: while it is under way its deadline is that of its   *)
(* first attempt and has not passed, and it waits only before an answer.   *)
FetchIsRight(r, owner, now, halted) ==
  /\ r \in FetchRecord
  /\ r.sends <= 2
  /\ r.step = "unsent" => r.end = "none"
  /\ r.step \in {"waiting", "reading"} =>
       /\ r.end = "none" /\ r.sends \in {1, 2} /\ r.since = r.first
       /\ now <= r.first + FetchLimit /\ owner \notin halted
  /\ r.step \in {"unsent", "waiting"} => ~r.headers
  /\ owner = Shared => r.end # "cancelled"
  /\ r.end = "unanswered" => ~r.headers /\ r.sends = 2

FetchIInv ==
  /\ fetchTime \in Nat /\ stoppedJobs \subseteq Job
  /\ fetches \in [Fetch -> FetchRecord]
  /\ \A f \in Fetch : FetchIsRight(fetches[f], Owner[f], fetchTime, stoppedJobs)

(* The invariant is kept when one request changes and stays right.         *)
LEMMA OneFetchChanges ==
  ASSUME FetchIInv, fetchTime' = fetchTime, stoppedJobs' = stoppedJobs, NEW f \in Fetch, NEW r,
         fetches' = [fetches EXCEPT ![f] = r], FetchIsRight(r, Owner[f], fetchTime, stoppedJobs)
  PROVE  FetchIInv'
<1>1. r \in FetchRecord
  BY DEF FetchIsRight
<1>2. /\ fetches' \in [Fetch -> FetchRecord]
      /\ \A g \in Fetch : fetches'[g] = IF g = f THEN r ELSE fetches[g]
  BY <1>1 DEF FetchIInv
<1>3. \A g \in Fetch : FetchIsRight(fetches'[g], Owner[g], fetchTime, stoppedJobs)
  BY <1>2 DEF FetchIInv
<1> QED
  BY <1>2, <1>3 DEF FetchIInv

(* A request that was not stopped with a search ends as it may: unanswered *)
(* only after its second attempt.                                          *)
LEMMA EndIsRight ==
  ASSUME NEW r, NEW owner, NEW now, NEW halted, FetchIsRight(r, owner, now, halted),
         NEW end \in {"cancelled", "unanswered", "answered", "broken", "timed out"},
         end = "cancelled" => owner # Shared,
         end = "unanswered" => r.step = "waiting" /\ r.sends # 1
  PROVE  \A later : FetchIsRight(FetchOver(r, end), owner, now, later)
<1> DEFINE next == FetchOver(r, end)
<1>1. r \in FetchRecord
  BY DEF FetchIsRight
<1>2. /\ next \in FetchRecord /\ next.step = "over" /\ next.end = end
      /\ next.sends = r.sends /\ next.headers = r.headers
  BY <1>1 DEF FetchOver, FetchRecord
<1> HIDE DEF next
<1>3. \A later : FetchIsRight(next, owner, now, later)
  BY <1>1, <1>2 DEF FetchIsRight, FetchRecord
<1> QED
  BY <1>3 DEF next

(* Nothing is sent when the server starts.                                 *)
LEMMA FetchInitIsRight == FetchInit => FetchIInv
<1>1. NotSent \in FetchRecord
  BY DEF NotSent, FetchRecord
<1> QED
  BY <1>1, FetchAssumption DEF FetchInit, FetchIInv, FetchIsRight, NotSent

(* Requests that are sent, sent again, answered, late or stopped, and      *)
(* time, keep every request right.                                         *)
LEMMA FetchStepIsRight == FetchIInv /\ [FetchNext]_fetchVars => FetchIInv'
<1> SUFFICES ASSUME FetchIInv, [FetchNext]_fetchVars
             PROVE  FetchIInv'
  OBVIOUS
<1>T. /\ fetchTime \in Nat /\ stoppedJobs \subseteq Job
      /\ fetches \in [Fetch -> FetchRecord]
      /\ \A f \in Fetch : FetchIsRight(fetches[f], Owner[f], fetchTime, stoppedJobs)
  BY DEF FetchIInv
<1>A. FetchLimit \in Nat /\ Shared \notin Job
  BY FetchAssumption
<1>1. ASSUME NEW f \in Fetch, SendFetch(f)
      PROVE  FetchIInv'
  <2> DEFINE r == fetches[f]
             sent == [r EXCEPT !.step = "waiting", !.sends = 1, !.since = fetchTime, !.first = fetchTime]
  <2>1. r.step = "unsent" /\ UNCHANGED <<fetchTime, stoppedJobs>>
    BY <1>1 DEF SendFetch
  <2>2. CASE Owner[f] \in stoppedJobs
    <3>1. FetchIsRight(FetchOver(r, "cancelled"), Owner[f], fetchTime, stoppedJobs)
      BY <1>T, <1>A, <2>2, EndIsRight
    <3>2. fetches' = [fetches EXCEPT ![f] = FetchOver(r, "cancelled")]
      BY <1>1, <2>2 DEF SendFetch
    <3> QED
      BY <2>1, <3>1, <3>2, OneFetchChanges
  <2>3. CASE Owner[f] \notin stoppedJobs
    <3>1. FetchIsRight(r, Owner[f], fetchTime, stoppedJobs) /\ r \in FetchRecord
      BY <1>T
    <3>2. /\ sent \in FetchRecord /\ sent.step = "waiting" /\ sent.sends = 1
          /\ sent.since = fetchTime /\ sent.first = fetchTime /\ sent.end = r.end
          /\ sent.headers = r.headers
      BY <1>T, <3>1 DEF FetchRecord
    <3>3. fetches' = [fetches EXCEPT ![f] = sent]
      BY <1>1, <2>3 DEF SendFetch
    <3> HIDE DEF sent, r
    <3>4. FetchIsRight(sent, Owner[f], fetchTime, stoppedJobs)
      BY <1>T, <1>A, <2>1, <2>3, <3>1, <3>2 DEF FetchIsRight
    <3> QED
      BY <2>1, <3>3, <3>4, OneFetchChanges
  <2> QED
    BY <2>2, <2>3
<1>2. ASSUME NEW f \in Fetch, ConnectionDies(f)
      PROVE  FetchIInv'
  <2> DEFINE r == fetches[f]
  <2>1. r.step = "waiting" /\ UNCHANGED <<fetchTime, stoppedJobs>>
    BY <1>2 DEF ConnectionDies
  <2>2. FetchIsRight(r, Owner[f], fetchTime, stoppedJobs) /\ r \in FetchRecord
    BY <1>T
  <2>3. CASE r.sends = 1
    <3> DEFINE sent == Resent(r)
    <3>1. /\ sent \in FetchRecord /\ sent.step = "waiting" /\ sent.sends = 2
          /\ sent.since = r.since /\ sent.first = r.first /\ sent.end = r.end
          /\ sent.headers = r.headers
      <4>1. sent = [r EXCEPT !.sends = 2]
        BY <2>3 DEF Resent
      <4> HIDE DEF sent, r
      <4> QED
        BY <2>1, <2>2, <4>1 DEF FetchRecord
    <3>2. fetches' = [fetches EXCEPT ![f] = sent]
      BY <1>2, <2>3 DEF ConnectionDies
    <3> HIDE DEF sent, r
    <3>3. FetchIsRight(sent, Owner[f], fetchTime, stoppedJobs)
      BY <2>1, <2>2, <3>1 DEF FetchIsRight
    <3> QED
      BY <2>1, <3>2, <3>3, OneFetchChanges
  <2>4. CASE r.sends # 1
    <3>1. FetchIsRight(FetchOver(r, "unanswered"), Owner[f], fetchTime, stoppedJobs)
      BY <2>1, <2>2, <2>4, EndIsRight
    <3>2. fetches' = [fetches EXCEPT ![f] = FetchOver(r, "unanswered")]
      BY <1>2, <2>4 DEF ConnectionDies
    <3> QED
      BY <2>1, <3>1, <3>2, OneFetchChanges
  <2> QED
    BY <2>3, <2>4
<1>3. ASSUME NEW f \in Fetch, ResponseBegins(f)
      PROVE  FetchIInv'
  <2> DEFINE r == fetches[f]
             begun == [r EXCEPT !.step = "reading", !.headers = TRUE]
  <2>1. r.step = "waiting" /\ UNCHANGED <<fetchTime, stoppedJobs>>
    BY <1>3 DEF ResponseBegins
  <2>2. FetchIsRight(r, Owner[f], fetchTime, stoppedJobs) /\ r \in FetchRecord
    BY <1>T
  <2>3. /\ begun \in FetchRecord /\ begun.step = "reading" /\ begun.sends = r.sends
        /\ begun.since = r.since /\ begun.first = r.first /\ begun.end = r.end
    BY <2>2 DEF FetchRecord
  <2>4. fetches' = [fetches EXCEPT ![f] = begun]
    BY <1>T, <1>3 DEF ResponseBegins, FetchRecord
  <2> HIDE DEF begun, r
  <2>5. FetchIsRight(begun, Owner[f], fetchTime, stoppedJobs)
    BY <2>1, <2>2, <2>3 DEF FetchIsRight
  <2> QED
    BY <2>1, <2>4, <2>5, OneFetchChanges
<1>4. ASSUME NEW f \in Fetch, NEW whole \in BOOLEAN, ResponseEnds(f, whole)
      PROVE  FetchIInv'
  <2> DEFINE end == IF whole THEN "answered" ELSE "broken"
  <2>1. UNCHANGED <<fetchTime, stoppedJobs>> /\ fetches' = [fetches EXCEPT ![f] = FetchOver(@, end)]
    BY <1>4 DEF ResponseEnds
  <2>2. FetchIsRight(FetchOver(fetches[f], end), Owner[f], fetchTime, stoppedJobs)
    BY <1>T, EndIsRight
  <2> QED
    BY <2>1, <2>2, OneFetchChanges
<1>5. ASSUME NEW f \in Fetch, Deadline(f)
      PROVE  FetchIInv'
  <2>1. UNCHANGED <<fetchTime, stoppedJobs>> /\ fetches' = [fetches EXCEPT ![f] = FetchOver(@, "timed out")]
    BY <1>5 DEF Deadline
  <2>2. FetchIsRight(FetchOver(fetches[f], "timed out"), Owner[f], fetchTime, stoppedJobs)
    BY <1>T, EndIsRight
  <2> QED
    BY <2>1, <2>2, OneFetchChanges
<1>6. ASSUME NEW j \in Job, JobStops(j)
      PROVE  FetchIInv'
  <2> DEFINE later == stoppedJobs \cup {j}
  <2>1. /\ fetchTime' = fetchTime /\ stoppedJobs' = later
        /\ fetches' = [f \in Fetch |-> IF f \in StopsWith(j) THEN FetchOver(fetches[f], "cancelled") ELSE fetches[f]]
    BY <1>6 DEF JobStops
  <2>2. ASSUME NEW f \in Fetch
        PROVE  FetchIsRight(fetches'[f], Owner[f], fetchTime, later)
    <3>1. CASE f \in StopsWith(j)
      <4>1. Owner[f] # Shared
        BY <1>A, <3>1 DEF StopsWith
      <4>2. FetchIsRight(FetchOver(fetches[f], "cancelled"), Owner[f], fetchTime, later)
        BY <1>T, <4>1, EndIsRight
      <4> QED
        BY <2>1, <3>1, <4>2
    <3>2. CASE f \notin StopsWith(j)
      BY <1>T, <2>1, <3>2 DEF StopsWith, UnderWay, FetchIsRight
    <3> QED
      BY <3>1, <3>2
  <2>3. fetches' \in [Fetch -> FetchRecord]
    BY <2>1, <2>2 DEF FetchIsRight
  <2> QED
    BY <1>T, <2>1, <2>2, <2>3 DEF FetchIInv
<1>7. CASE FetchTimePasses
  <2>1. fetchTime' = fetchTime + 1 /\ UNCHANGED <<stoppedJobs, fetches>>
    BY <1>7 DEF FetchTimePasses
  <2>2. ASSUME NEW f \in Fetch
        PROVE  FetchIsRight(fetches[f], Owner[f], fetchTime + 1, stoppedJobs)
    <3>1. ~(UnderWay(f) /\ fetchTime >= fetches[f].since + FetchLimit)
      BY <1>7 DEF FetchTimePasses, DeadlineIsDue
    <3>2. FetchIsRight(fetches[f], Owner[f], fetchTime, stoppedJobs) /\ fetches[f] \in FetchRecord
      BY <1>T
    <3>3. fetches[f].step \in {"waiting", "reading"} => fetchTime + 1 <= fetches[f].first + FetchLimit
      <4> SUFFICES ASSUME fetches[f].step \in {"waiting", "reading"}
                   PROVE  fetchTime + 1 <= fetches[f].first + FetchLimit
        OBVIOUS
      <4>1. fetches[f].since = fetches[f].first /\ fetches[f].first \in Nat
        BY <3>2 DEF FetchIsRight, FetchRecord
      <4>2. ~(fetchTime >= fetches[f].first + FetchLimit)
        BY <3>1, <4>1 DEF UnderWay
      <4> QED
        BY <1>T, <1>A, <4>1, <4>2
    <3> QED
      BY <3>2, <3>3 DEF FetchIsRight
  <2> QED
    BY <1>T, <2>1, <2>2 DEF FetchIInv
<1>8. CASE UNCHANGED fetchVars
  BY <1>8 DEF FetchIInv, fetchVars
<1> QED
  BY <1>1, <1>2, <1>3, <1>4, <1>5, <1>6, <1>7, <1>8 DEF FetchNext

(* A request is sent at most twice and only if nothing was answered, ends  *)
(* by the deadline of its first attempt, and is stopped with its search,   *)
(* never with another that shares it (fetchProvider).                      *)
THEOREM ResendsSafe == FetchSpec => []ResendsAreSafe
<1>1. FetchIInv => ResendsAreSafe
  BY DEF FetchIInv, FetchIsRight, ResendsAreSafe, UnderWay
<1> QED
  BY <1>1, FetchInitIsRight, FetchStepIsRight, PTL DEF FetchSpec

-----------------------------------------------------------------------------
(* THE SEARCHES AS A WHOLE                                                 *)

(* The run's specification moves one component at a time and leaves the    *)
(* others alone: each of them behaves as its own specification says        *)
(* (the parts of MCSearches).                                              *)
THEOREM SearchesAreTheirParts ==
  SearchesSpec => /\ JobSpec /\ ReuseSpec /\ StatusSpec /\ FetchSpec
<1>0. SearchesInit => /\ JobInit /\ ReuseInit /\ StatusInit /\ FetchInit
  BY DEF SearchesInit
<1>1. [SearchesNext]_searchesVars => [JobNext]_vars
  BY DEF SearchesNext, searchesVars, JobsPart, ReusePart, StatusPart, FetchPart
<1>2. [SearchesNext]_searchesVars => [ReuseNext]_reuseVars
  BY DEF SearchesNext, searchesVars, JobsPart, ReusePart, StatusPart, FetchPart
<1>3. [SearchesNext]_searchesVars => [StatusNext]_statusVars
  BY DEF SearchesNext, searchesVars, JobsPart, ReusePart, StatusPart, FetchPart
<1>4. [SearchesNext]_searchesVars => [FetchNext]_fetchVars
  BY DEF SearchesNext, searchesVars, JobsPart, ReusePart, StatusPart, FetchPart
<1> QED
  BY <1>0, <1>1, <1>2, <1>3, <1>4, PTL
  DEF SearchesSpec, JobSpec, ReuseSpec, StatusSpec, FetchSpec

(* So what is proved of each component holds of every behaviour in which   *)
(* they run together.                                                      *)
COROLLARY SearchesKeepTheirPromises ==
  SearchesSpec => [](ReusedPriceIsRecent /\ StatusIsLatestEvidence /\ ResendsAreSafe)
BY SearchesAreTheirParts, ReusedIsRecent, StatusIsLatest, ResendsSafe, PTL
=============================================================================
