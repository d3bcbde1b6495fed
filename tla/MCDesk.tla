------------------------------- MODULE MCDesk -------------------------------
(* The components between a request and what the page shows, checked side  *)
(* by side: they share no state, so a behaviour moves one of them, its      *)
(* part, and leaves the others where they began.                            *)
EXTENDS FlexibleDates, OfferList, MatrixBoard, WebSession, LoginAdmission,
        RedirectUnit, RunnerProxy, Quotation,
        SearchPage, MonthSweep, StationField, LocationCache, AirlineMarks

CONSTANTS
  t1, t2, s1, s2,         \* texts of a station field, and stations
  l1, l2, l3              \* stations asked for: two of a session, one of another

VARIABLE part

deskVars == <<part, datesVars, offersVars, boardVars, webVars, loginVars,
              redirectVars, allProxyVars, quoteVars, pageVars, sweepPageVars,
              fieldVars, cacheVars, markVars>>

(* A fare for each hazard of the list: two that become the same offer, one  *)
(* whose total is the sum of its parts, one with more schedules than the    *)
(* limit.                                                                   *)
FareWith(outs, ins, total, sum, fee, seats, minutes, outBags, inBags) ==
  [outs |-> outs, ins |-> ins, total |-> total, sum |-> sum, fee |-> fee, seats |-> seats,
   minutes |-> minutes, outBags |-> outBags, inBags |-> inBags, hidden |-> FALSE]
MCFare ==
  {FareWith(<<1, 2>>, <<1>>, 2, 2, 0, 1, 5, 1, 1),
   FareWith(<<1>>, <<1, 2>>, 2, 0, 0, 2, 6, 1, Unknown),
   FareWith(<<1, 2>>, <<1, 2>>, 0, 1, 1, 2, 5, 1, 1)}

(* One text matches two stations and names neither, another names one, and *)
(* a label may be typed by hand.                                           *)
MCMatches == t1 :> {s1, s2} @@ t2 :> {s2} @@ s1 :> {s1}
MCExact == t1 :> NoPlace @@ t2 :> s2 @@ s1 :> s1

(* Two stations asked for in a session and one in another. *)
MCSessionOf == l1 :> 1 @@ l2 :> 1 @@ l3 :> 2

(* The two units read and write stations alike: nothing tells one from the  *)
(* other.                                                                   *)
Alike == Permutations(Unit)

Only(here, values) == IF part = here THEN values ELSE {CHOOSE v \in values : TRUE}

DeskInit ==
  /\ part \in {"dates", "offers", "board", "web session",
               "login", "redirect", "proxy", "quotation", "page", "months",
               "field", "stations", "marks"}
  /\ plan \in Only("offers", Plan) /\ OffersInit
  /\ part # "offers" => results["agil-local"].offers = <<>>
  /\ earlier \in Only("board", [BoardCell -> Cached]) /\ BoardInit
  /\ wanted \in Only("dates", Wanted) /\ DatesInit
  /\ WebInit /\ LoginInit /\ RedirectInit /\ QuotationInit
  /\ ProxyInit
  /\ part # "proxy" => ~delegates /\ \A u \in DOMAIN lifetime : lifetime[u].uses = 1
  /\ PageInit /\ SweepInit /\ FieldInit
  /\ CacheInit /\ MarkInit

DatesPart ==
  /\ part = "dates"
  /\ UNCHANGED <<part, offersVars, boardVars, webVars, loginVars,
                 redirectVars, allProxyVars, quoteVars, pageVars,
                 sweepPageVars, fieldVars, cacheVars, markVars>>
OffersPart ==
  /\ part = "offers"
  /\ UNCHANGED <<part, datesVars, boardVars, webVars, loginVars,
                 redirectVars, allProxyVars, quoteVars, pageVars,
                 sweepPageVars, fieldVars, cacheVars, markVars>>
BoardPart ==
  /\ part = "board"
  /\ UNCHANGED <<part, datesVars, offersVars, webVars, loginVars,
                 redirectVars, allProxyVars, quoteVars, pageVars,
                 sweepPageVars, fieldVars, cacheVars, markVars>>
WebPart ==
  /\ part = "web session"
  /\ UNCHANGED <<part, datesVars, offersVars, boardVars, loginVars,
                 redirectVars, allProxyVars, quoteVars, pageVars,
                 sweepPageVars, fieldVars, cacheVars, markVars>>
LoginPart ==
  /\ part = "login"
  /\ UNCHANGED <<part, datesVars, offersVars, boardVars, webVars,
                 redirectVars, allProxyVars, quoteVars, pageVars,
                 sweepPageVars, fieldVars, cacheVars, markVars>>
RedirectPart ==
  /\ part = "redirect"
  /\ UNCHANGED <<part, datesVars, offersVars, boardVars, webVars, loginVars,
                 allProxyVars, quoteVars, pageVars, sweepPageVars, fieldVars,
                 cacheVars, markVars>>
ProxyPart ==
  /\ part = "proxy"
  /\ UNCHANGED <<part, datesVars, offersVars, boardVars, webVars, loginVars,
                 redirectVars, quoteVars, pageVars, sweepPageVars, fieldVars,
                 cacheVars, markVars>>
QuotePart ==
  /\ part = "quotation"
  /\ UNCHANGED <<part, datesVars, offersVars, boardVars, webVars, loginVars,
                 redirectVars, allProxyVars, pageVars, sweepPageVars,
                 fieldVars, cacheVars, markVars>>
PagePart ==
  /\ part = "page"
  /\ UNCHANGED <<part, datesVars, offersVars, boardVars, webVars, loginVars,
                 redirectVars, allProxyVars, quoteVars, sweepPageVars,
                 fieldVars, cacheVars, markVars>>
MonthsPart ==
  /\ part = "months"
  /\ UNCHANGED <<part, datesVars, offersVars, boardVars, webVars, loginVars,
                 redirectVars, allProxyVars, quoteVars, pageVars, fieldVars,
                 cacheVars, markVars>>
FieldPart ==
  /\ part = "field"
  /\ UNCHANGED <<part, datesVars, offersVars, boardVars, webVars, loginVars,
                 redirectVars, allProxyVars, quoteVars, pageVars,
                 sweepPageVars, cacheVars, markVars>>
StationsPart ==
  /\ part = "stations"
  /\ UNCHANGED <<part, datesVars, offersVars, boardVars, webVars, loginVars,
                 redirectVars, allProxyVars, quoteVars, pageVars,
                 sweepPageVars, fieldVars, markVars>>
MarksPart ==
  /\ part = "marks"
  /\ UNCHANGED <<part, datesVars, offersVars, boardVars, webVars, loginVars,
                 redirectVars, allProxyVars, quoteVars, pageVars,
                 sweepPageVars, fieldVars, cacheVars>>

DeskNext ==
  \/ DatesPart /\ DatesNext
  \/ OffersPart /\ OffersNext
  \/ BoardPart /\ BoardNext
  \/ WebPart /\ WebNext
  \/ LoginPart /\ LoginNext
  \/ RedirectPart /\ RedirectNext
  \/ ProxyPart /\ ProxyNext
  \/ QuotePart /\ QuotationNext
  \/ PagePart /\ PageNext
  \/ MonthsPart /\ SweepNext
  \/ FieldPart /\ FieldNext
  \/ StationsPart /\ CacheNext
  \/ MarksPart /\ MarkNext

DeskSpec == DeskInit /\ [][DeskNext]_deskVars

(* Normalizing a request keeps the dates it asks for                        *)
(* (NormalizingKeepsDates), and what is accepted is what is asked           *)
(* (AcceptedIsAskable).                                                     *)
DatesAreKept == []AcceptedIsAskable /\ NormalizingKeepsDates

(* The list holds what the providers answered, whatever was cached before   *)
(* (ListIsWhatWasAnswered), their order leaves no trace in it               *)
(* (ArrivalLeavesNoTrace), and each schedule to choose from leads to one of *)
(* its offers (SchedulesAreOffers).                                         *)
ListIsTheAnswers ==
  part = "offers" =>
    OffersTypeOK /\ ListIsWhatWasAnswered /\ ArrivalLeavesNoTrace /\ SchedulesAreOffers

(* A board's live prices only improve (PricesOnlyImprove), and when it is   *)
(* complete nothing cached is left in it (CompletedBoardIsFresh).           *)
BoardOnlyImproves == [](BoardTypeOK /\ CompletedBoardIsFresh) /\ PricesOnlyImprove

(* The session cookie ends a window after the last work and at its cap, and *)
(* the links' cookie by the window alone (SessionsEnd); whoever was told to *)
(* wait to sign in waits, unless clients that came later leave no room      *)
(* (BlockedUntilTold).                                                      *)
AccessHolds == SessionsEnd /\ BlockedUntilTold

(* Where requests go from one unit to another (SearchesCountOnce).          *)
HopsCountOnce == part = "proxy" => SearchesCountOnce

(* What several share is right: a station that was picked is not changed by *)
(* what was asked before (LateAnswersAreIgnored), the stations of a text    *)
(* are recent and within the limits but for what refused loads kept         *)
(* (StationsAreFresh), and a mark is served whole (MarksAreWhole).          *)
SharedAnswersAreRight == LateAnswersAreIgnored /\ StationsAreFresh /\ MarksAreWhole

(* Stopping or replacing a search in the page stops it in the server: no    *)
(* job the page learns of is forgotten (NoJobForgotten), the new search     *)
(* does not queue behind it (CapacityFreedFirst), and a sweep stops each of *)
(* its months (StopReachesEveryMonth).                                      *)
StopsReachTheServer == NoJobForgotten /\ CapacityFreedFirst /\ StopReachesEveryMonth
=============================================================================
