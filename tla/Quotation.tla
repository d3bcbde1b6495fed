------------------------------ MODULE Quotation -----------------------------
(***************************************************************************)
(* The quote of an offer (the quotation functions of src/src/http-router.ts *)
(* and src/src/quotation-exchange-rate.ts): an offer is quoted as the list *)
(* has it while it is fresh, and asked of its provider again when it is    *)
(* not, once for all who click meanwhile; the search it is of may still    *)
(* run, be stored, or have left memory. The price in the other currency     *)
(* needs the day's exchange rate.                                           *)
(*                                                                         *)
(* A price is when the provider said it; texts and offers' other fields are *)
(* left out.                                                                *)
(***************************************************************************)
EXTENDS Integers, FiniteSets

CONSTANTS
  Clicks,
  Freshness,       \* QUOTATION_FARE_FRESHNESS_MS
  ValidationLimit, \* QUOTATION_VALIDATION_DEADLINE_MS
  RateLimit,       \* quotationRateTimeoutMs
  SearchLasts,     \* bound of a search that goes on after the fare arrived
  RateDay,         \* ticks of a day
  MaxQuoteTime     \* bound of the clock

ASSUME QuotationAssumption ==
  /\ {Freshness, ValidationLimit, RateLimit, SearchLasts, MaxQuoteTime} \subseteq Nat
  /\ RateDay \in Nat \ {0}

VARIABLES
  quoteTime,
  offer,           \* as the store has it
  session,         \* "running" | "memory" (it has ended) | "disk" | "gone"
  found,           \* the offer as the search that runs has it
  prefetch,        \* the shared lookup of the search's rate
  inFlight,        \* quotationValidationsInFlight of the offer: since when
  clicks,
  dayRate          \* cachedUsdToPenRate

quoteVars == <<quoteTime, offer, session, found, prefetch, inFlight, clicks, dayRate>>

No == -1
RateToday == quoteTime \div RateDay
(* links: what is put in place of the provider's URLs as an offer is saved. *)
QuoteFare(price, rate, needs) ==
  [price |-> price, prepared |-> No, verified |-> No, rate |-> rate, needs |-> needs, links |-> "raw"]
NoOffer == QuoteFare(No, No, FALSE)
NoQuote == [at |-> "idle", since |-> 0, source |-> NoOffer, offer |-> NoOffer, code |-> 0]

InWindow(at) == at # No /\ quoteTime - at <= Freshness
(* isOfferQuotableAsIs: "validated" by its verification, or live.          *)
QuotableAsIs(o) == InWindow(IF o.verified # No THEN o.verified ELSE o.prepared)

(* prepareOffersForQuotation, with its own rate or the one found: without a *)
(* rate it needs an offer loses its mark, and otherwise a mark it has stays. *)
Prepared(o, rate) ==
  LET r == IF o.rate # No THEN o.rate ELSE rate
  IN [o EXCEPT !.rate = r, !.prepared = IF o.needs /\ r = No THEN No ELSE IF @ # No THEN @ ELSE quoteTime]
Stored(o) == [o EXCEPT !.links = "handles"]       \* rewriteOfferPaths

(* createSharedQuotationRateResolver: one lookup, and one more at the end  *)
(* if the first was only a prefetch that found nothing.                     *)
StartPrefetch(o) == IF o.needs /\ o.rate = No /\ prefetch.at = "none" THEN [at |-> "looking", rate |-> No, tries |-> 1] ELSE prefetch

FareArrives ==
  /\ session = "running" /\ found = NoOffer
  /\ \E needs \in BOOLEAN, own \in {No, RateToday} :
       LET o == QuoteFare(quoteTime, own, needs)
       IN found' = o /\ offer' = Stored(Prepared(o, No)) /\ prefetch' = StartPrefetch(o)
  /\ UNCHANGED <<quoteTime, session, inFlight, clicks, dayRate>>

(* A progress sync prepares what the search has anew, and saves it over    *)
(* whatever a quote stored meanwhile.                                       *)
SearchSync ==
  /\ session = "running" /\ found # NoOffer
  /\ offer' = Stored(Prepared(found, No)) /\ offer' # offer
  /\ UNCHANGED <<quoteTime, session, found, prefetch, inFlight, clicks, dayRate>>

(* resolveStandaloneUsdToPenRateInfo of an offer: its own rate, which then *)
(* is the day's, or the day's; only then is anybody asked.                  *)
KnownRate(o) == IF o.rate # No THEN o.rate ELSE IF dayRate.day = RateToday THEN dayRate.rate ELSE No
RemembersRate(rate) == IF rate = No THEN dayRate ELSE [day |-> RateToday, rate |-> rate]

PrefetchAnswers ==
  /\ prefetch.at = "looking"
  /\ \E got \in {No, RateToday} :
       LET rate == IF dayRate.day = RateToday THEN dayRate.rate ELSE got
       IN prefetch' = [prefetch EXCEPT !.at = "answered", !.rate = rate] /\ dayRate' = RemembersRate(rate)
  /\ UNCHANGED <<quoteTime, offer, session, found, inFlight, clicks>>

(* resolveQuotationReadyOffers, as the search ends: it waits for the lookup *)
(* and asks once more if that found nothing.                                *)
SearchEnds ==
  /\ session = "running" /\ found # NoOffer
  /\ LET ready == Prepared(found, No)
         waits == found.needs /\ ready.prepared = No
     IN \/ /\ ~waits \/ (prefetch.at = "answered" /\ (prefetch.rate # No \/ prefetch.tries = 2))
           /\ offer' = Stored(Prepared(found, IF waits THEN prefetch.rate ELSE No))
           /\ session' = "memory" /\ found' = NoOffer /\ UNCHANGED prefetch
        \/ /\ waits /\ prefetch.at = "answered" /\ prefetch.rate = No /\ prefetch.tries = 1
           /\ prefetch' = [at |-> "looking", rate |-> No, tries |-> 2]
           /\ UNCHANGED <<offer, session, found>>
  /\ UNCHANGED <<quoteTime, inFlight, clicks, dayRate>>

(* The store evicts a job that ended, and later deletes it.                *)
SessionLeaves ==
  /\ session \in {"memory", "disk"}
  /\ session' = IF session = "memory" THEN "disk" ELSE "gone"
  /\ UNCHANGED <<quoteTime, offer, found, prefetch, inFlight, clicks, dayRate>>

(* What is quoted, and the rate it needs, known or looked up.              *)
Quoted(c, o) ==
  IF o.needs /\ KnownRate(o) = No THEN [c EXCEPT !.at = "rating", !.since = quoteTime, !.offer = o]
  ELSE [c EXCEPT !.at = "told", !.code = 200, !.since = quoteTime,
                 !.offer = [o EXCEPT !.rate = IF o.needs THEN KnownRate(o) ELSE @]]
RateAfter(o) == IF o.needs THEN RemembersRate(KnownRate(o)) ELSE dayRate

(* resolveQuotationSource, resolveValidatedQuotationOffer.                 *)
Click(k) ==
  /\ clicks[k].at = "idle" /\ offer # NoOffer
  /\ LET c == [NoQuote EXCEPT !.since = quoteTime, !.source = offer]
     IN IF session = "gone"
        THEN /\ clicks' = [clicks EXCEPT ![k] = [NoQuote EXCEPT !.at = "told", !.code = 404]]
             /\ UNCHANGED <<inFlight, dayRate>>
        ELSE IF QuotableAsIs(offer)
        THEN /\ clicks' = [clicks EXCEPT ![k] = Quoted(c, offer)]
             /\ dayRate' = RateAfter(offer)
             /\ UNCHANGED inFlight
        ELSE /\ clicks' = [clicks EXCEPT ![k] = [c EXCEPT !.at = "validating"]]
             /\ inFlight' = IF inFlight = No THEN quoteTime ELSE inFlight
             /\ UNCHANGED dayRate
  /\ UNCHANGED <<quoteTime, offer, session, found, prefetch>>

(* Mutant: the offer is marked as confirmed, at the price it had. *)
ConfirmedAsItWas(o, price, own) ==
  LET p == Prepared(QuoteFare(o.price, own, o.needs), o.rate)
  IN [p EXCEPT !.verified = quoteTime]

(* The offer the provider gives now, with the rate of the one it replaces. *)
Confirmed(o, price, own) ==
  LET p == Prepared(QuoteFare(price, own, o.needs), o.rate)
  IN [p EXCEPT !.verified = quoteTime]

Validating == {k \in Clicks : clicks[k].at = "validating"}

(* storeValidatedQuotationOffer: what has left memory is not updated, and  *)
(* its links are those of the stored offer.                                 *)
InMemory == session \in {"running", "memory"}
Saved(o) == IF InMemory THEN Stored(o) ELSE [o EXCEPT !.links = "handles"]

(* The provider answers, with the same flight or without it: all who wait  *)
(* go on, each with the offer it clicked on.                                *)
ProviderConfirms ==
  /\ inFlight # No
  /\ \E own \in {No, RateToday} :
       LET new(k) == Saved(Confirmed(clicks[k].source, quoteTime, own))
       IN /\ clicks' = [k \in Clicks |-> IF k \in Validating THEN Quoted(clicks[k], new(k)) ELSE clicks[k]]
          /\ offer' = IF InMemory /\ Validating # {} THEN new(CHOOSE k \in Validating : TRUE) ELSE offer
          /\ dayRate' = IF Validating = {} THEN dayRate ELSE RateAfter(new(CHOOSE k \in Validating : TRUE))
  /\ inFlight' = No
  /\ UNCHANGED <<quoteTime, session, found, prefetch>>

(* Another flight, an error, or the deadline: 409. A search that answers   *)
(* later answers nobody.                                                    *)
ValidationFails ==
  /\ inFlight # No
  /\ clicks' = [k \in Clicks |-> IF k \in Validating THEN [NoQuote EXCEPT !.at = "told", !.code = 409] ELSE clicks[k]]
  /\ inFlight' = No
  /\ UNCHANGED <<quoteTime, offer, session, found, prefetch, dayRate>>

(* fetchExternalUsdToPenRateInfo, within its own time.                     *)
RateAnswers(k) ==
  /\ clicks[k].at = "rating"
  /\ \E got \in {No, RateToday} :
       /\ clicks' = [clicks EXCEPT ![k].at = "told", ![k].code = 200, ![k].since = quoteTime, ![k].offer.rate = got]
       /\ dayRate' = RemembersRate(got)
  /\ UNCHANGED <<quoteTime, offer, session, found, prefetch, inFlight>>

QuoteTimePasses ==
  /\ quoteTime < MaxQuoteTime
  /\ session = "running" /\ found # NoOffer => quoteTime < found.price + SearchLasts
  /\ inFlight # No => quoteTime < inFlight + ValidationLimit
  /\ \A k \in Clicks : clicks[k].at = "rating" => quoteTime < clicks[k].since + RateLimit
  /\ quoteTime' = quoteTime + 1
  /\ UNCHANGED <<offer, session, found, prefetch, inFlight, clicks, dayRate>>

QuotationInit ==
  /\ quoteTime = 0 /\ offer = NoOffer /\ session = "running" /\ found = NoOffer
  /\ prefetch = [at |-> "none", rate |-> No, tries |-> 0] /\ inFlight = No
  /\ clicks = [k \in Clicks |-> NoQuote]
  /\ dayRate = [day |-> No, rate |-> No]

QuotationNext ==
  \/ FareArrives \/ SearchSync \/ PrefetchAnswers \/ SearchEnds \/ SessionLeaves
  \/ \E k \in Clicks : Click(k) \/ RateAnswers(k)
  \/ ProviderConfirms \/ ValidationFails \/ QuoteTimePasses

QuotationSpec == QuotationInit /\ [][QuotationNext]_quoteVars

---------------------------------------------------------------------------
(* Whatever a click joins, and wherever its search has gone: the price that *)
(* is quoted was said by the provider within the freshness of the end of    *)
(* its search, no URL of a provider reaches a browser, nobody waits longer  *)
(* than the deadline of a validation, and a search looks up its rate at     *)
(* most twice.                                                              *)
QuotesAreConfirmed ==
  /\ \A k \in Clicks :
       LET c == clicks[k]
       IN /\ c.at = "told" /\ c.code = 200 =>
               /\ c.since - c.offer.price <= Freshness + SearchLasts + RateLimit
               /\ c.offer.verified # No => c.since - c.offer.price <= Freshness + RateLimit
               /\ c.offer.links = "handles"
          /\ c.at = "validating" => inFlight # No /\ quoteTime - c.since <= ValidationLimit
  /\ prefetch.tries <= 2
=============================================================================
