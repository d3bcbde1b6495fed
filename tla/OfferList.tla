------------------------------ MODULE OfferList ------------------------------
(***************************************************************************)
(* The list of offers a search shows. Each provider answers in parts, the  *)
(* GDS of an exact search or the days of a range, in any order; an answer  *)
(* is a sequence of fares, which are expanded into offers, one for each    *)
(* pair of schedules (src/src/local-agil.ts, src/src/local-costamar.ts).   *)
(* The runner merges what is reported into a state per provider, which a   *)
(* cached search may seed (src/src/http-router.ts), and materializes the   *)
(* list: grouped, sorted, and with its schedules to choose from            *)
(* (src/src/core/offer-grouping.ts, ranking.ts, offer-schedule-groups.ts). *)
(*                                                                         *)
(* A journey is the number of its schedule; its segments, airlines, links  *)
(* and texts are left out. The list is shown whenever it is read, so it is *)
(* an operator of the states.                                              *)
(***************************************************************************)
EXTENDS Integers, FiniteSets, Sequences, SequencesExt

CONSTANTS
  Fare,           \* the fares a provider may answer with
  PartCount,      \* GDS of an exact search of Agil, days of a range
  VariantLimit    \* PROVIDER_OFFER_VARIANT_LIMIT

Provider == {"agil-local", "costamar"}
Unknown == -1

ASSUME OffersAssumption ==
  /\ {PartCount, VariantLimit} \subseteq Nat \ {0}
  /\ \A f \in Fare :
       /\ {f.total, f.sum, f.fee, f.seats, f.minutes} \subseteq Nat
       /\ {f.outBags, f.inBags} \subseteq Nat \union {Unknown}
       /\ f.outs \in Seq(Nat) /\ f.ins \in Seq(Nat) /\ Len(f.outs) > 0

VARIABLES
  plan,       \* the search: its mode, its trip, its order
  answers,    \* each provider's parts that were answered, in the order they were
  results,    \* ProviderSearchState of each provider
  dropped     \* parts that failed

offersVars == <<plan, answers, results, dropped>>

Plan == [mode : {"exact", "range"}, sort : {"cheapest", "fastest"}]
Parts(p, mode) == IF p = "costamar" /\ mode = "exact" THEN {1} ELSE 1..PartCount
Answered(p) == {answers[p][i].part : i \in DOMAIN answers[p]}

---------------------------------------------------------------------------
(* Fares into offers.                                                      *)

Known(bags) == {b \in bags : b # Unknown}
Least(s) == CHOOSE n \in s : \A m \in s : n <= m
Most(s) == CHOOSE n \in s : \A m \in s : m <= n

(* The pairs of schedules of a fare, outbound first, cut at the limit. A   *)
(* round trip without a journey back has none.                             *)
AllPairs(fare) ==
  FlattenSeq([o \in DOMAIN fare.outs |-> [i \in DOMAIN fare.ins |-> <<fare.outs[o], fare.ins[i]>>]])
SchedulePairs(fare) ==
  LET pairs == AllPairs(fare)
  IN SubSeq(pairs, 1, Least({VariantLimit, Len(pairs)}))
Truncated(fare) == Len(fare.outs) * Len(fare.ins) > VariantLimit

(* What Agil counts as included is the least of the two journeys.          *)
AgilBags(fare) ==
  LET known == Known({fare.outBags, fare.inBags})
  IN IF known = {} THEN Unknown ELSE Least(known)

(* Click and Book Plus counts the most, and includes it if both do.        *)
CostamarBags(fare) ==
  LET known == Known({fare.outBags, fare.inBags})
  IN IF known = {} THEN Unknown ELSE Most(known)

(* The provider's total, or the sum of what it breaks down.                *)
AgilTotal(fare) == IF fare.total > 0 THEN fare.total ELSE fare.sum
CostamarTotal(fare) == (IF fare.total > 0 THEN fare.total ELSE fare.sum) + fare.fee

Offer(p, answer, n, pair, price, bags) ==
  LET fare == answer.fares[n]
  IN [from |-> p, paths |-> {p}, group |-> <<answer.part, n>>,
      day |-> answer.day, out |-> pair[1], in |-> pair[2],
      price |-> price, bags |-> bags, seats |-> fare.seats, minutes |-> fare.minutes,
      truncated |-> Truncated(fare)]

(* A group without a price, or that the provider hides, has no offer.      *)
MapGroup(answer, n) ==
  LET fare == answer.fares[n]
      pairs == SchedulePairs(fare)
  IN IF fare.hidden \/ AgilTotal(fare) = 0 THEN <<>>
     ELSE [i \in DOMAIN pairs |-> Offer("agil-local", answer, n, pairs[i], AgilTotal(fare), AgilBags(fare))]

MapRecommendation(answer, n) ==
  LET fare == answer.fares[n]
      pairs == SchedulePairs(fare)
  IN IF CostamarTotal(fare) = 0 THEN <<>>
     ELSE [i \in DOMAIN pairs |-> Offer("costamar", answer, n, pairs[i], CostamarTotal(fare), CostamarBags(fare))]

Mapped(p, answer) ==
  FlattenSeq([n \in DOMAIN answer.fares |->
    IF p = "agil-local" THEN MapGroup(answer, n) ELSE MapRecommendation(answer, n)])

SameFare(a, b) ==
  /\ <<a.day, a.out, a.in, a.bags>> = <<b.day, b.out, b.in, b.bags>>
  /\ a.price = b.price

MoreSeats(a, b) ==
  IF b.seats > a.seats \/ (b.seats = a.seats /\ b.minutes < a.minutes) THEN b ELSE a
Shorter(a, b) == IF b.minutes < a.minutes THEN b ELSE a

Key(offer) == <<offer.price, offer.day, offer.minutes, offer.out, offer.in, offer.bags>>
SameKey(a, b) == Key(a) = Key(b)
JoinPaths(a, b) == [a EXCEPT !.paths = @ \union b.paths]

Same(rule, a, b) == IF rule = "list" THEN SameKey(a, b) ELSE SameFare(a, b)
Joined(rule, a, b) ==
  CASE rule = "list" -> JoinPaths(a, b)
    [] rule = "agil-local" -> MoreSeats(a, b)
    [] rule = "costamar" -> Shorter(a, b)

(* Offers put together one after the other: one that is the same as one    *)
(* kept joins it in its place, by the rule of a provider or of the list.   *)
Adding(rule, kept, offer) ==
  LET at == {i \in DOMAIN kept : Same(rule, kept[i], offer)}
  IN IF at = {} THEN Append(kept, offer)
     ELSE [kept EXCEPT ![Least(at)] = Joined(rule, kept[Least(at)], offer)]
Kept(offers, rule) ==
  LET kept[n \in 0..Len(offers)] == IF n = 0 THEN <<>> ELSE Adding(rule, kept[n - 1], offers[n])
  IN kept[Len(offers)]

DedupeAgil(offers) == Kept(offers, "agil-local")
DedupeCostamar(offers) == Kept(offers, "costamar")
Deduped(p, offers) == IF p = "agil-local" THEN DedupeAgil(offers) ELSE DedupeCostamar(offers)

(* Everything a provider answered so far, in the order it came.            *)
AllMapped(p, told) == FlattenSeq([i \in DOMAIN told |-> Mapped(p, told[i])])

---------------------------------------------------------------------------
(* The list.                                                               *)

Grouped(offers) == Kept(offers, "list")

(* A total order of keys stands for that of the ids, which are hashes.     *)
KeyBefore(a, b) ==
  \E i \in DOMAIN a : a[i] < b[i] /\ \A j \in 1..(i - 1) : a[j] = b[j]

(* Mutant: equal prices stay in the order they came. *)
SortKeyOfPrice(sort, offer) == IF sort = "cheapest" THEN <<offer.price>> ELSE <<offer.minutes>>

SortKey(sort, offer) ==
  <<IF sort = "cheapest" THEN offer.price ELSE offer.minutes, offer.day>> \o Key(offer)

(* A stable sort: each offer has in front of it those that precede it.     *)
(* (s \o <<>> is s; TLC then works out its elements once.)                 *)
Sorted(sort, offers) ==
  LET key == [i \in DOMAIN offers |-> SortKey(sort, offers[i])] \o <<>>
      before(j, i) == IF j < i THEN ~KeyBefore(key[i], key[j]) ELSE KeyBefore(key[j], key[i])
      place == [i \in DOMAIN offers |-> Cardinality({j \in DOMAIN offers : before(j, i)})] \o <<>>
  IN [k \in DOMAIN offers |-> offers[CHOOSE i \in DOMAIN offers : place[i] = k - 1]]

AllOffers == results["agil-local"].offers \o results["costamar"].offers
Materialized(offers) == Sorted(plan.sort, Grouped(offers))
List == Materialized(AllOffers)

(* groupKeyForOffer: a fare of a provider, as far as its terms are equal.  *)
Bucket(offer) == <<offer.from, offer.group, offer.day, offer.price, offer.bags>>

(* The schedules of a fare that can be chosen: of offers in the list only. *)
ScheduleGroups(offers) ==
  LET buckets == {Bucket(offers[i]) : i \in DOMAIN offers}
      members(b) == {i \in DOMAIN offers : Bucket(offers[i]) = b}
      combinations(b) ==
        {i \in members(b) : \A j \in members(b) :
           <<offers[j].out, offers[j].in>> = <<offers[i].out, offers[i].in>> => i <= j}
  IN {[outbound |-> {offers[i].out : i \in members(b)},
       inbound |-> {offers[i].in : i \in members(b)},
       combinations |-> combinations(b),
       truncated |-> \E i \in members(b) : offers[i].truncated]
      : b \in {c \in buckets : Cardinality(combinations(c)) > 1}}

---------------------------------------------------------------------------
(* The search.                                                             *)

Nothing(p, cached) ==
  [offers |-> cached, partial |-> TRUE, completed |-> FALSE, fresh |-> FALSE]

OneFare == {<<>>} \union {<<f>> : f \in Fare}
DayOf(part) == IF plan.mode = "range" THEN part ELSE 1
Answer(part, fares) == [part |-> part, day |-> DayOf(part), fares |-> fares]

(* createProviderSearchStates: a recent search of the same request shows   *)
(* its offers until each provider answers.                                 *)
OffersInit ==
  /\ plan \in Plan
  /\ answers = [p \in Provider |-> <<>>]
  /\ dropped = [p \in Provider |-> {}]
  /\ \E fares \in OneFare :
       results = [p \in Provider |->
         Nothing(p, IF p = "agil-local" THEN Mapped(p, [part |-> 1, day |-> 1, fares |-> fares]) ELSE <<>>)]

(* Mutant: the offers of the earlier search stay under the new ones. *)
MergedOntoCache(current, update) ==
  IF update.incremental
  THEN [current EXCEPT !.offers = @ \o update.offers, !.fresh = TRUE]
  ELSE [offers |-> update.offers, partial |-> TRUE, completed |-> FALSE, fresh |-> TRUE]

Merged(current, update) ==
  IF update.incremental /\ current.fresh
  THEN [current EXCEPT !.offers = @ \o update.offers, !.partial = TRUE, !.completed = FALSE]
  ELSE [offers |-> update.offers, partial |-> TRUE, completed |-> FALSE, fresh |-> TRUE]

(* What is reported after a part: in a range that day alone, in an exact   *)
(* search everything so far.                                               *)
Update(p, told, answer) ==
  IF plan.mode = "range"
  THEN [offers |-> Deduped(p, Mapped(p, answer)), incremental |-> TRUE]
  ELSE [offers |-> Deduped(p, AllMapped(p, told)), incremental |-> FALSE]

Open(p, part) ==
  /\ ~results[p].completed
  /\ part \in Parts(p, plan.mode) \ (Answered(p) \union dropped[p])

PartAnswers(p, part) ==
  /\ Open(p, part)
  /\ \E fares \in OneFare :
       LET answer == Answer(part, fares)
           told == Append(answers[p], answer)
       IN /\ answers' = [answers EXCEPT ![p] = told]
          /\ results' = [results EXCEPT ![p] = Merged(@, Update(p, told, answer))]
  /\ UNCHANGED <<plan, dropped>>

(* A GDS or a day is left out, which is reported too; Click and Book Plus  *)
(* has one request in an exact search, and fails with it.                  *)
PartFails(p, part) ==
  /\ Open(p, part)
  /\ Parts(p, plan.mode) # {part}
  /\ dropped' = [dropped EXCEPT ![p] = @ \union {part}]
  /\ results' = [results EXCEPT ![p] = Merged(@, Update(p, answers[p], Answer(part, <<>>)))]
  /\ UNCHANGED <<plan, answers>>

(* The provider's last word replaces what it reported.                     *)
ProviderCompletes(p) ==
  /\ ~results[p].completed
  /\ Answered(p) \union dropped[p] = Parts(p, plan.mode)
  /\ Answered(p) # {}
  /\ results' = [results EXCEPT ![p] =
       [offers |-> Deduped(p, AllMapped(p, answers[p])), partial |-> dropped[p] # {},
        completed |-> TRUE, fresh |-> TRUE]]
  /\ UNCHANGED <<plan, answers, dropped>>

(* A provider that fails keeps what it reported, and not what was cached.  *)
ProviderFails(p) ==
  /\ ~results[p].completed
  /\ results' = [results EXCEPT ![p] =
       [offers |-> IF @.fresh THEN @.offers ELSE <<>>, partial |-> TRUE, completed |-> TRUE, fresh |-> TRUE]]
  /\ UNCHANGED <<plan, answers, dropped>>

OffersNext ==
  \E p \in Provider :
    \/ \E part \in 1..PartCount : PartAnswers(p, part) \/ PartFails(p, part)
    \/ ProviderCompletes(p) \/ ProviderFails(p)

OffersSpec == OffersInit /\ [][OffersNext]_offersVars

OffersTypeOK ==
  /\ plan \in Plan
  /\ \A p \in Provider :
       /\ Answered(p) \union dropped[p] \subseteq Parts(p, plan.mode)
       /\ Answered(p) \intersect dropped[p] = {}
       /\ {results[p].partial, results[p].completed, results[p].fresh} \subseteq BOOLEAN

---------------------------------------------------------------------------
(* Every fare a provider answered is in the list, with a path of that      *)
(* provider to buy it, whatever else was deduplicated, grouped or came     *)
(* later, and the list shows nothing else of a provider that answered:     *)
(* what an earlier search left is gone.                                    *)
ListIsWhatWasAnswered ==
  LET list == ToSet(List)
  IN \A p \in {q \in Provider : results[q].fresh} :
    LET offers == ToSet(AllMapped(p, answers[p]))
        listed == {offer \in list : p \in offer.paths}
    IN /\ \A o \in offers : \E l \in listed : SameFare(o, l)
       /\ \A l \in listed : \E o \in offers : SameFare(o, l)

InPartOrder(told) ==
  [k \in DOMAIN told |->
    told[CHOOSE i \in DOMAIN told : Cardinality({j \in DOMAIN told : told[j].part < told[i].part}) = k - 1]]

(* "two providers answer in parallel, so arrival order differs between     *)
(* runs" (ranking.ts:137-138): the list is the same for every order of     *)
(* arrival, and whether it was reported part by part or all at once.       *)
ArrivalLeavesNoTrace ==
  (\A p \in Provider : results[p].fresh) =>
    LET whole(p) == Deduped(p, AllMapped(p, InPartOrder(answers[p])))
        keys(offers) == [i \in DOMAIN offers |-> Key(offers[i])]
    IN keys(List) = keys(Materialized(whole("agil-local") \o whole("costamar")))

(* The schedules to choose from "never create a Cartesian product or a     *)
(* price" (offer-schedule-groups.ts:250-252): each schedule of a group     *)
(* leads to an offer of the list, each pair to one, and all of one group   *)
(* have one price.                                                         *)
SchedulesAreOffers ==
  LET list == List
  IN \A g \in ScheduleGroups(list) :
       LET offer(c) == list[c]
       IN /\ {offer(c).out : c \in g.combinations} = g.outbound
          /\ {offer(c).in : c \in g.combinations} = g.inbound
          /\ Cardinality({<<offer(c).out, offer(c).in>> : c \in g.combinations}) = Cardinality(g.combinations)
          /\ Cardinality({offer(c).price : c \in g.combinations}) = 1
=============================================================================
