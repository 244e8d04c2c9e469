------------------------------- MODULE Market --------------------------------
(***************************************************************************)
(* A market and its selections (src/realtimeodds/_entities): what the      *)
(* constructors accept, the `_with_*` copies that stand for updates, and   *)
(* what an application computes from the quotes: margin, fair odds, depth. *)
(*                                                                         *)
(* Numbers are exact: a price p stands for the decimal odds p / Unit, and  *)
(* every price divides Unit * Whole, so that an implied probability is a   *)
(* whole number of shares of 1 / Whole.  Rounding of floats is left out.   *)
(*                                                                         *)
(* Timestamps are left out.  A size is the one the wire offered with a     *)
(* price, OfferedSize[p]: by it a property tells where a size came from.   *)
(***************************************************************************)
EXTENDS Integers, Sequences, FiniteSets, FiniteSetsExt, SelectionTypes

CONSTANTS
  SelectionIds, Prices, Unit, Whole,
  OfferedSize,     \* price -> the size that comes with it
  OrderBooks,      \* the order books the wire may carry
  WireMarkets,     \* the markets the wire may carry, valid or not
  None

ASSUME PriceAssumption ==
  /\ Unit \in Nat \ {0} /\ Whole \in Nat \ {0} /\ Prices \subseteq Nat \ {0}
  /\ \A p \in Prices : (Unit * Whole) % p = 0

\* Decimal odds pay the stake back at least.
ASSUME OddsAssumption == \A p \in Prices : p >= Unit

ASSUME NoneIsNoOdd == None \notin [num : Int, den : Int]

Sizes  == {OfferedSize[p] : p \in Prices}
Quotes == [price : Prices, size : Sizes \cup {None}]
Levels == [price : Prices, size : Sizes]

Selections == [kind : Kinds, result : Results,
               quote : Quotes \cup {None}, orderBook : OrderBooks \cup {None}]

HasShape(m) ==
  /\ m = [selectionKind |-> m.selectionKind, isSynthetic |-> m.isSynthetic,
          selections |-> m.selections]
  /\ m.selectionKind \in Kinds /\ m.isSynthetic \in BOOLEAN
  /\ DOMAIN m.selections \subseteq SelectionIds
  /\ m.selections \in [DOMAIN m.selections -> Selections]

\* A size is only ever shown beside the price it was offered at.
SizesFit(m) ==
  \A x \in DOMAIN m.selections :
    LET q == m.selections[x].quote
    IN  q # None => q.size \in {None, OfferedSize[q.price]}

ASSUME WireAssumption ==
  /\ \A b \in OrderBooks :
       /\ b.asks \in Seq(Levels)
       /\ \A i \in DOMAIN b.asks : b.asks[i].size = OfferedSize[b.asks[i].price]
       /\ \A i, j \in DOMAIN b.asks : i <= j => b.asks[i].price <= b.asks[j].price
  /\ \A m \in WireMarkets : HasShape(m) /\ SizesFit(m)

VARIABLE market
-----------------------------------------------------------------------------
\* The checks of the two constructors; each raises ValueError otherwise.
IsSelection(sel) == sel.result \in SelectionResults(sel.kind)

IsMarket(m) ==
  LET S == m.selections
  IN  \A x, y \in DOMAIN S : /\ IsSelection(S[x])
                             /\ S[x].kind = m.selectionKind
                             /\ x # y => S[x].result # S[y].result

BestAsk(b) == IF b.asks = << >> THEN None ELSE b.asks[1]

Depth(b, I) == SumFunction([i \in I |-> b.asks[i].size])

(* available_size_up_to: the loop leaves at the first ask above the limit. *)
AvailableSizeMutant(b, limit) ==             \* the level at the limit is left out
  LET above == {i \in DOMAIN b.asks : b.asks[i].price >= limit}
      last  == IF above = {} THEN Len(b.asks) ELSE Min(above) - 1
  IN  Depth(b, 1 .. last)

AvailableSizeUpTo(b, limit) ==
  LET above == {i \in DOMAIN b.asks : b.asks[i].price > limit}
      last  == IF above = {} THEN Len(b.asks) ELSE Min(above) - 1
  IN  Depth(b, 1 .. last)
-----------------------------------------------------------------------------
(* Selection: the copies.  A price update makes a quote without a size and
   keeps the order book; only an order book with an ask makes a quote. *)
Quote(p, size) == [price |-> p, size |-> size]

WithPriceMutant(sel, p) ==                   \* the size of the old quote is kept
  [sel EXCEPT !.quote = Quote(p, IF sel.quote = None THEN None ELSE sel.quote.size)]
WithPrice(sel, p)     == [sel EXCEPT !.quote = Quote(p, None)]

WithOrderBook(sel, b) ==
  LET ask == BestAsk(b)
  IN  [sel EXCEPT !.orderBook = b,
                  !.quote = IF ask = None THEN @ ELSE Quote(ask.price, ask.size)]

WithUnavailabilityMutant(sel) == [sel EXCEPT !.quote = Quote(0, None), !.orderBook = None]
WithUnavailability(sel)       == [sel EXCEPT !.quote = None, !.orderBook = None]

(* Market: the copies.  The constructor checks the copy again; a selection
   the market does not have raises, and the caller keeps the market. *)
Checked(m, copy) == IF IsMarket(copy) THEN copy ELSE m

WithUpdatedSelection(m, x, sel) ==
  IF x \in DOMAIN m.selections THEN Checked(m, [m EXCEPT !.selections[x] = sel]) ELSE m

Repriced(S, prices) ==
  [x \in DOMAIN S |-> IF x \in DOMAIN prices THEN WithPrice(S[x], prices[x]) ELSE S[x]]

WithUpdatedPrices(m, prices) ==
  IF DOMAIN prices \subseteq DOMAIN m.selections
    THEN Checked(m, [m EXCEPT !.selections = Repriced(@, prices)])
    ELSE m
-----------------------------------------------------------------------------
(* What is computed from a market. *)
Ids(m) == DOMAIN m.selections

Available(m, x) == m.selections[x].quote # None

AllSelectionsPresentMutant(m) == TRUE
AllSelectionsPresent(m) == Cardinality(Ids(m)) = Cardinality(SelectionResults(m.selectionKind))

FullyAvailable(m) == AllSelectionsPresent(m) /\ \A x \in Ids(m) : Available(m, x)

\* The selection of a result; the constructor saw to it that there is one at most.
ByResult(m, r) == {x \in Ids(m) : m.selections[x].result = r}

Price(m, x) == m.selections[x].quote.price

ImpliedShares(p) == (Unit * Whole) \div p

MarginMutant(m) == SumFunction([x \in Ids(m) |-> ImpliedShares(Price(m, x))])
Margin(m)       == SumFunction([x \in Ids(m) |-> ImpliedShares(Price(m, x))]) - Whole

IsFairOddAvailable(m, r) ==
  IF m.isSynthetic THEN \E x \in ByResult(m, r) : Available(m, x) ELSE FullyAvailable(m)

(* get_fair_odd as a fraction; None where it raises, a division by zero
   included.  The code's n * price / (n - price * margin), times Unit * Whole
   above and below. *)
FairFractionMutant(n, p, margin) == [num |-> p * Whole, den |-> Unit * Whole - p * margin]
FairFraction(n, p, margin) == [num |-> n * p * Whole, den |-> n * Unit * Whole - p * margin]

GetFairOdd(m, r) ==
  LET x == CHOOSE y \in ByResult(m, r) : TRUE
  IN  IF ByResult(m, r) = {} THEN None
      ELSE IF m.isSynthetic
        THEN IF Available(m, x) THEN [num |-> Price(m, x), den |-> Unit] ELSE None
      ELSE IF FullyAvailable(m)
        THEN LET f == FairFraction(Cardinality(Ids(m)), Price(m, x), Margin(m))
             IN  IF f.den = 0 THEN None ELSE f
      ELSE None
-----------------------------------------------------------------------------
Ticks == UNION {[X -> Prices] : X \in SUBSET SelectionIds \ {{}}}

Init == market \in {m \in WireMarkets : IsMarket(m)}

UpdatePrices == \E prices \in Ticks : market' = WithUpdatedPrices(market, prices)

UpdateOrderBook ==
  \E x \in Ids(market), b \in OrderBooks :
    market' = WithUpdatedSelection(market, x, WithOrderBook(market.selections[x], b))

LoseSelection ==
  \E x \in Ids(market) :
    market' = WithUpdatedSelection(market, x, WithUnavailability(market.selections[x]))

Next == UpdatePrices \/ UpdateOrderBook \/ LoseSelection

Spec == Init /\ [][Next]_market
-----------------------------------------------------------------------------
(* A market stays one its constructor accepts, with quotes the wire sent. *)
MarketTypeOK == HasShape(market) /\ IsMarket(market)

(* A size is never shown beside a price it was not offered at, whatever price
   updates, order books and losses came before: _with_price drops the size of
   the old quote, and a quote from an order book takes both from one level. *)
SizeIsOfItsPrice == SizesFit(market)

FairlyPriced(m) == ~m.isSynthetic /\ FullyAvailable(m)

FairOddOf(x) == GetFairOdd(market, market.selections[x].result)

(* The fair odds of a market make a fair book: where get_fair_odd answers for
   every result, the probabilities the answers imply, den / num, add up to
   exactly one, whatever the margin was.  (In parts of n * Whole * Unit * Whole,
   a multiple of every num.) *)
FairOddsAddUp ==
  LET parts == Cardinality(Ids(market)) * Whole * Unit * Whole
  IN  FairlyPriced(market) /\ (\A x \in Ids(market) : FairOddOf(x) # None) =>
        SumFunction([x \in Ids(market) |-> (parts * FairOddOf(x).den) \div FairOddOf(x).num])
          = parts

(* test_basketball_moneyline_margin_and_fair_odd beyond its example: in a market
   of two results the fair odd of each is above 1, and above the quoted price
   when there is a margin, below it when the margin is negative.  In a market
   of three the same holds of a result whose implied probability exceeds its
   third of the margin; the fair odd of a longer shot is negative. *)
FairOddsSane ==
  FairlyPriced(market) =>
    \A x \in Ids(market) :
      LET f == FairOddOf(x)
          p == Price(market, x)
      IN  f # None =>
            /\ f.den > 0 <=> \/ Cardinality(Ids(market)) = 2
                             \/ 3 * ImpliedShares(p) > Margin(market)
            /\ Cardinality(Ids(market)) = 2 => f.num > f.den
            /\ f.den > 0 /\ Margin(market) > 0 => f.num * Unit > p * f.den
            /\ f.den > 0 /\ Margin(market) < 0 => f.num * Unit < p * f.den

\* A result, one of three, whose implied probability is its third of the margin.
HasThirdOfMargin(m, r) ==
  /\ FairlyPriced(m) /\ Cardinality(Ids(m)) = 3
  /\ \E x \in ByResult(m, r) : 3 * ImpliedShares(Price(m, x)) = Margin(m)

(* is_fair_odd_available is the guard of get_fair_odd, for synthetic markets
   and for others, whatever selections are missing or unavailable: for a
   result of the market's kind one says yes exactly when the other answers.
   There is one exception, in a market of three results: for a result whose
   implied probability is exactly its third of the margin the guard says yes
   and get_fair_odd raises ZeroDivisionError (1.6 / 2.0 / 16.0, for the 16.0).
   In a market of two the guard is exact. *)
FairOddAnswered ==
  \A r \in SelectionResults(market.selectionKind) :
    GetFairOdd(market, r) # None <=>
      IsFairOddAvailable(market, r) /\ ~ HasThirdOfMargin(market, r)

(* The depth of an order book up to a limit is that of all its asks within the
   limit, since the asks come sorted by price. *)
DepthIsExact ==
  \A x \in Ids(market), limit \in Prices :
    LET b == market.selections[x].orderBook
    IN  b # None => AvailableSizeUpTo(b, limit) =
          Depth(b, {i \in DOMAIN b.asks : b.asks[i].price <= limit})
=============================================================================
