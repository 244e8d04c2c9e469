---------------------------- MODULE MarketProofs -----------------------------
(***************************************************************************)
(* Proofs about Market, for all prices, sizes, order books and markets the *)
(* wire may carry: a market keeps its shape and what its constructor       *)
(* checks, and no size ever stands beside a foreign price.                 *)
(*                                                                         *)
(* Both are one inductive invariant, MInv.  The copies of a selection keep *)
(* their part of it (SelectionKept); a copy of a market is then a market   *)
(* whose selections do, or, if the constructor refuses it, the old one.    *)
(*                                                                         *)
(* Margin, fair odds and depth are facts about sums.  A sum over a set is  *)
(* that over the set without one of its members and the member             *)
(* (SumUnrolled); a complete market has two or three results (TwoOrThree), *)
(* so that its margin is a sum of two or three shares, and what follows is *)
(* arithmetic.  For the depth the two sets summed over are the same.       *)
(***************************************************************************)
EXTENDS Market, FiniteSetTheorems, TLAPS

SizeFits(q) == q # None => q.size \in {None, OfferedSize[q.price]}

Fine(sel) == sel \in Selections /\ SizeFits(sel.quote)

MInv(m) == HasShape(m) /\ IsMarket(m) /\ SizesFit(m)
-----------------------------------------------------------------------------
(* Each copy of a selection is again a selection with a quote of the wire. *)
LEMMA SelectionKept ==
  ASSUME NEW sel, Fine(sel)
  PROVE  /\ \A p \in Prices : Fine(WithPrice(sel, p))
         /\ \A b \in OrderBooks : Fine(WithOrderBook(sel, b))
         /\ Fine(WithUnavailability(sel))
<1>1. ASSUME NEW p \in Prices PROVE Fine(WithPrice(sel, p))
  BY <1>1 DEF Fine, Selections, WithPrice, Quote, Quotes, SizeFits
<1>2. ASSUME NEW b \in OrderBooks PROVE Fine(WithOrderBook(sel, b))
  <2>1. CASE BestAsk(b) = None
    BY <2>1 DEF Fine, Selections, WithOrderBook, SizeFits
  <2>2. CASE BestAsk(b) # None
    <3>1. b.asks \in Seq(Levels) /\ b.asks # << >> /\ BestAsk(b) = b.asks[1]
      BY <2>2, WireAssumption DEF BestAsk
    <3>2. 1 \in DOMAIN b.asks /\ b.asks[1] \in Levels
      BY <3>1
    <3>3. b.asks[1].size = OfferedSize[b.asks[1].price]
      BY <3>2, WireAssumption
    <3>4. Quote(BestAsk(b).price, BestAsk(b).size) \in Quotes
      BY <3>1, <3>2 DEF Quote, Quotes, Levels
    <3>5. SizeFits(Quote(BestAsk(b).price, BestAsk(b).size))
      BY <3>1, <3>3 DEF Quote, SizeFits
    <3> QED BY <2>2, <3>4, <3>5 DEF Fine, Selections, WithOrderBook
  <2> QED BY <2>1, <2>2
<1>3. Fine(WithUnavailability(sel))
  BY DEF Fine, Selections, WithUnavailability, SizeFits
<1> QED BY <1>1, <1>2, <1>3

(* The selections of a good market are fine, and fine selections make a good
   market, provided that the constructor accepts them. *)
LEMMA SelectionsFine ==
  ASSUME NEW m, MInv(m), NEW x \in DOMAIN m.selections
  PROVE  Fine(m.selections[x])
BY DEF MInv, HasShape, SizesFit, Fine, SizeFits

LEMMA CopyKept ==
  ASSUME NEW m, MInv(m), NEW S,
         S = [x \in DOMAIN m.selections |-> S[x]],
         \A x \in DOMAIN m.selections : Fine(S[x])
  PROVE  MInv(Checked(m, [m EXCEPT !.selections = S]))
<1> DEFINE copy == [m EXCEPT !.selections = S]
<1>1. /\ copy = [selectionKind |-> m.selectionKind, isSynthetic |-> m.isSynthetic, selections |-> S]
      /\ copy.selections = S
  BY DEF MInv, HasShape
<1>2. DOMAIN S = DOMAIN m.selections /\ S \in [DOMAIN S -> Selections]
  BY DEF Fine
<1>3. HasShape(copy)
  BY <1>1, <1>2 DEF MInv, HasShape
<1>4. SizesFit(copy)
  BY <1>1, <1>2 DEF SizesFit, Fine, SizeFits
<1> QED BY <1>3, <1>4 DEF Checked, MInv
-----------------------------------------------------------------------------
(* One lemma per update of a market. *)
LEMMA UpdatedPricesKept ==
  ASSUME NEW m, MInv(m), NEW prices \in Ticks
  PROVE  MInv(WithUpdatedPrices(m, prices))
<1> DEFINE S == Repriced(m.selections, prices)
<1>1. S = [x \in DOMAIN m.selections |-> S[x]]
  BY DEF Repriced
<1>2. ASSUME NEW x \in DOMAIN m.selections PROVE Fine(S[x])
  <2>1. x \in DOMAIN prices => prices[x] \in Prices
    BY DEF Ticks
  <2> QED BY <2>1, SelectionsFine, SelectionKept DEF Repriced
<1>3. MInv(Checked(m, [m EXCEPT !.selections = S]))
  <2> HIDE DEF S
  <2> QED BY <1>1, <1>2, CopyKept
<1>4. [m EXCEPT !.selections = Repriced(@, prices)] = [m EXCEPT !.selections = S]
  OBVIOUS
<1> QED BY <1>3, <1>4 DEF WithUpdatedPrices

LEMMA UpdatedSelectionKept ==
  ASSUME NEW m, MInv(m), NEW x \in DOMAIN m.selections, NEW sel, Fine(sel)
  PROVE  MInv(WithUpdatedSelection(m, x, sel))
<1> DEFINE S == [m.selections EXCEPT ![x] = sel]
<1>1. S = [y \in DOMAIN m.selections |-> S[y]]
  BY DEF MInv, HasShape
<1>2. \A y \in DOMAIN m.selections : Fine(S[y])
  BY SelectionsFine DEF MInv, HasShape
<1>3. MInv(Checked(m, [m EXCEPT !.selections = S]))
  <2> HIDE DEF S
  <2> QED BY <1>1, <1>2, CopyKept
<1> QED BY <1>3 DEF WithUpdatedSelection

(* The inductive invariant: shape, constructor checks and sizes together. *)
THEOREM MarketInvariant == Spec => []MInv(market)
<1>1. Init => MInv(market)
  BY WireAssumption DEF Init, MInv
<1>2. MInv(market) /\ [Next]_market => MInv(market)'
  <2> SUFFICES ASSUME MInv(market), [Next]_market
               PROVE  MInv(market')
    BY DEF MInv, HasShape, IsMarket, SizesFit, IsSelection, Selections
  <2>1. CASE UpdatePrices
    BY <2>1, UpdatedPricesKept DEF UpdatePrices
  <2>2. CASE UpdateOrderBook
    <3>1. PICK x \in Ids(market), b \in OrderBooks :
            market' = WithUpdatedSelection(market, x, WithOrderBook(market.selections[x], b))
      BY <2>2 DEF UpdateOrderBook
    <3>2. Fine(WithOrderBook(market.selections[x], b))
      BY SelectionsFine, SelectionKept DEF Ids
    <3> QED BY <3>1, <3>2, UpdatedSelectionKept DEF Ids
  <2>3. CASE LoseSelection
    <3>1. PICK x \in Ids(market) :
            market' = WithUpdatedSelection(market, x, WithUnavailability(market.selections[x]))
      BY <2>3 DEF LoseSelection
    <3>2. Fine(WithUnavailability(market.selections[x]))
      BY SelectionsFine, SelectionKept DEF Ids
    <3> QED BY <3>1, <3>2, UpdatedSelectionKept DEF Ids
  <2>4. CASE UNCHANGED market
    BY <2>4
  <2> QED BY <2>1, <2>2, <2>3, <2>4 DEF Next
<1> QED BY <1>1, <1>2, PTL DEF Spec

(* A market of the wire stays one the constructors accept, whatever updates
   of prices, order books and availability reach it. *)
THEOREM MarketTyped == Spec => []MarketTypeOK
<1>1. MInv(market) => MarketTypeOK
  BY DEF MInv, MarketTypeOK
<1> QED BY <1>1, MarketInvariant, PTL

(* No update ever shows a size beside a price it was not offered at. *)
THEOREM SizesKeepTheirPrice == Spec => []SizeIsOfItsPrice
<1>1. MInv(market) => SizeIsOfItsPrice
  BY DEF MInv, SizeIsOfItsPrice
<1> QED BY <1>1, MarketInvariant, PTL
-----------------------------------------------------------------------------
(* Sums.  SumFunction is a recursive function on the subsets of a domain, and
   that there is one has to be shown; for two or three summands it is found by
   unrolling, and no market has more. *)
Pick(s) == CHOOSE x \in s : TRUE

Step(f, g) == [s \in SUBSET DOMAIN f |-> IF s = {} THEN 0 ELSE f[Pick(s)] + g[s \ {Pick(s)}]]

LEMMA SumIs == ASSUME NEW f PROVE SumFunction(f) = (CHOOSE g : g = Step(f, g))[DOMAIN f]
BY Zenon DEF SumFunction, SumFunctionOnSet, FoldFunctionOnSet, MapThenFoldSet, Step, Pick

LEMMA Fix == ASSUME NEW f, NEW a, NEW b, NEW c, DOMAIN f \subseteq {a, b, c}
             PROVE \E g : g = Step(f, g)
<1> DEFINE D == DOMAIN f
           G0 == [s \in SUBSET D |-> 0]
           G1 == Step(f, G0)
           G2 == Step(f, G1)
           G3 == Step(f, G2)
<1>1. \A s \in SUBSET D : s # {} => Pick(s) \in s
  BY DEF Pick
<1>2. /\ \A s \in SUBSET D : G0[s] = 0
      /\ \A s \in SUBSET D : G1[s] = IF s = {} THEN 0 ELSE f[Pick(s)] + G0[s \ {Pick(s)}]
      /\ \A s \in SUBSET D : G2[s] = IF s = {} THEN 0 ELSE f[Pick(s)] + G1[s \ {Pick(s)}]
      /\ \A s \in SUBSET D : G3[s] = IF s = {} THEN 0 ELSE f[Pick(s)] + G2[s \ {Pick(s)}]
  BY DEF Step
<1> HIDE DEF G0, G1, G2
<1>3. ASSUME NEW s \in SUBSET D, s # {}
      PROVE  G2[s \ {Pick(s)}] = G3[s \ {Pick(s)}]
  <2> DEFINE x == Pick(s)
             t == s \ {x}
             y == Pick(t)
             u == t \ {y}
             z == Pick(u)
  <2>1. x \in s /\ t \in SUBSET D
    BY <1>1, <1>3
  <2>2. CASE t = {}
    BY <1>2, <2>1, <2>2
  <2>3. CASE t # {}
    <3>1. y \in t /\ u \in SUBSET D
      BY <1>1, <2>1, <2>3
    <3>2. G2[t] = f[y] + G1[u] /\ G3[t] = f[y] + G2[u]
      <4> HIDE DEF G3
      <4> QED BY <1>2, <2>1, <2>3
    <3>3. CASE u = {}
      BY <1>2, <3>1, <3>2, <3>3
    <3>4. CASE u # {}
      <4>1. z \in u
        BY <1>1, <3>1, <3>4
      <4>2. x \in {a, b, c} /\ y \in {a, b, c} \ {x} /\ z \in {a, b, c} \ {x, y}
        BY <2>1, <3>1, <4>1
      <4>3. u \ {z} = {}
        <5> HIDE DEF x, y, z
        <5> QED BY <4>2
      <4>4. G1[u] = f[z] + G0[{}] /\ G2[u] = f[z] + G1[{}]
        BY <1>2, <3>1, <3>4, <4>3
      <4>5. G0[{}] = 0 /\ G1[{}] = 0
        BY <1>2
      <4> QED BY <3>2, <4>4, <4>5
    <3> QED BY <3>3, <3>4
  <2> QED BY <2>2, <2>3
<1>4. G3 = Step(f, G3)
  <2>1. G3 = [s \in SUBSET D |-> IF s = {} THEN 0 ELSE f[Pick(s)] + G2[s \ {Pick(s)}]]
    BY DEF Step
  <2> HIDE DEF G3
  <2> QED BY <1>3, <2>1 DEF Step
<1> HIDE DEF G3
<1> QED BY <1>4

LEMMA SumUnrolled ==
  ASSUME NEW f, NEW a, NEW b, NEW c, DOMAIN f \subseteq {a, b, c}
  PROVE  \E g : /\ SumFunction(f) = g[DOMAIN f]
               /\ g[{}] = 0
               /\ \A s \in SUBSET DOMAIN f :
                    s # {} => Pick(s) \in s /\ g[s] = f[Pick(s)] + g[s \ {Pick(s)}]
<1> DEFINE g == CHOOSE g : g = Step(f, g)
<1>1. g = Step(f, g)
  BY Fix
<1>2. SumFunction(f) = g[DOMAIN f]
  BY SumIs
<1> HIDE DEF g
<1>3. \A s \in SUBSET DOMAIN f : g[s] = IF s = {} THEN 0 ELSE f[Pick(s)] + g[s \ {Pick(s)}]
  BY <1>1 DEF Step
<1>4. \A s \in SUBSET DOMAIN f : s # {} => Pick(s) \in s
  BY DEF Pick
<1> QED BY <1>2, <1>3, <1>4

LEMMA SumOfTwo ==
  ASSUME NEW f, NEW a, NEW b, a # b, DOMAIN f = {a, b}, f[a] \in Int, f[b] \in Int
  PROVE  SumFunction(f) = f[a] + f[b]
<1>1. PICK g : /\ SumFunction(f) = g[DOMAIN f]
               /\ g[{}] = 0
               /\ \A s \in SUBSET DOMAIN f :
                    s # {} => Pick(s) \in s /\ g[s] = f[Pick(s)] + g[s \ {Pick(s)}]
  <2>1. DOMAIN f \subseteq {a, b, b}
    OBVIOUS
  <2> QED BY <2>1, SumUnrolled
<1>2. \A x \in {a, b} : g[{x}] = f[x]
  <2> SUFFICES ASSUME NEW x \in {a, b} PROVE g[{x}] = f[x]
    OBVIOUS
  <2>1. {x} \in SUBSET DOMAIN f /\ {x} # {} /\ f[x] \in Int
    OBVIOUS
  <2>2. Pick({x}) \in {x} /\ g[{x}] = f[Pick({x})] + g[{x} \ {Pick({x})}]
    BY <1>1, <2>1
  <2>3. Pick({x}) = x /\ {x} \ {x} = {}
    BY <2>2
  <2> QED BY <1>1, <2>1, <2>2, <2>3
<1>3. Pick({a, b}) \in {a, b} /\ g[{a, b}] = f[Pick({a, b})] + g[{a, b} \ {Pick({a, b})}]
  BY <1>1
<1>4. {a, b} \ {a} = {b} /\ {a, b} \ {b} = {a}
  OBVIOUS
<1>5. SumFunction(f) = g[{a, b}] /\ g[{a}] = f[a] /\ g[{b}] = f[b]
  BY <1>1, <1>2
<1>6. CASE Pick({a, b}) = a
  BY <1>3, <1>4, <1>5, <1>6
<1>7. CASE Pick({a, b}) = b
  <2>1. g[{a, b}] = f[b] + f[a]
    BY <1>3, <1>4, <1>5, <1>7
  <2> QED BY <1>5, <2>1
<1> QED BY <1>3, <1>6, <1>7

LEMMA SumOfThree ==
  ASSUME NEW f, NEW a, NEW b, NEW c, a # b, a # c, b # c, DOMAIN f = {a, b, c},
         f[a] \in Int, f[b] \in Int, f[c] \in Int
  PROVE  SumFunction(f) = f[a] + f[b] + f[c]
<1>1. PICK g : /\ SumFunction(f) = g[DOMAIN f]
               /\ g[{}] = 0
               /\ \A s \in SUBSET DOMAIN f :
                    s # {} => Pick(s) \in s /\ g[s] = f[Pick(s)] + g[s \ {Pick(s)}]
  BY SumUnrolled
<1>2. \A x \in {a, b, c} : g[{x}] = f[x]
  <2> SUFFICES ASSUME NEW x \in {a, b, c} PROVE g[{x}] = f[x]
    OBVIOUS
  <2>1. {x} \in SUBSET DOMAIN f /\ {x} # {} /\ f[x] \in Int
    OBVIOUS
  <2>2. Pick({x}) \in {x} /\ g[{x}] = f[Pick({x})] + g[{x} \ {Pick({x})}]
    BY <1>1, <2>1
  <2>3. Pick({x}) = x /\ {x} \ {x} = {}
    BY <2>2
  <2> QED BY <1>1, <2>1, <2>2, <2>3
<1>3. ASSUME NEW x \in {a, b, c}, NEW y \in {a, b, c}, x # y
      PROVE  g[{x, y}] = f[x] + f[y]
  <2>1. Pick({x, y}) \in {x, y} /\ g[{x, y}] = f[Pick({x, y})] + g[{x, y} \ {Pick({x, y})}]
    BY <1>1
  <2>2. {x, y} \ {x} = {y} /\ {x, y} \ {y} = {x}
    BY <1>3
  <2>3. f[x] \in Int /\ f[y] \in Int /\ g[{x}] = f[x] /\ g[{y}] = f[y]
    BY <1>2
  <2>4. CASE Pick({x, y}) = x
    BY <2>1, <2>2, <2>3, <2>4
  <2>5. CASE Pick({x, y}) = y
    <3>1. g[{x, y}] = f[y] + f[x]
      BY <2>1, <2>2, <2>3, <2>5
    <3> QED BY <2>3, <3>1
  <2> QED BY <2>1, <2>4, <2>5
<1>4. /\ Pick({a, b, c}) \in {a, b, c}
      /\ SumFunction(f) = f[Pick({a, b, c})] + g[{a, b, c} \ {Pick({a, b, c})}]
  BY <1>1
<1>5. {a, b, c} \ {a} = {b, c} /\ {a, b, c} \ {b} = {a, c} /\ {a, b, c} \ {c} = {a, b}
  OBVIOUS
<1>6. g[{b, c}] = f[b] + f[c] /\ g[{a, c}] = f[a] + f[c] /\ g[{a, b}] = f[a] + f[b]
  BY <1>3
<1>7. CASE Pick({a, b, c}) = a
  <2>1. SumFunction(f) = f[a] + (f[b] + f[c])
    BY <1>4, <1>5, <1>6, <1>7
  <2> QED BY <2>1
<1>8. CASE Pick({a, b, c}) = b
  <2>1. SumFunction(f) = f[b] + (f[a] + f[c])
    BY <1>4, <1>5, <1>6, <1>8
  <2> QED BY <2>1
<1>9. CASE Pick({a, b, c}) = c
  <2>1. SumFunction(f) = f[c] + (f[a] + f[b])
    BY <1>4, <1>5, <1>6, <1>9
  <2> QED BY <2>1
<1> QED BY <1>4, <1>7, <1>8, <1>9
-----------------------------------------------------------------------------
(* The selections of a market and the results of its kind. *)
LEMMA ResultsFinite ==
  ASSUME NEW kind \in Kinds
  PROVE  /\ IsFiniteSet(SelectionResults(kind))
         /\ Cardinality(SelectionResults(kind)) = IF kind = "home/draw/away" THEN 3 ELSE 2
<1>1. /\ IsFiniteSet({"over", "under"}) /\ Cardinality({"over", "under"}) = 2
      /\ IsFiniteSet({"home", "away"}) /\ Cardinality({"home", "away"}) = 2
      /\ IsFiniteSet({"competitor1", "competitor2"}) /\ Cardinality({"competitor1", "competitor2"}) = 2
  <2>1. ASSUME NEW a, NEW b, a # b
        PROVE  IsFiniteSet({a, b}) /\ Cardinality({a, b}) = 2
    <3>1. IsFiniteSet({a}) /\ Cardinality({a}) = 1
      BY FS_Singleton
    <3>2. {a, b} = {a} \cup {b} /\ b \notin {a}
      BY <2>1
    <3> QED BY <3>1, <3>2, FS_AddElement
  <2> QED BY <2>1
<1>2. IsFiniteSet({"home", "draw", "away"}) /\ Cardinality({"home", "draw", "away"}) = 3
  <2>1. {"home", "draw", "away"} = {"home", "away"} \cup {"draw"} /\ "draw" \notin {"home", "away"}
    OBVIOUS
  <2> QED BY <1>1, <2>1, FS_AddElement
<1> QED BY <1>1, <1>2 DEF Kinds, SelectionResults

\* A market has one selection at most for each result of its kind.
LEMMA ResultsTellSelections ==
  ASSUME NEW m, HasShape(m), IsMarket(m)
  PROVE  /\ m.selectionKind \in Kinds /\ IsFiniteSet(Ids(m))
         /\ \A x \in Ids(m) : /\ m.selections[x].result \in SelectionResults(m.selectionKind)
                              /\ ByResult(m, m.selections[x].result) = {x}
         /\ AllSelectionsPresent(m) <=>
              \A r \in SelectionResults(m.selectionKind) : ByResult(m, r) # {}
<1> DEFINE R == SelectionResults(m.selectionKind)
           f == [x \in Ids(m) |-> m.selections[x].result]
<1>1. m.selectionKind \in Kinds
  BY DEF HasShape
<1>2. \A x \in Ids(m) : m.selections[x].result \in R
  BY DEF IsMarket, IsSelection, Ids
<1>3. \A x, y \in Ids(m) : x # y => m.selections[x].result # m.selections[y].result
  BY DEF IsMarket, Ids
<1>4. \A x \in Ids(m) : ByResult(m, m.selections[x].result) = {x}
  BY <1>3 DEF ByResult
<1> HIDE DEF R
<1>5. f \in Injection(Ids(m), R)
  BY <1>2, <1>3 DEF Injection, IsInjective
<1>6. f \in Surjection(Ids(m), R) <=> \A r \in R : ByResult(m, r) # {}
  BY <1>2 DEF Surjection, ByResult
<1>7. IsFiniteSet(R)
  BY <1>1, ResultsFinite DEF R
<1> HIDE DEF f
<1>8. IsFiniteSet(Ids(m)) /\ (Cardinality(Ids(m)) = Cardinality(R) <=> f \in Surjection(Ids(m), R))
  BY <1>5, <1>7, FS_Injection
<1> QED BY <1>1, <1>2, <1>4, <1>6, <1>8 DEF AllSelectionsPresent, R

\* A market with all its selections has two of them, or three.
LEMMA TwoOrThree ==
  ASSUME NEW m, HasShape(m), IsMarket(m), AllSelectionsPresent(m)
  PROVE  \/ /\ Cardinality(Ids(m)) = 2
            /\ \E a, b : a # b /\ Ids(m) = {a, b}
         \/ /\ Cardinality(Ids(m)) = 3
            /\ \E a, b, c : a # b /\ a # c /\ b # c /\ Ids(m) = {a, b, c}
<1> DEFINE n == Cardinality(Ids(m))
<1>1. n = 2 \/ n = 3
  BY ResultsTellSelections, ResultsFinite DEF AllSelectionsPresent
<1>2. IsFiniteSet(Ids(m))
  BY ResultsTellSelections
<1>3. PICK a : a \in Ids(m)
  BY <1>1, <1>2, FS_EmptySet
<1>4. IsFiniteSet(Ids(m) \ {a}) /\ Cardinality(Ids(m) \ {a}) = n - 1
  BY <1>1, <1>2, <1>3, FS_RemoveElement
<1>5. CASE n = 2
  <2> HIDE DEF n
  <2>0. Cardinality(Ids(m) \ {a}) = 1
    BY <1>4, <1>5
  <2>1. PICK b : Ids(m) \ {a} = {b}
    BY <1>4, <2>0, FS_Singleton
  <2>2. a # b /\ Ids(m) = {a, b}
    BY <1>3, <2>1
  <2> QED BY <1>5, <2>2 DEF n
<1>6. CASE n = 3
  <2>1. PICK b : b \in Ids(m) \ {a}
    BY <1>4, <1>6, FS_EmptySet
  <2>2. IsFiniteSet((Ids(m) \ {a}) \ {b}) /\ Cardinality((Ids(m) \ {a}) \ {b}) = 1
    BY <1>4, <1>6, <2>1, FS_RemoveElement
  <2>3. PICK c : (Ids(m) \ {a}) \ {b} = {c}
    BY <2>2, FS_Singleton
  <2>4. a # b /\ a # c /\ b # c /\ Ids(m) = {a, b, c}
    BY <1>3, <2>1, <2>3
  <2> QED BY <1>6, <2>4
<1> QED BY <1>1, <1>5, <1>6
-----------------------------------------------------------------------------
(* Prices, shares and the margin. *)
LEMMA SharesExact ==
  ASSUME NEW p \in Prices
  PROVE  /\ p \in Nat /\ p > 0 /\ ImpliedShares(p) \in Nat
         /\ p * ImpliedShares(p) = Unit * Whole
         /\ ImpliedShares(p) <= Whole
<1> DEFINE q == Unit * Whole
           s == ImpliedShares(p)
<1>1. p \in Nat /\ p > 0 /\ q \in Nat /\ q % p = 0 /\ p >= Unit
  BY PriceAssumption, OddsAssumption
<1>2. Unit \in Nat /\ Unit > 0 /\ Whole \in Nat
  BY PriceAssumption
<1>3. s = q \div p
  BY DEF ImpliedShares
<1> HIDE DEF q, s
<1>4. s \in Nat /\ p * s = q
  BY <1>1, <1>3
<1>5. s <= Whole
  <2> SUFFICES ASSUME s > Whole PROVE FALSE
    BY <1>2, <1>4
  <2>1. p * s >= Unit * s
    BY <1>1, <1>2, <1>4
  <2>2. Unit * s > Unit * Whole
    BY <1>2, <1>4
  <2> QED BY <1>1, <1>2, <1>4, <2>1, <2>2 DEF q
<1> QED BY <1>1, <1>4, <1>5 DEF q, s

\* A quoted price is one of the wire's.
LEMMA PriceTyped ==
  ASSUME NEW m, HasShape(m), NEW x \in Ids(m), Available(m, x)
  PROVE  Price(m, x) \in Prices
BY DEF HasShape, Ids, Available, Price, Selections, Quotes

Share(m, x) == ImpliedShares(Price(m, x))

LEMMA MarginIs ==
  ASSUME NEW m, HasShape(m), IsMarket(m), FullyAvailable(m)
  PROVE  /\ Margin(m) \in Int
         /\ \/ /\ Cardinality(Ids(m)) = 2
               /\ \E a, b : /\ a # b /\ Ids(m) = {a, b}
                            /\ Margin(m) = Share(m, a) + Share(m, b) - Whole
            \/ /\ Cardinality(Ids(m)) = 3
               /\ \E a, b, c : /\ a # b /\ a # c /\ b # c /\ Ids(m) = {a, b, c}
                               /\ Margin(m) = Share(m, a) + Share(m, b) + Share(m, c) - Whole
<1> DEFINE f == [x \in Ids(m) |-> ImpliedShares(Price(m, x))]
<1>1. Margin(m) = SumFunction(f) - Whole
  BY DEF Margin
<1>2. DOMAIN f = Ids(m) /\ \A x \in Ids(m) : f[x] = Share(m, x) /\ f[x] \in Nat
  <2>1. \A x \in Ids(m) : ImpliedShares(Price(m, x)) \in Nat
    BY PriceTyped, SharesExact DEF FullyAvailable
  <2> QED BY <2>1 DEF Share
<1>3. Whole \in Nat
  BY PriceAssumption
<1> HIDE DEF f
<1>4. CASE Cardinality(Ids(m)) = 2
  <2>1. PICK a, b : a # b /\ Ids(m) = {a, b}
    BY <1>4, TwoOrThree DEF FullyAvailable
  <2>2. SumFunction(f) = f[a] + f[b]
    BY <1>2, <2>1, SumOfTwo
  <2>3. Margin(m) = Share(m, a) + Share(m, b) - Whole /\ Margin(m) \in Int
    BY <1>1, <1>2, <1>3, <2>1, <2>2
  <2> QED BY <1>4, <2>1, <2>3
<1>5. CASE Cardinality(Ids(m)) = 3
  <2>1. PICK a, b, c : a # b /\ a # c /\ b # c /\ Ids(m) = {a, b, c}
    <3>1. Cardinality(Ids(m)) # 2 /\ AllSelectionsPresent(m)
      BY <1>5 DEF FullyAvailable
    <3>2. \E a, b, c : a # b /\ a # c /\ b # c /\ Ids(m) = {a, b, c}
      BY <3>1, TwoOrThree, Zenon
    <3> QED BY <3>2, Zenon
  <2>2. SumFunction(f) = f[a] + f[b] + f[c]
    BY <1>2, <2>1, SumOfThree
  <2>3. Margin(m) = Share(m, a) + Share(m, b) + Share(m, c) - Whole /\ Margin(m) \in Int
    BY <1>1, <1>2, <1>3, <2>1, <2>2
  <2> QED BY <1>5, <2>1, <2>3
<1> QED BY <1>4, <1>5, TwoOrThree DEF FullyAvailable
-----------------------------------------------------------------------------
(* The fair odds. *)
LEMMA FairOddIs ==
  ASSUME NEW m, HasShape(m), IsMarket(m), NEW x \in Ids(m)
  PROVE  LET r == m.selections[x].result
         IN  /\ GetFairOdd(m, r) =
                  IF m.isSynthetic
                    THEN IF Available(m, x) THEN [num |-> Price(m, x), den |-> Unit] ELSE None
                  ELSE IF FullyAvailable(m)
                    THEN LET f == FairFraction(Cardinality(Ids(m)), Price(m, x), Margin(m))
                         IN  IF f.den = 0 THEN None ELSE f
                  ELSE None
             /\ IsFairOddAvailable(m, r) <=>
                  IF m.isSynthetic THEN Available(m, x) ELSE FullyAvailable(m)
<1> DEFINE r == m.selections[x].result
<1>1. ByResult(m, r) = {x}
  BY ResultsTellSelections
<1> HIDE DEF r
<1>2. (CHOOSE y \in ByResult(m, r) : TRUE) = x
  BY <1>1
<1> QED BY <1>1, <1>2 DEF GetFairOdd, IsFairOddAvailable, r

LEMMA ExactQuotient ==
  ASSUME NEW a \in Int, NEW b \in Nat, b > 0
  PROVE  (b * a) \div b = a
<1> DEFINE q == (b * a) \div b
<1>1. q \in Int /\ b * q <= b * a /\ b * a < b * (q + 1)
  <2>1. b * a \in Int
    OBVIOUS
  <2> QED BY <2>1
<1> HIDE DEF q
<1>2. ~ (q < a)
  <2> SUFFICES ASSUME q + 1 <= a PROVE FALSE
    BY <1>1
  <2>1. b * (q + 1) <= b * a
    BY <1>1
  <2> QED BY <1>1, <2>1
<1>3. ~ (q > a)
  <2> SUFFICES ASSUME q >= a + 1 PROVE FALSE
    BY <1>1
  <2>1. b * q >= b * (a + 1) /\ b * (a + 1) = b * a + b
    BY <1>1
  <2> QED BY <1>1, <2>1
<1> QED BY <1>1, <1>2, <1>3 DEF q

\* The fraction of get_fair_odd in terms of shares.
LEMMA FractionIs ==
  ASSUME NEW n \in Nat, n > 0, NEW p \in Prices, NEW margin \in Int
  PROVE  LET f == FairFraction(n, p, margin)
             s == ImpliedShares(p)
             parts == n * Whole * Unit * Whole
         IN  /\ f.num \in Nat /\ f.num > 0 /\ f.num = p * (n * Whole)
             /\ f.den \in Int /\ f.den = p * (n * s - margin)
             /\ f.den > 0 <=> n * s > margin
             /\ f.den = 0 <=> n * s = margin
             /\ f.num * Unit - p * f.den = p * (p * margin)
             /\ (parts * f.den) \div f.num = s * f.den
<1> DEFINE f == FairFraction(n, p, margin)
           s == ImpliedShares(p)
           parts == n * Whole * Unit * Whole
<1>1. /\ p \in Nat /\ p > 0 /\ s \in Nat /\ p * s = Unit * Whole
      /\ Unit \in Nat /\ Unit > 0 /\ Whole \in Nat /\ Whole > 0
  BY SharesExact, PriceAssumption
<1>2. f.num = n * p * Whole /\ f.den = n * Unit * Whole - p * margin
  BY DEF FairFraction
<1> HIDE DEF f, s
<1>3. f.num = p * (n * Whole) /\ f.num \in Nat
  BY <1>1, <1>2
<1>4. f.num > 0
  <2>1. n * Whole \in Nat /\ n * Whole > 0
    BY <1>1
  <2> QED BY <1>1, <1>3, <2>1
<1>5. n * Unit * Whole = p * (n * s)
  <2>1. n * Unit * Whole = n * (Unit * Whole)
    BY <1>1
  <2>2. n * (p * s) = p * (n * s)
    BY <1>1
  <2> QED BY <1>1, <2>1, <2>2
<1>6. f.den \in Int /\ f.den = p * (n * s - margin)
  <2>1. p * (n * s - margin) = p * (n * s) - p * margin
    BY <1>1
  <2> QED BY <1>1, <1>2, <1>5, <2>1
<1>7. /\ f.den > 0 <=> n * s > margin
      /\ f.den = 0 <=> n * s = margin
  <2> DEFINE d == n * s - margin
  <2>1. /\ d \in Int /\ f.den = p * d
        /\ d > 0 <=> n * s > margin
        /\ d = 0 <=> n * s = margin
    BY <1>1, <1>6
  <2> HIDE DEF d
  <2>2. /\ d > 0 <=> p * d > 0
        /\ d = 0 <=> p * d = 0
    BY <1>1, <2>1
  <2> QED BY <2>1, <2>2
<1>8. f.num * Unit - p * f.den = p * (p * margin)
  <2>1. f.num * Unit = p * (n * Unit * Whole)
    BY <1>1, <1>2
  <2>2. p * f.den = p * (n * Unit * Whole) - p * (p * margin)
    BY <1>1, <1>2
  <2>3. p * (n * Unit * Whole) \in Int /\ p * (p * margin) \in Int
    BY <1>1
  <2> HIDE DEF parts
  <2> QED BY <2>1, <2>2, <2>3
<1>9. (parts * f.den) \div f.num = s * f.den
  <2>1. parts = f.num * s
    <3>1. parts = (n * Whole) * (Unit * Whole)
      BY <1>1
    <3>2. f.num * s = (n * Whole) * (p * s)
      BY <1>1, <1>3
    <3> QED BY <1>1, <3>1, <3>2
  <2>2. parts * f.den = f.num * (s * f.den) /\ s * f.den \in Int
    BY <1>1, <1>3, <1>6, <2>1
  <2> HIDE DEF parts
  <2> QED BY <1>3, <1>4, <2>2, ExactQuotient
<1> QED BY <1>3, <1>4, <1>6, <1>7, <1>8, <1>9 DEF f, s

\* What a fairly priced market is made of.
LEMMA FairlyPricedIs ==
  ASSUME MInv(market), FairlyPriced(market), NEW x \in Ids(market)
  PROVE  LET n == Cardinality(Ids(market))
             p == Price(market, x)
         IN  /\ n \in {2, 3} /\ p \in Prices /\ Margin(market) \in Int
             /\ FairOddOf(x) =
                  LET f == FairFraction(n, p, Margin(market)) IN IF f.den = 0 THEN None ELSE f
             /\ FairOddOf(x) # None => FairOddOf(x) = FairFraction(n, p, Margin(market))
             /\ Share(market, x) = ImpliedShares(p)
             /\ Share(market, x) \in Nat /\ Share(market, x) > 0 /\ Share(market, x) <= Whole
<1> DEFINE p == Price(market, x)
           s == Share(market, x)
<1>1. HasShape(market) /\ IsMarket(market) /\ FullyAvailable(market) /\ ~ market.isSynthetic
  BY DEF MInv, FairlyPriced
<1>2. p \in Prices
  BY <1>1, PriceTyped DEF FullyAvailable
<1>3. Cardinality(Ids(market)) \in {2, 3} /\ Margin(market) \in Int
  BY <1>1, MarginIs
<1>4. FairOddOf(x) =
        LET f == FairFraction(Cardinality(Ids(market)), p, Margin(market))
        IN  IF f.den = 0 THEN None ELSE f
  BY <1>1, FairOddIs DEF FairOddOf
<1>5. s = ImpliedShares(p)
  BY DEF Share
<1> HIDE DEF p, s
<1>6. s \in Nat /\ s <= Whole /\ s > 0
  <2>1. s \in Nat /\ s <= Whole /\ p * s = Unit * Whole /\ p \in Nat
    BY <1>2, <1>5, SharesExact
  <2>2. Unit * Whole > 0
    BY PriceAssumption
  <2>3. s # 0
    BY <2>1, <2>2
  <2> QED BY <2>1, <2>3
<1> QED BY <1>2, <1>3, <1>4, <1>5, <1>6 DEF p, s

\* In a market of two the margin is made of the shares of both.
LEMMA MarginOfTwo ==
  ASSUME MInv(market), FairlyPriced(market), Cardinality(Ids(market)) = 2, NEW x \in Ids(market)
  PROVE  \E y \in Ids(market) :
           Margin(market) = Share(market, x) + Share(market, y) - Whole
<1>1. HasShape(market) /\ IsMarket(market) /\ FullyAvailable(market)
  BY DEF MInv, FairlyPriced
<1>2. PICK a, b : /\ Ids(market) = {a, b}
                  /\ Margin(market) = Share(market, a) + Share(market, b) - Whole
  BY <1>1, MarginIs
<1>3. Share(market, a) \in Nat /\ Share(market, b) \in Nat /\ Whole \in Nat
  BY <1>2, FairlyPricedIs, PriceAssumption
<1>4. CASE x = a
  BY <1>2, <1>4
<1>5. CASE x = b
  <2>1. Margin(market) = Share(market, b) + Share(market, a) - Whole
    BY <1>2, <1>3
  <2> QED BY <1>2, <1>5, <2>1
<1> QED BY <1>2, <1>4, <1>5

\* When the fraction of get_fair_odd is positive, and when it divides by zero.
LEMMA FractionSign ==
  ASSUME MInv(market), FairlyPriced(market), NEW x \in Ids(market)
  PROVE  LET n == Cardinality(Ids(market))
             s == ImpliedShares(Price(market, x))
             f == FairFraction(n, Price(market, x), Margin(market))
         IN  /\ f \in [num : Int, den : Int]
             /\ f.den > 0 <=> n = 2 \/ 3 * s > Margin(market)
             /\ f.den = 0 <=> n = 3 /\ 3 * s = Margin(market)
<1> DEFINE p == Price(market, x)
           n == Cardinality(Ids(market))
           s == ImpliedShares(p)
           margin == Margin(market)
           f == FairFraction(n, p, margin)
<1>1. /\ n \in {2, 3} /\ p \in Prices /\ margin \in Int
      /\ Share(market, x) = s
      /\ s \in Nat /\ s > 0 /\ s <= Whole
  BY FairlyPricedIs
<1>2. n = 2 => \E y \in Ids(market) : margin = s + Share(market, y) - Whole
  BY <1>1, MarginOfTwo
<1>3. \A y \in Ids(market) : Share(market, y) \in Nat /\ Share(market, y) <= Whole
  BY FairlyPricedIs
<1> HIDE DEF p, n, margin
<1>4. n \in Nat /\ n > 0 /\ Whole \in Nat
  BY <1>1, PriceAssumption
<1>5. /\ f.num \in Nat /\ f.den \in Int
      /\ f.den > 0 <=> n * s > margin
      /\ f.den = 0 <=> n * s = margin
  BY <1>1, <1>4, FractionIs
<1>6. f \in [num : Int, den : Int]
  BY <1>5 DEF FairFraction
<1> HIDE DEF s, f
<1>7. n = 2 => 2 * s > margin
  BY <1>1, <1>2, <1>3, <1>4
<1>8. /\ f.den > 0 <=> n = 2 \/ 3 * s > margin
      /\ f.den = 0 <=> n = 3 /\ 3 * s = margin
  BY <1>1, <1>5, <1>7
<1> QED BY <1>6, <1>8 DEF f, n, p, s, margin

(* is_fair_odd_available says yes exactly when get_fair_odd answers, for every
   market and after any updates, but for a result, one of three, with exactly
   its third of the margin: there get_fair_odd divides by zero. *)
THEOREM FairOddAlwaysAnswered == Spec => []FairOddAnswered
<1>1. ASSUME MInv(market), NEW r \in SelectionResults(market.selectionKind)
      PROVE  GetFairOdd(market, r) # None <=>
               IsFairOddAvailable(market, r) /\ ~ HasThirdOfMargin(market, r)
  <2>1. HasShape(market) /\ IsMarket(market)
    BY <1>1 DEF MInv
  <2>2. CASE ByResult(market, r) = {}
    <3>1. GetFairOdd(market, r) = None
      BY <2>2 DEF GetFairOdd
    <3>2. ~ AllSelectionsPresent(market)
      BY <1>1, <2>1, <2>2, ResultsTellSelections
    <3> QED BY <2>2, <3>1, <3>2 DEF IsFairOddAvailable, FullyAvailable
  <2>3. CASE ByResult(market, r) # {}
    <3>1. PICK x \in Ids(market) : market.selections[x].result = r
      BY <2>3 DEF ByResult
    <3>2. ByResult(market, r) = {x}
      BY <2>1, <3>1, ResultsTellSelections
    <3>3. CASE market.isSynthetic
      <4>1. ASSUME Available(market, x)
            PROVE  [num |-> Price(market, x), den |-> Unit] # None
        <5>1. Price(market, x) \in Prices
          BY <2>1, <4>1, PriceTyped
        <5>2. Price(market, x) \in Int
          BY <5>1, SharesExact
        <5>3. Unit \in Int
          BY PriceAssumption
        <5> QED BY <5>2, <5>3, NoneIsNoOdd
      <4>2. ~ HasThirdOfMargin(market, r)
        BY <3>3 DEF HasThirdOfMargin, FairlyPriced
      <4> QED BY <2>1, <3>1, <3>3, <4>1, <4>2, FairOddIs
    <3>4. CASE ~ market.isSynthetic /\ ~ FullyAvailable(market)
      BY <2>1, <3>1, <3>4, FairOddIs DEF HasThirdOfMargin, FairlyPriced
    <3>5. CASE FairlyPriced(market)
      <4> DEFINE f == FairFraction(Cardinality(Ids(market)), Price(market, x), Margin(market))
      <4>1. f # None /\ (f.den = 0 <=> HasThirdOfMargin(market, r))
        BY <1>1, <3>2, <3>5, FractionSign, NoneIsNoOdd DEF HasThirdOfMargin
      <4>2. GetFairOdd(market, r) = IF f.den = 0 THEN None ELSE f
        BY <2>1, <3>1, <3>5, FairOddIs DEF FairlyPriced
      <4>3. IsFairOddAvailable(market, r)
        BY <2>1, <3>1, <3>5, FairOddIs DEF FairlyPriced
      <4> HIDE DEF f
      <4> QED BY <4>1, <4>2, <4>3
    <3> QED BY <3>3, <3>4, <3>5 DEF FairlyPriced
  <2> QED BY <2>2, <2>3
<1>2. MInv(market) => FairOddAnswered
  BY <1>1 DEF FairOddAnswered
<1> QED BY <1>2, MarketInvariant, PTL

(* The fair odds of a market of two are above one, those of any market on the
   right side of the quoted price, and negative only for a long shot among
   three, wherever get_fair_odd answers: for all prices, not those of the run
   alone. *)
THEOREM FairOddsAlwaysSane == Spec => []FairOddsSane
<1>1. ASSUME MInv(market), FairlyPriced(market), NEW x \in Ids(market), FairOddOf(x) # None
      PROVE  LET f == FairOddOf(x)
                 p == Price(market, x)
             IN  /\ f.den > 0 <=> \/ Cardinality(Ids(market)) = 2
                                  \/ 3 * ImpliedShares(p) > Margin(market)
                 /\ Cardinality(Ids(market)) = 2 => f.num > f.den
                 /\ f.den > 0 /\ Margin(market) > 0 => f.num * Unit > p * f.den
                 /\ f.den > 0 /\ Margin(market) < 0 => f.num * Unit < p * f.den
  <2> DEFINE f == FairOddOf(x)
             p == Price(market, x)
             n == Cardinality(Ids(market))
             s == ImpliedShares(p)
             margin == Margin(market)
  <2>1. /\ n \in {2, 3} /\ p \in Prices /\ margin \in Int
        /\ f = FairFraction(n, p, margin)
        /\ Share(market, x) = s
        /\ s \in Nat /\ s > 0 /\ s <= Whole
    BY <1>1, FairlyPricedIs
  <2>2. n = 2 => \E y \in Ids(market) : margin = s + Share(market, y) - Whole
    BY <1>1, <2>1, MarginOfTwo
  <2>3. \A y \in Ids(market) :
          Share(market, y) \in Nat /\ Share(market, y) > 0 /\ Share(market, y) <= Whole
    BY <1>1, FairlyPricedIs
  <2> HIDE DEF f, p, n, s, margin
  <2>4. n \in Nat /\ n > 0 /\ p \in Nat /\ p > 0 /\ Unit \in Nat /\ Whole \in Nat
    BY <2>1, SharesExact, PriceAssumption
  <2>5. /\ f.num \in Nat /\ f.num = p * (n * Whole)
        /\ f.den \in Int /\ f.den = p * (n * s - margin)
        /\ f.den > 0 <=> n * s > margin
        /\ f.num * Unit - p * f.den = p * (p * margin)
    BY <2>1, <2>4, FractionIs DEF s
  <2>6. f.den > 0 <=> n = 2 \/ 3 * s > margin
    BY <1>1, <2>1, FractionSign DEF n, p, s, margin
  <2>7. n = 2 => f.num > f.den
    <3> SUFFICES ASSUME n = 2 PROVE f.num > f.den
      OBVIOUS
    <3>1. 2 * Whole > 2 * s - margin
      BY <2>1, <2>4, <2>2, <2>3
    <3>2. PICK d : d = 2 * s - margin
      OBVIOUS
    <3>3. d \in Int /\ 2 * Whole > d /\ 2 * Whole \in Int
      BY <2>1, <2>4, <3>1, <3>2
    <3>4. p * (2 * Whole) > p * d
      BY <2>4, <3>3
    <3> QED BY <2>5, <3>2, <3>4
  <2>8. /\ margin > 0 => f.num * Unit > p * f.den
        /\ margin < 0 => f.num * Unit < p * f.den
    <3>1. f.num * Unit \in Int /\ p * f.den \in Int /\ p * margin \in Int
      BY <2>1, <2>4, <2>5
    <3>2. /\ margin > 0 => p * margin > 0
          /\ margin < 0 => p * margin < 0
      BY <2>1, <2>4
    <3>3. /\ p * margin > 0 => p * (p * margin) > 0
          /\ p * margin < 0 => p * (p * margin) < 0
      BY <2>4, <3>1
    <3> QED BY <2>5, <3>1, <3>2, <3>3
  <2> QED BY <2>6, <2>7, <2>8 DEF f, p, n, s, margin
<1>2. MInv(market) => FairOddsSane
  BY <1>1 DEF FairOddsSane
<1> QED BY <1>2, MarketInvariant, PTL

(* The probabilities implied by the fair odds of a market add up to one,
   whatever prices and margin, when every result has a fair odd. *)
THEOREM FairOddsAlwaysAddUp == Spec => []FairOddsAddUp
<1>1. ASSUME MInv(market), FairlyPriced(market),
             \A x \in Ids(market) : FairOddOf(x) # None
      PROVE  LET parts == Cardinality(Ids(market)) * Whole * Unit * Whole
             IN  SumFunction([x \in Ids(market) |->
                   (parts * FairOddOf(x).den) \div FairOddOf(x).num]) = parts
  <2> DEFINE n == Cardinality(Ids(market))
             parts == n * Whole * Unit * Whole
             q == Unit * Whole
             margin == Margin(market)
             s(x) == Share(market, x)
             g == [x \in Ids(market) |-> (parts * FairOddOf(x).den) \div FairOddOf(x).num]
  <2>1. q \in Nat /\ Whole \in Nat /\ Unit \in Nat
    BY PriceAssumption
  <2>2. ASSUME NEW x \in Ids(market)
        PROVE  s(x) \in Nat /\ g[x] = q * (n * s(x) - margin)
    <3> DEFINE p == Price(market, x)
               f == FairOddOf(x)
    <3>1. /\ n \in {2, 3} /\ p \in Prices /\ margin \in Int
          /\ f = FairFraction(n, p, margin)
          /\ s(x) = ImpliedShares(p) /\ s(x) \in Nat
      BY <1>1, FairlyPricedIs
    <3>2. g[x] = (parts * f.den) \div f.num
      OBVIOUS
    <3> HIDE DEF n, p, margin, f, g, s
    <3>3. n \in Nat /\ n > 0 /\ p \in Nat /\ p * s(x) = q
      BY <3>1, SharesExact
    <3>4. g[x] = s(x) * f.den /\ f.den = p * (n * s(x) - margin)
      <4> DEFINE h == FairFraction(n, p, margin)
      <4>1. /\ h.den = p * (n * ImpliedShares(p) - margin)
            /\ (parts * h.den) \div h.num = ImpliedShares(p) * h.den
        BY <3>1, <3>3, FractionIs
      <4> HIDE DEF h, parts
      <4>2. f = h
        BY <3>1 DEF h
      <4> QED BY <3>1, <3>2, <4>1, <4>2
    <3> HIDE DEF q, parts
    <3>5. PICK d : d = n * s(x) - margin /\ d \in Int
      BY <3>1, <3>3
    <3>6. s(x) * (p * d) = (p * s(x)) * d
      BY <3>1, <3>3, <3>5
    <3> QED BY <3>1, <3>3, <3>4, <3>5, <3>6
  <2>3. DOMAIN g = Ids(market)
    OBVIOUS
  <2>4. parts = q * (n * Whole)
    <3>1. n \in Nat
      BY <1>1, MarginIs DEF MInv, FairlyPriced
    <3> HIDE DEF n
    <3> QED BY <2>1, <3>1
  <2>5. /\ margin \in Int
        /\ \/ /\ n = 2
              /\ \E a, b : a # b /\ Ids(market) = {a, b} /\ margin = s(a) + s(b) - Whole
           \/ /\ n = 3
              /\ \E a, b, c : /\ a # b /\ a # c /\ b # c /\ Ids(market) = {a, b, c}
                              /\ margin = s(a) + s(b) + s(c) - Whole
    BY <1>1, MarginIs DEF MInv, FairlyPriced
  <2> HIDE DEF g, s, n, margin, q, parts
  <2>6. ASSUME n = 2 PROVE SumFunction(g) = parts
    <3>1. PICK a, b : a # b /\ Ids(market) = {a, b} /\ margin = s(a) + s(b) - Whole
      BY <2>5, <2>6
    <3>2. /\ s(a) \in Nat /\ g[a] = q * (2 * s(a) - margin)
          /\ s(b) \in Nat /\ g[b] = q * (2 * s(b) - margin)
      BY <2>2, <2>6, <3>1
    <3>3. g[a] \in Int /\ g[b] \in Int
      BY <2>1, <2>5, <3>2
    <3>4. SumFunction(g) = g[a] + g[b]
      BY <2>3, <3>1, <3>3, SumOfTwo
    <3>5. q * (2 * s(a) - margin) + q * (2 * s(b) - margin)
            = q * ((2 * s(a) - margin) + (2 * s(b) - margin))
      BY <2>1, <2>5, <3>2
    <3>6. (2 * s(a) - margin) + (2 * s(b) - margin) = 2 * Whole
      BY <2>1, <3>1, <3>2
    <3>7. SumFunction(g) = q * (2 * Whole)
      BY <3>2, <3>4, <3>5, <3>6
    <3>8. parts = q * (2 * Whole)
      BY <2>4, <2>6
    <3> QED BY <3>7, <3>8
  <2>7. ASSUME n = 3 PROVE SumFunction(g) = parts
    <3>1. PICK a, b, c : /\ a # b /\ a # c /\ b # c /\ Ids(market) = {a, b, c}
                         /\ margin = s(a) + s(b) + s(c) - Whole
      <4>1. \E a, b, c : /\ a # b /\ a # c /\ b # c /\ Ids(market) = {a, b, c}
                         /\ margin = s(a) + s(b) + s(c) - Whole
        <5>1. n # 2
          BY <2>7
        <5> QED BY <2>5, <5>1, Zenon
      <4> QED BY <4>1, Zenon
    <3>2. /\ s(a) \in Nat /\ g[a] = q * (3 * s(a) - margin)
          /\ s(b) \in Nat /\ g[b] = q * (3 * s(b) - margin)
          /\ s(c) \in Nat /\ g[c] = q * (3 * s(c) - margin)
      BY <2>2, <2>7, <3>1
    <3>3. g[a] \in Int /\ g[b] \in Int /\ g[c] \in Int
      BY <2>1, <2>5, <3>2
    <3>4. SumFunction(g) = g[a] + g[b] + g[c]
      BY <2>3, <3>1, <3>3, SumOfThree
    <3>5. q * (3 * s(a) - margin) + q * (3 * s(b) - margin) + q * (3 * s(c) - margin)
            = q * ((3 * s(a) - margin) + (3 * s(b) - margin) + (3 * s(c) - margin))
      BY <2>1, <2>5, <3>2
    <3>6. (3 * s(a) - margin) + (3 * s(b) - margin) + (3 * s(c) - margin) = 3 * Whole
      BY <2>1, <3>1, <3>2
    <3>7. SumFunction(g) = q * (3 * Whole)
      BY <3>2, <3>4, <3>5, <3>6
    <3>8. parts = q * (3 * Whole)
      BY <2>4, <2>7
    <3> QED BY <3>7, <3>8
  <2> QED BY <2>5, <2>6, <2>7 DEF g, n, parts
<1>2. MInv(market) => FairOddsAddUp
  BY <1>1 DEF FairOddsAddUp
<1> QED BY <1>2, MarketInvariant, PTL
-----------------------------------------------------------------------------
(* The depth of an order book. *)
LEMMA LeastNumber ==
  ASSUME NEW S \in SUBSET Nat, S # {}
  PROVE  Min(S) \in S /\ \A i \in S : Min(S) <= i
<1>1. \E i \in S : \A j \in S : ~ (<<j, i>> \in OpToRel(<, Nat))
  BY NatLessThanWellFounded, WFMin
<1>2. PICK i \in S : \A j \in S : ~ (j < i)
  BY <1>1 DEF OpToRel
<1>3. i \in S /\ \A j \in S : i <= j
  BY <1>2
<1> QED BY <1>3 DEF Min

(* available_size_up_to, which stops at the first ask above the limit, has
   counted every ask within it: the asks of the wire are sorted. *)
THEOREM DepthAlwaysExact == Spec => []DepthIsExact
<1>1. ASSUME NEW b \in OrderBooks, NEW limit \in Prices
      PROVE  AvailableSizeUpTo(b, limit) =
               Depth(b, {i \in DOMAIN b.asks : b.asks[i].price <= limit})
  <2> DEFINE above  == {i \in DOMAIN b.asks : b.asks[i].price > limit}
             within == {i \in DOMAIN b.asks : b.asks[i].price <= limit}
             last   == IF above = {} THEN Len(b.asks) ELSE Min(above) - 1
  <2>1. /\ b.asks \in Seq(Levels)
        /\ \A i, j \in DOMAIN b.asks : i <= j => b.asks[i].price <= b.asks[j].price
    BY WireAssumption
  <2>2. /\ DOMAIN b.asks = 1 .. Len(b.asks) /\ Len(b.asks) \in Nat /\ limit \in Nat
        /\ \A i \in DOMAIN b.asks : b.asks[i].price \in Nat
    <3>1. limit \in Nat /\ \A p \in Prices : p \in Nat
      BY PriceAssumption
    <3>2. \A i \in DOMAIN b.asks : b.asks[i] \in Levels
      BY <2>1
    <3>3. DOMAIN b.asks = 1 .. Len(b.asks) /\ Len(b.asks) \in Nat
      BY <2>1
    <3> QED BY <3>1, <3>2, <3>3 DEF Levels
  <2>3. 1 .. last = within
    <3>1. CASE above = {}
      BY <2>2, <3>1
    <3>2. CASE above # {}
      <4>1. Min(above) \in above /\ \A i \in above : Min(above) <= i
        <5>1. above \in SUBSET Nat
          BY <2>2
        <5> HIDE DEF above
        <5> QED BY <3>2, <5>1, LeastNumber
      <4>2. PICK k : k = Min(above)
        OBVIOUS
      <4>3. /\ k \in 1 .. Len(b.asks) /\ b.asks[k].price > limit /\ last = k - 1
            /\ \A i \in DOMAIN b.asks : b.asks[i].price > limit => k <= i
        BY <2>2, <3>2, <4>1, <4>2
      <4> HIDE DEF last
      <4>4. ASSUME NEW i \in 1 .. Len(b.asks)
            PROVE  i <= k - 1 <=> b.asks[i].price <= limit
        <5>1. k <= i => b.asks[i].price > limit
          BY <2>1, <2>2, <4>3
        <5> QED BY <2>2, <4>3, <5>1
      <4> QED BY <2>2, <4>3, <4>4
    <3> QED BY <3>1, <3>2
  <2> QED BY <2>3 DEF AvailableSizeUpTo
<1>2. MInv(market) => DepthIsExact
  <2> SUFFICES ASSUME MInv(market), NEW x \in Ids(market), NEW limit \in Prices,
                      market.selections[x].orderBook # None
               PROVE  LET b == market.selections[x].orderBook
                      IN  AvailableSizeUpTo(b, limit) =
                            Depth(b, {i \in DOMAIN b.asks : b.asks[i].price <= limit})
    BY DEF DepthIsExact
  <2>1. market.selections[x].orderBook \in OrderBooks
    BY DEF MInv, HasShape, Selections, Ids
  <2> QED BY <1>1, <2>1
<1> QED BY <1>2, MarketInvariant, PTL
=============================================================================
