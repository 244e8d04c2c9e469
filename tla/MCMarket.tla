------------------------------ MODULE MCMarket ------------------------------
(***************************************************************************)
(* Markets of two and of three results, complete or not, synthetic or not, *)
(* with every combination of four prices (1.60, 2.00, 4.00 and 16.00 in    *)
(* fifths): margins of either sign, long shots beside a large margin, and  *)
(* 1.60 / 2.00 / 16.00, whose last fair odd is a division by zero.         *)
(* Only the first selection has an order book, as a CLOB market has.       *)
(***************************************************************************)
EXTENDS Market

CONSTANTS x1, x2, x3

MCSelectionIds == {x1, x2, x3}
MCPrices       == {8, 10, 20, 80}
MCOfferedSize  == [p \in MCPrices |-> 1000 + p]

Level(p) == [price |-> p, size |-> MCOfferedSize[p]]

MCOrderBooks == {[asks |-> << >>], [asks |-> <<Level(20)>>],
                 [asks |-> <<Level(8), Level(10), Level(80)>>]}

Result == [x \in MCSelectionIds |-> IF x = x1 THEN "home" ELSE IF x = x2 THEN "away" ELSE "draw"]

Offers(x) ==
  LET sizes(p) == IF x = x1 THEN {None, MCOfferedSize[p]} ELSE {MCOfferedSize[p]}
  IN  {None} \cup UNION {{Quote(p, s) : s \in sizes(p)} : p \in MCPrices}

Offered(kind, x) ==
  [kind : {kind}, result : {Result[x]}, quote : Offers(x),
   orderBook : IF x = x1 THEN MCOrderBooks \cup {None} ELSE {None}]

MarketsOf(kind, X) ==
  LET S == UNION {Offered(kind, x) : x \in X}
  IN  [selectionKind : {kind}, isSynthetic : BOOLEAN,
       selections : {f \in [X -> S] : \A x \in X : f[x] \in Offered(kind, x)}]

\* What the constructors refuse: a result twice, one of another kind, another kind.
Rejected ==
  LET Twice == [kind |-> "home/away", result |-> "home", quote |-> None, orderBook |-> None]
      Wrong == [kind |-> "home/away", result |-> "draw", quote |-> None, orderBook |-> None]
      Other == [kind |-> "over/under", result |-> "over", quote |-> None, orderBook |-> None]
  IN  {[selectionKind |-> "home/away", isSynthetic |-> FALSE, selections |-> s] :
         s \in {[x \in {x1, x2} |-> Twice], [x \in {x1} |-> Wrong], [x \in {x1} |-> Other]}}

MCWireMarkets ==
  UNION {MarketsOf("home/away", X) : X \in SUBSET {x1, x2}}
    \cup UNION {MarketsOf("home/draw/away", X) : X \in SUBSET MCSelectionIds}
    \cup Rejected
=============================================================================
