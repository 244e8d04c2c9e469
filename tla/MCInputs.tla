------------------------------ MODULE MCInputs ------------------------------
(***************************************************************************)
(* Every kind of the contract and four that are not in it: a new market of *)
(* a known event, a new event, its market, and kinds without punctuation.  *)
(* Events have up to two markets.  Versions go around the SDK's 1.0 and a  *)
(* later 1.2; policies include the default, in milliseconds.               *)
(***************************************************************************)
EXTENDS Inputs

NewKind == "yes/no"

WireMarketKinds == MarketKinds \cup {<<"football_match", "corners">>,
                                     <<"volleyball_match", "moneyline">>, Malformed}
WireEventKinds  == {<<n>> : n \in SportEventKinds \cup {"volleyball_match"}} \cup {Malformed}

FieldNames == Teams \cup Competitors \cup {"handicap", "scope", "cut", "unit", "playerName", "propType"}

\* Selections with their results as their ids, and of two ids the same.
Some(kind, R)      == [r \in R |-> [kind |-> kind, result |-> r]]
SelectionsOf(kind) == Some(kind, SelectionResults(kind))
Twice(kind, r)     == [id \in {"first", "second"} |-> [kind |-> kind, result |-> r]]

MCWireMarkets ==
  [kind : WireMarketKinds, selectionKind : Kinds \cup {NewKind},
   selections : {Some("home/draw/away", R) : R \in SUBSET SelectionResults("home/draw/away")}
                  \cup {SelectionsOf(k) : k \in Kinds}
                  \cup {Some(NewKind, {"yes"}), Some("home/away", {"draw"}), Twice("home/away", "home")},
   fields : {FieldNames} \cup {FieldNames \ {f} : f \in FieldNames}]

\* Whole markets, one of each kind, and four that cannot be read.
Whole(kind) ==
  LET selectionKind == IF kind \in MarketKinds THEN ContractKind(kind) ELSE "home/away"
  IN  [kind |-> kind, selectionKind |-> selectionKind,
       selections |-> SelectionsOf(selectionKind), fields |-> FieldNames]

Pool ==
  {Whole(kind) : kind \in WireMarketKinds}
    \cup {[Whole(<<"football_match", "moneyline">>) EXCEPT !.fields = {"awayTeam"}],
          [Whole(<<"football_match", "corners">>) EXCEPT
             !.selectionKind = NewKind, !.selections = Some(NewKind, {"yes"})],
          [Whole(<<"tennis_match", "total">>) EXCEPT !.selections = SelectionsOf("home/away")],
          [Whole(<<"hockey_match", "moneyline">>) EXCEPT !.selections = Twice("home/away", "home")]}

MCWireEvents ==
  [kind : WireEventKinds, markets : {{m, n} : m, n \in Pool} \cup {{}},
   fields : {Teams \cup Competitors \cup {"competition"}, Competitors \cup {"competition"},
             Teams \cup {"competition"}, Teams \cup Competitors}]

MCFrames ==
  [type : {"hello", "snapshot"},
   version : {NoText, << >>, <<1>>, <<Word>>, <<1, Word>>, <<1, 0, 0>>}
               \cup {<<a, b>> : a \in 0 .. 2, b \in 0 .. 3}]

MCSdkVersions == [major : 0 .. 2, minor : 0 .. 3]

MCPolicies ==
  {[initialDelay |-> 1000, maxDelay |-> 30000, factor |-> 2, jitter |-> 3]}
    \cup [initialDelay : {1, 7, 1000}, maxDelay : {0, 5000, 30000}, factor : 1 .. 3,
          jitter : {0, 1, 3, 5, 10, 15}]

MCAttempts == 1 .. 8
=============================================================================
