---------------------------- MODULE WireEntities ----------------------------
(***************************************************************************)
(* Reading sport events and markets from the wire (_entities/market.py,    *)
(* sport_event.py, _types.py): which class a kind is read into, what that  *)
(* takes, what raises, and what strict changes.                            *)
(*                                                                         *)
(* The kind of a market is <<event name, market name>>, that of an event   *)
(* its event name; Malformed is a kind without the punctuation of one.     *)
(* Fields are there or not; their contents and quotes are left out.  The   *)
(* selections of a market are a function of their ids, of two entries with *)
(* one id the last.                                                        *)
(***************************************************************************)
EXTENDS SelectionTypes, FiniteSets

CONSTANTS
  Malformed,
  Raised        \* what reading returns when it raises

HomeAwayNames   == {"american_football_match", "baseball_match", "basketball_match",
                    "cricket_match", "football_match", "handball_match", "hockey_match",
                    "rugby_league_match"}
CompetitorNames == {"boxing_fight", "mma_fight", "tennis_match"}

\* SPORT_EVENT_KINDS and MARKET_KINDS, the contract.
SportEventKinds == HomeAwayNames \cup CompetitorNames

MarketKinds ==
  (SportEventKinds \X {"moneyline"})
    \cup ((SportEventKinds \ {"boxing_fight", "mma_fight", "cricket_match"}) \X {"handicap", "total"})
    \cup {<<"basketball_match", "player_prop_over_under">>, <<"hockey_match", "regulation_moneyline">>}

\* The market names of MARKET_KINDS.
MarketNames == {"moneyline", "handicap", "total", "player_prop_over_under", "regulation_moneyline"}

\* The kind of a market's selections by the contract, as test_contract_spec.py has it.
ContractKind(kind) ==
  IF kind[2] \in {"total", "player_prop_over_under"} THEN "over/under"
  ELSE IF kind[1] \in CompetitorNames THEN "competitor1/competitor2"
  ELSE IF \/ kind[2] = "regulation_moneyline"
          \/ kind[2] = "moneyline"
               /\ kind[1] \in {"football_match", "handball_match", "rugby_league_match"}
    THEN "home/draw/away"
  ELSE "home/away"

\* The keys of SPORT_OF_SPORT_EVENT_NAMES; a sport is told by its event name.
SportNames == SportEventKinds

\* Market.sport_event_name and SportEvent.sport_event_name.
EventName(kind) == IF kind = Malformed THEN "unknown" ELSE kind[1]

\* A kind without the punctuation of one is none of an event or a market.
ASSUME MalformedIsNoKind ==
  Malformed \notin {<<n>> : n \in SportEventKinds} \cup (SportEventKinds \X MarketNames)
-----------------------------------------------------------------------------
(* The tables and branches of market_from_json. *)
HomeAwayMoneylinesMutant == HomeAwayNames \X {"moneyline"}      \* no regulation_moneyline
HomeAwayMoneylines ==
  (HomeAwayNames \X {"moneyline"}) \cup {<<"hockey_match", "regulation_moneyline">>}

HomeAwayLines(name) == (HomeAwayNames \ {"cricket_match"}) \X {name}

MarketClass(kind) ==
  CASE kind \in HomeAwayMoneylines                               -> "HomeAwayMoneyline"
    [] kind \in HomeAwayLines("handicap")                        -> "HomeAwayHandicap"
    [] kind \in HomeAwayLines("total")                           -> "HomeAwayTotal"
    [] kind = <<"basketball_match", "player_prop_over_under">>   -> "PlayerProp"
    [] kind \in CompetitorNames \X {"moneyline"}                 -> "CompetitorMoneyline"
    [] kind = <<"tennis_match", "handicap">>                     -> "CompetitorHandicap"
    [] kind = <<"tennis_match", "total">>                        -> "CompetitorTotal"
    [] OTHER                                                     -> "UnknownMarket"

Teams       == {"homeTeam", "awayTeam"}
Competitors == {"competitor1", "competitor2"}

\* The fields read with data[...]; period has a default.
RequiredFields(class) ==
  CASE class = "HomeAwayMoneyline"   -> Teams
    [] class = "HomeAwayHandicap"    -> Teams \cup {"handicap"}
    [] class = "HomeAwayTotal"       -> Teams \cup {"scope", "cut"}
    [] class = "PlayerProp"          -> {"playerName", "propType", "cut"}
    [] class = "CompetitorMoneyline" -> Competitors
    [] class = "CompetitorHandicap"  -> Competitors \cup {"unit", "handicap"}
    [] class = "CompetitorTotal"     -> Competitors \cup {"scope", "unit", "cut"}
    [] OTHER                         -> {}

\* The results get_selection_name has a name for; it raises for the others.
NamedResults(class) ==
  CASE class = "HomeAwayMoneyline"                           -> {"home", "away", "draw"}
    [] class = "HomeAwayHandicap"                            -> {"home", "away"}
    [] class \in {"HomeAwayTotal", "PlayerProp", "CompetitorTotal"} -> {"over", "under"}
    [] class \in {"CompetitorMoneyline", "CompetitorHandicap"} -> {"competitor1", "competitor2"}
    [] OTHER                                                 -> Results

(* market_from_json.  A selection is a kind and a result. *)
IsSelection(sel) == sel.kind \in Kinds /\ sel.result \in SelectionResults(sel.kind)

\* The checks of Selection and of Market.__post_init__: selections of the
\* market's kind, no result twice.
SelectionsFit(d) ==
  LET S == d.selections
  IN  /\ \A x \in DOMAIN S : IsSelection(S[x]) /\ S[x].kind = d.selectionKind
      /\ \A x, y \in DOMAIN S : S[x].result = S[y].result => x = y

ReadMarket(d, strict) ==
  LET class == MarketClass(d.kind)
  IN  IF /\ SelectionsFit(d)
         /\ RequiredFields(class) \subseteq d.fields
         /\ strict => class # "UnknownMarket"
        THEN [class |-> class, kind |-> d.kind, selections |-> d.selections]
        ELSE Raised
-----------------------------------------------------------------------------
EventClass(kind) ==
  CASE kind \in {<<n>> : n \in HomeAwayNames}   -> "HomeAwaySportEvent"
    [] kind \in {<<n>> : n \in CompetitorNames} -> "CompetitorPairSportEvent"
    [] OTHER                                    -> "UnknownSportEvent"

EventFields(class) ==
  CASE class = "HomeAwaySportEvent"       -> Teams
    [] class = "CompetitorPairSportEvent" -> Competitors
    [] OTHER                              -> {}

\* SportEvent.__post_init__.
HoldsMutant(kind, m) == TRUE
Holds(kind, m)       == EventName(m.kind) \in {EventName(kind), "unknown"}

\* What sport_event_from_json tells market_from_json of strict.
PassedMutant(strict) == FALSE
Passed(strict)       == strict

ReadSportEvent(d, strict) ==
  LET class   == EventClass(d.kind)
      markets == {ReadMarket(m, Passed(strict)) : m \in d.markets}
  IN  IF /\ Raised \notin markets
         /\ EventFields(class) \cup {"competition"} \subseteq d.fields
         /\ strict => class # "UnknownSportEvent"
         /\ \A m \in markets : Holds(d.kind, m)
        THEN [class |-> class, kind |-> d.kind, markets |-> markets]
        ELSE Raised
=============================================================================
