----------------------------- MODULE InputProofs -----------------------------
(***************************************************************************)
(* For every version, first frame, sport event, market and policy: what    *)
(* the runs of MCInputs check on samples.                                  *)
(***************************************************************************)
EXTENDS Inputs, WellFoundedInduction, TLAPS

InputForms ==
  \/ input = None
  \/ \E d \in WireEvents : input = Event(d)
  \/ \E d \in WireMarkets : input = AMarket(d)
  \/ \E f \in Frames, v \in SdkVersions : input = First(f, v)
  \/ \E n \in Attempts, p \in Policies : input = Attempt(n, p)

\* The input is nothing or one of the four kinds a part of the SDK is given.
THEOREM InputsFormed == InputsSpec => []InputForms
<1>1. InputsInit => InputForms
  BY DEF InputsInit, InputForms
<1>2. InputForms /\ [InputsNext]_input => InputForms'
  BY DEF InputsNext, InputForms
<1> QED BY <1>1, <1>2, PTL DEF InputsSpec

(* An upgrade within a major version, for all versions and first frames. *)
LEMMA UpgradeSafe ==
  ASSUME NEW f \in Frames, NEW u \in SdkVersions, NEW v \in SdkVersions
  PROVE  UpgradeIsSafe(f, u, v)
<1>1. /\ u.major \in Nat /\ u.minor \in Nat /\ v.major \in Nat /\ v.minor \in Nat
  BY VersionsAssumption
<1> SUFFICES ASSUME u.major = v.major, u.minor <= v.minor
             PROVE  /\ Order(Handshake(f, u)) <= Order(Handshake(f, v))
                    /\ Handshake(f, u) \in {"incompatible", "raises"} <=>
                         Handshake(f, v) \in {"incompatible", "raises"}
                    /\ f.type = "hello" /\ f.version = <<v.major, v.minor>> =>
                         Handshake(f, v) = "compatible"
  BY DEF UpgradeIsSafe
<1>2. CASE f.type # "hello" \/ f.version = NoText
  <2>1. f.version = NoText => f.version # <<v.major, v.minor>>
    <3>1. <<v.major, v.minor>> \in Seq(Nat)
      BY <1>1
    <3> QED BY <3>1, VersionsAssumption
  <2> QED BY <1>2, <2>1 DEF Handshake, Order
<1>3. CASE f.type = "hello" /\ f.version # NoText
  <2> DEFINE server == [major |-> f.version[1], minor |-> f.version[2]]
  <2>1. f.version \in Seq(Nat \cup {Word})
    BY <1>3, VersionsAssumption
  <2>2. ASSUME NEW w \in SdkVersions PROVE Handshake(f, w) = CheckCompatibility(f.version, w)
    BY <1>3 DEF Handshake
  <2>3. CASE ParseVersion(f.version) = {}
    <3>1. f.version # <<v.major, v.minor>>
      <4> SUFFICES ASSUME f.version = <<v.major, v.minor>> PROVE FALSE
        OBVIOUS
      <4>1. Len(f.version) = 2 /\ f.version[1] # Word /\ f.version[2] # Word
        BY <1>1, VersionsAssumption
      <4>2. server \in ParseVersion(f.version)
        BY <4>1 DEF ParseVersion
      <4> QED BY <4>2, <2>3
    <3>2. Handshake(f, u) = "incompatible" /\ Handshake(f, v) = "incompatible"
      BY <2>2, <2>3 DEF CheckCompatibility
    <3> QED BY <3>1, <3>2 DEF Order
  <2>4. CASE ParseVersion(f.version) # {}
    <3>1. ParseVersion(f.version) = {server} /\ server.major \in Nat /\ server.minor \in Nat
      BY <2>1, <2>4 DEF ParseVersion
    <3>2. ASSUME NEW w \in SdkVersions
          PROVE  Handshake(f, w) = IF server.major = w.major
                                     THEN IF server.minor > w.minor THEN "warning" ELSE "compatible"
                                     ELSE "incompatible"
      BY <2>2, <3>1 DEF CheckCompatibility, Newer
    <3>3. f.version = <<v.major, v.minor>> => server.major = v.major /\ server.minor = v.minor
      OBVIOUS
    <3> HIDE DEF server
    <3> QED BY <1>1, <3>1, <3>2, <3>3 DEF Order
  <2> QED BY <2>3, <2>4
<1> QED BY <1>2, <1>3

(* No upgrade of the SDK within its major version turns a usable server into
   one it refuses or warns of anew, for all versions and first frames. *)
THEOREM UpgradesAlwaysSafe == InputsSpec => []UpgradesAreSafe
<1>1. ASSUME InputForms PROVE UpgradesAreSafe
  <2> SUFFICES ASSUME Is("frame"), NEW v \in SdkVersions
               PROVE  UpgradeIsSafe(input.frame, input.sdk, v)
    BY DEF UpgradesAreSafe
  <2>1. PICK f \in Frames, u \in SdkVersions : input = First(f, u)
    BY <1>1 DEF InputForms, Is, Event, AMarket, First, Attempt
  <2> QED BY <2>1, UpgradeSafe DEF First
<1> QED BY <1>1, InputsFormed, PTL
-----------------------------------------------------------------------------
(* Of one market, strict refuses exactly what would become an UnknownMarket. *)
LEMMA StrictMarket ==
  ASSUME NEW d
  PROVE  /\ ReadMarket(d, TRUE) = IF MarketClass(d.kind) = "UnknownMarket"
                                    THEN Raised ELSE ReadMarket(d, FALSE)
         /\ ReadMarket(d, FALSE) # Raised => ReadMarket(d, FALSE).class = MarketClass(d.kind)
BY DEF ReadMarket

(* Strict reading of an event, by cases of what lenient reading makes of it. *)
AsStrict(lenient) ==
  IF \/ lenient = Raised
     \/ lenient.class = "UnknownSportEvent"
     \/ \E m \in lenient.markets : m.class = "UnknownMarket"
    THEN Raised ELSE lenient

LEMMA StrictEvent ==
  ASSUME NEW d
  PROVE  ReadSportEvent(d, TRUE) = AsStrict(ReadSportEvent(d, FALSE))
<1> DEFINE lenient == ReadSportEvent(d, FALSE)
           strict  == ReadSportEvent(d, TRUE)
           Loose   == {ReadMarket(m, FALSE) : m \in d.markets}
           Tight   == {ReadMarket(m, TRUE) : m \in d.markets}
           fields  == EventFields(EventClass(d.kind)) \cup {"competition"} \subseteq d.fields
           read(M) == [class |-> EventClass(d.kind), kind |-> d.kind, markets |-> M]
           whole   == read(Loose)
<1>1. lenient = IF Raised \notin Loose /\ fields /\ \A m \in Loose : Holds(d.kind, m)
                  THEN whole ELSE Raised
  BY DEF ReadSportEvent, Passed
<1>2. strict = IF /\ Raised \notin Tight /\ fields /\ EventClass(d.kind) # "UnknownSportEvent"
                  /\ \A m \in Tight : Holds(d.kind, m)
                 THEN read(Tight) ELSE Raised
  BY DEF ReadSportEvent, Passed
<1>3. whole.class = EventClass(d.kind) /\ whole.markets = Loose
  OBVIOUS
<1> SUFFICES strict = AsStrict(lenient)
  OBVIOUS
<1> HIDE DEF lenient, strict
<1>4. CASE Raised \in Loose
  <2>1. Raised \in Tight
    BY <1>4, StrictMarket
  <2> QED BY <1>1, <1>2, <1>4, <2>1 DEF AsStrict
<1>5. CASE Raised \notin Loose /\ \E m \in Loose : m.class = "UnknownMarket"
  <2>1. Raised \in Tight
    BY <1>5, StrictMarket
  <2>2. strict = Raised
    BY <1>2, <2>1
  <2>3. lenient = Raised \/ lenient = whole
    BY <1>1
  <2> HIDE DEF Loose, Tight, whole
  <2> QED BY <1>3, <1>5, <2>2, <2>3 DEF AsStrict
<1>6. CASE Raised \notin Loose /\ \A m \in Loose : m.class # "UnknownMarket"
  <2>1. \A m \in d.markets : ReadMarket(m, TRUE) = ReadMarket(m, FALSE)
    BY <1>6, StrictMarket
  <2>2. Tight = Loose
    BY <2>1
  <2>3. strict = IF EventClass(d.kind) = "UnknownSportEvent" THEN Raised ELSE lenient
    BY <1>1, <1>2, <2>2
  <2>4. lenient = Raised \/ lenient = whole
    BY <1>1
  <2> HIDE DEF Loose, Tight, whole
  <2> QED BY <1>3, <1>6, <2>3, <2>4 DEF AsStrict
<1> QED BY <1>4, <1>5, <1>6

(* Strict reading refuses what would be read into an Unknown class and nothing
   more, for every sport event on the wire. *)
THEOREM StrictAlwaysRefusesUnknown == InputsSpec => []StrictRefusesUnknown
<1>1. StrictRefusesUnknown
  BY StrictEvent DEF StrictRefusesUnknown, AsStrict
<1> QED BY <1>1, PTL
-----------------------------------------------------------------------------
(* The two tables of sports and the check of SportEvent.__post_init__. *)

LEMMA TwoKindsOfNames ==
  /\ \A n \in HomeAwayNames : n \notin CompetitorNames /\ n \in SportEventKinds
  /\ \A n \in CompetitorNames : n \notin HomeAwayNames /\ n \in SportEventKinds
  /\ "basketball_match" \in HomeAwayNames /\ "hockey_match" \in HomeAwayNames
  /\ "tennis_match" \in CompetitorNames
  /\ {"moneyline", "handicap", "total", "player_prop_over_under", "regulation_moneyline"}
       = MarketNames
BY DEF MarketNames, HomeAwayNames, CompetitorNames, SportEventKinds

LEMMA EventKindKnown ==
  ASSUME NEW kind, EventClass(kind) # "UnknownSportEvent"
  PROVE  /\ EventName(kind) \in SportEventKinds
         /\ EventClass(kind) = "CompetitorPairSportEvent" <=> EventName(kind) \in CompetitorNames
<1>1. CASE kind \in {<<n>> : n \in HomeAwayNames}
  <2>1. PICK n \in HomeAwayNames : kind = <<n>>
    BY <1>1
  <2>2. kind # Malformed /\ EventName(kind) = n
    BY <2>1, MalformedIsNoKind, TwoKindsOfNames DEF EventName
  <2>3. kind \notin {<<x>> : x \in CompetitorNames}
    BY <2>1, TwoKindsOfNames
  <2>4. EventClass(kind) = "HomeAwaySportEvent"
    BY <1>1, <2>3 DEF EventClass
  <2> QED BY <2>2, <2>4, TwoKindsOfNames
<1>2. CASE kind \in {<<n>> : n \in CompetitorNames}
  <2>1. PICK n \in CompetitorNames : kind = <<n>>
    BY <1>2
  <2>2. kind # Malformed /\ EventName(kind) = n
    BY <2>1, MalformedIsNoKind, TwoKindsOfNames DEF EventName
  <2>3. kind \notin {<<x>> : x \in HomeAwayNames}
    BY <2>1, TwoKindsOfNames
  <2>4. EventClass(kind) = "CompetitorPairSportEvent"
    BY <1>2, <2>3 DEF EventClass
  <2> QED BY <2>2, <2>4, TwoKindsOfNames
<1>3. CASE kind \notin {<<n>> : n \in HomeAwayNames} /\ kind \notin {<<n>> : n \in CompetitorNames}
  BY <1>3 DEF EventClass
<1> QED BY <1>1, <1>2, <1>3

\* The guards of market_from_json exclude each other.
LEMMA HomeAwayMarket ==
  ASSUME NEW kind,
         kind \in HomeAwayMoneylines \cup HomeAwayLines("handicap") \cup HomeAwayLines("total")
                   \cup {<<"basketball_match", "player_prop_over_under">>}
  PROVE  /\ \E n \in HomeAwayNames, name \in MarketNames : kind = <<n, name>>
         /\ MarketClass(kind) \notin {"CompetitorMoneyline", "CompetitorHandicap", "CompetitorTotal"}
<1>1. PICK n, name : kind = <<n, name>> /\ n \in HomeAwayNames /\ name \in MarketNames
  <2>1. CASE kind \in HomeAwayNames \X {"moneyline"}
    <3>1. PICK n \in HomeAwayNames : kind = <<n, "moneyline">>
      BY <2>1
    <3> QED BY <3>1, TwoKindsOfNames
  <2>2. CASE kind = <<"hockey_match", "regulation_moneyline">>
    BY <2>2, TwoKindsOfNames
  <2>3. CASE kind \in HomeAwayLines("handicap")
    <3>1. PICK n \in HomeAwayNames : kind = <<n, "handicap">>
      BY <2>3 DEF HomeAwayLines
    <3> QED BY <3>1, TwoKindsOfNames
  <2>4. CASE kind \in HomeAwayLines("total")
    <3>1. PICK n \in HomeAwayNames : kind = <<n, "total">>
      BY <2>4 DEF HomeAwayLines
    <3> QED BY <3>1, TwoKindsOfNames
  <2>5. CASE kind = <<"basketball_match", "player_prop_over_under">>
    BY <2>5, TwoKindsOfNames
  <2> QED BY <2>1, <2>2, <2>3, <2>4, <2>5 DEF HomeAwayMoneylines
<1>2. /\ kind \notin CompetitorNames \X {"moneyline"}
      /\ kind # <<"tennis_match", "handicap">> /\ kind # <<"tennis_match", "total">>
  BY <1>1, TwoKindsOfNames
<1>3. MarketClass(kind) \in {"HomeAwayMoneyline", "HomeAwayHandicap", "HomeAwayTotal", "PlayerProp"}
  BY <1>2 DEF MarketClass
<1> QED BY <1>1, <1>3

LEMMA CompetitorMarket ==
  ASSUME NEW kind,
         kind \in (CompetitorNames \X {"moneyline"})
                   \cup {<<"tennis_match", "handicap">>, <<"tennis_match", "total">>}
  PROVE  /\ \E n \in CompetitorNames, name \in MarketNames : kind = <<n, name>>
         /\ MarketClass(kind) \in {"CompetitorMoneyline", "CompetitorHandicap", "CompetitorTotal"}
<1>1. PICK n, name : kind = <<n, name>> /\ n \in CompetitorNames /\ name \in MarketNames
  <2>1. CASE kind \in CompetitorNames \X {"moneyline"}
    <3>1. PICK n \in CompetitorNames : kind = <<n, "moneyline">>
      BY <2>1
    <3> QED BY <3>1, TwoKindsOfNames
  <2>2. CASE kind \in {<<"tennis_match", "handicap">>, <<"tennis_match", "total">>}
    BY <2>2, TwoKindsOfNames
  <2> QED BY <2>1, <2>2
<1>2. /\ kind \notin HomeAwayMoneylines
      /\ kind \notin HomeAwayLines("handicap") /\ kind \notin HomeAwayLines("total")
      /\ kind # <<"basketball_match", "player_prop_over_under">>
  BY <1>1, TwoKindsOfNames DEF HomeAwayMoneylines, HomeAwayLines
<1>3. MarketClass(kind) \in {"CompetitorMoneyline", "CompetitorHandicap", "CompetitorTotal"}
  BY <1>2 DEF MarketClass
<1> QED BY <1>1, <1>3

LEMMA MarketKindKnown ==
  ASSUME NEW kind, MarketClass(kind) # "UnknownMarket"
  PROVE  \E n \in SportEventKinds, name \in MarketNames :
           /\ kind = <<n, name>>
           /\ MarketClass(kind) \in {"CompetitorMoneyline", "CompetitorHandicap", "CompetitorTotal"}
                <=> n \in CompetitorNames
<1>1. \/ kind \in HomeAwayMoneylines \cup HomeAwayLines("handicap") \cup HomeAwayLines("total")
                    \cup {<<"basketball_match", "player_prop_over_under">>}
      \/ kind \in (CompetitorNames \X {"moneyline"})
                    \cup {<<"tennis_match", "handicap">>, <<"tennis_match", "total">>}
  BY DEF MarketClass
<1> QED BY <1>1, HomeAwayMarket, CompetitorMarket, TwoKindsOfNames

LEMMA CompetitorFields ==
  ASSUME NEW kind
  PROVE  Competitors \subseteq RequiredFields(MarketClass(kind)) <=>
           MarketClass(kind) \in {"CompetitorMoneyline", "CompetitorHandicap", "CompetitorTotal"}
<1>1. MarketClass(kind) \in {"HomeAwayMoneyline", "HomeAwayHandicap", "HomeAwayTotal", "PlayerProp",
                             "CompetitorMoneyline", "CompetitorHandicap", "CompetitorTotal",
                             "UnknownMarket"}
  BY DEF MarketClass
<1> HIDE DEF MarketClass
<1> QED BY <1>1 DEF RequiredFields, Competitors, Teams

(* One sport for an event and its markets, for every sport event on the wire
   that is read at all: the check of the constructor compares names only, the
   tables do the rest. *)
THEOREM SportsAlwaysAgree == InputsSpec => []SportsAgree
<1>1. ASSUME NEW d, NEW e, e = ReadSportEvent(d, FALSE), e # Raised, e.class # "UnknownSportEvent"
      PROVE  /\ EventName(e.kind) \in SportNames
             /\ \A m \in e.markets :
                  /\ EventName(m.kind) \in {EventName(e.kind), "unknown"}
                  /\ m.class # "UnknownMarket" =>
                       (Competitors \subseteq RequiredFields(m.class)
                          <=> e.class = "CompetitorPairSportEvent")
  <2>1. PICK Read : Read = {ReadMarket(m, FALSE) : m \in d.markets}
    OBVIOUS
  <2>2. /\ e = [class |-> EventClass(d.kind), kind |-> d.kind, markets |-> Read]
        /\ Raised \notin Read /\ \A m \in Read : Holds(d.kind, m)
    BY <1>1, <2>1 DEF ReadSportEvent, Passed
  <2>3. e.class = EventClass(e.kind) /\ e.kind = d.kind /\ e.markets = Read
    BY <2>2
  <2>4. /\ EventName(e.kind) \in SportEventKinds
        /\ e.class = "CompetitorPairSportEvent" <=> EventName(e.kind) \in CompetitorNames
    BY <1>1, <2>3, EventKindKnown
  <2>5. ASSUME NEW m \in Read
        PROVE  /\ EventName(m.kind) \in {EventName(e.kind), "unknown"}
               /\ m.class # "UnknownMarket" =>
                    (Competitors \subseteq RequiredFields(m.class)
                       <=> e.class = "CompetitorPairSportEvent")
    <3>1. EventName(m.kind) \in {EventName(e.kind), "unknown"}
      BY <2>2, <2>3 DEF Holds
    <3>2. m.class = MarketClass(m.kind)
      <4>1. PICK w \in d.markets : m = ReadMarket(w, FALSE)
        BY <2>1
      <4>2. m # Raised
        BY <2>2
      <4>3. m = [class |-> MarketClass(w.kind), kind |-> w.kind, selections |-> w.selections]
        BY <4>1, <4>2 DEF ReadMarket
      <4> QED BY <4>3
    <3>3. ASSUME m.class # "UnknownMarket"
          PROVE  Competitors \subseteq RequiredFields(m.class) <=> EventName(e.kind) \in CompetitorNames
      <4>1. PICK n \in SportEventKinds, name \in MarketNames :
              /\ m.kind = <<n, name>>
              /\ m.class \in {"CompetitorMoneyline", "CompetitorHandicap", "CompetitorTotal"}
                   <=> n \in CompetitorNames
        BY <3>2, <3>3, MarketKindKnown
      <4>2. EventName(m.kind) = n
        BY <4>1, MalformedIsNoKind DEF EventName
      <4>3. n # "unknown"
        BY DEF SportEventKinds, HomeAwayNames, CompetitorNames
      <4> QED BY <3>1, <3>2, <4>1, <4>2, <4>3, CompetitorFields
    <3> QED BY <2>4, <3>1, <3>3
  <2> QED BY <2>3, <2>4, <2>5 DEF SportNames
<1>2. SportsAgree
  BY <1>1 DEF SportsAgree
<1> QED BY <1>2, PTL
-----------------------------------------------------------------------------
(* Every kind of market of the contract has a class, and the class a name for
   every result of the kind of selection the contract gives it. *)
LEMMA ContractClasses ==
  ASSUME NEW kind \in MarketKinds
  PROVE  /\ MarketClass(kind) # "UnknownMarket"
         /\ SelectionResults(ContractKind(kind)) \subseteq NamedResults(MarketClass(kind))
<1>1. CASE kind \in HomeAwayNames \X {"moneyline"}
  <2>1. PICK n \in HomeAwayNames : kind = <<n, "moneyline">>
    BY <1>1
  <2>2. MarketClass(kind) = "HomeAwayMoneyline"
    BY <2>1, TwoKindsOfNames DEF MarketClass, HomeAwayMoneylines, HomeAwayLines
  <2>3. ContractKind(kind) \in {"home/draw/away", "home/away"}
    BY <2>1, TwoKindsOfNames DEF ContractKind
  <2> QED BY <2>2, <2>3 DEF SelectionResults, NamedResults
<1>2. CASE kind \in CompetitorNames \X {"moneyline"}
  <2>1. PICK n \in CompetitorNames : kind = <<n, "moneyline">>
    BY <1>2
  <2>2. MarketClass(kind) = "CompetitorMoneyline"
    BY <2>1, TwoKindsOfNames DEF MarketClass, HomeAwayMoneylines, HomeAwayLines
  <2>3. ContractKind(kind) = "competitor1/competitor2"
    BY <2>1 DEF ContractKind
  <2> QED BY <2>2, <2>3 DEF SelectionResults, NamedResults
<1>3. CASE kind \in HomeAwayLines("handicap")
  <2>1. PICK n \in HomeAwayNames : kind = <<n, "handicap">> /\ n # "cricket_match"
    BY <1>3 DEF HomeAwayLines
  <2>2. MarketClass(kind) = "HomeAwayHandicap"
    BY <1>3, <2>1, TwoKindsOfNames DEF MarketClass, HomeAwayMoneylines, HomeAwayLines
  <2>3. ContractKind(kind) = "home/away"
    BY <2>1, TwoKindsOfNames DEF ContractKind
  <2> QED BY <2>2, <2>3 DEF SelectionResults, NamedResults
<1>4. CASE kind \in HomeAwayLines("total")
  <2>1. PICK n \in HomeAwayNames : kind = <<n, "total">> /\ n # "cricket_match"
    BY <1>4 DEF HomeAwayLines
  <2>2. MarketClass(kind) = "HomeAwayTotal"
    BY <1>4, <2>1, TwoKindsOfNames DEF MarketClass, HomeAwayMoneylines, HomeAwayLines
  <2>3. ContractKind(kind) = "over/under"
    BY <2>1 DEF ContractKind
  <2> QED BY <2>2, <2>3 DEF SelectionResults, NamedResults
<1>5. CASE kind = <<"tennis_match", "handicap">>
  <2>1. MarketClass(kind) = "CompetitorHandicap"
    BY <1>5, TwoKindsOfNames DEF MarketClass, HomeAwayMoneylines, HomeAwayLines
  <2>2. ContractKind(kind) = "competitor1/competitor2"
    BY <1>5, TwoKindsOfNames DEF ContractKind
  <2> QED BY <2>1, <2>2 DEF SelectionResults, NamedResults
<1>6. CASE kind = <<"tennis_match", "total">>
  <2>1. MarketClass(kind) = "CompetitorTotal"
    BY <1>6, TwoKindsOfNames DEF MarketClass, HomeAwayMoneylines, HomeAwayLines
  <2>2. ContractKind(kind) = "over/under"
    BY <1>6 DEF ContractKind
  <2> QED BY <2>1, <2>2 DEF SelectionResults, NamedResults
<1>7. CASE kind = <<"basketball_match", "player_prop_over_under">>
  <2>1. MarketClass(kind) = "PlayerProp"
    BY <1>7, TwoKindsOfNames DEF MarketClass, HomeAwayMoneylines, HomeAwayLines
  <2>2. ContractKind(kind) = "over/under"
    BY <1>7 DEF ContractKind
  <2> QED BY <2>1, <2>2 DEF SelectionResults, NamedResults
<1>8. CASE kind = <<"hockey_match", "regulation_moneyline">>
  <2>1. MarketClass(kind) = "HomeAwayMoneyline"
    BY <1>8, TwoKindsOfNames DEF MarketClass, HomeAwayMoneylines, HomeAwayLines
  <2>2. ContractKind(kind) = "home/draw/away"
    BY <1>8, TwoKindsOfNames DEF ContractKind
  <2> QED BY <2>1, <2>2 DEF SelectionResults, NamedResults
<1>9. \/ kind \in HomeAwayNames \X {"moneyline"} \/ kind \in CompetitorNames \X {"moneyline"}
      \/ kind \in HomeAwayLines("handicap") \/ kind \in HomeAwayLines("total")
      \/ kind = <<"tennis_match", "handicap">> \/ kind = <<"tennis_match", "total">>
      \/ kind = <<"basketball_match", "player_prop_over_under">>
      \/ kind = <<"hockey_match", "regulation_moneyline">>
  <2>1. CASE kind \in SportEventKinds \X {"moneyline"}
    BY <2>1 DEF SportEventKinds
  <2>2. CASE kind \in (SportEventKinds \ {"boxing_fight", "mma_fight", "cricket_match"})
                        \X {"handicap", "total"}
    <3>1. PICK n \in SportEventKinds \ {"boxing_fight", "mma_fight", "cricket_match"},
               line \in {"handicap", "total"} : kind = <<n, line>>
      BY <2>2
    <3>2. n \in HomeAwayNames \ {"cricket_match"} \/ n = "tennis_match"
      BY DEF SportEventKinds, CompetitorNames
    <3> QED BY <3>1, <3>2 DEF HomeAwayLines
  <2> QED BY <2>1, <2>2 DEF MarketKinds
<1> QED BY <1>1, <1>2, <1>3, <1>4, <1>5, <1>6, <1>7, <1>8, <1>9

(* A market of the contract is read in strict mode and can name each of its
   selections, whichever of them it has. *)
THEOREM ContractAlwaysRead == InputsSpec => []ContractIsRead
<1>1. ASSUME InputForms PROVE ContractIsRead
  <2> SUFFICES ASSUME Is("market"), NEW d, d = input.data, d.kind \in MarketKinds,
                      d.selectionKind = ContractKind(d.kind),
                      SelectionsFit(d),
                      RequiredFields(MarketClass(d.kind)) \subseteq d.fields
               PROVE  /\ ReadMarket(d, TRUE) # Raised
                      /\ SelectionResults(d.selectionKind)
                           \subseteq NamedResults(ReadMarket(d, TRUE).class)
    BY DEF ContractIsRead
  <2>1. d \in WireMarkets
    <3>1. PICK w \in WireMarkets : input = AMarket(w)
      BY <1>1 DEF InputForms, Is, Event, AMarket, First, Attempt
    <3> QED BY <3>1 DEF AMarket
  <2>2. ReadMarket(d, TRUE) =
          [class |-> MarketClass(d.kind), kind |-> d.kind, selections |-> d.selections]
    BY ContractClasses DEF ReadMarket
  <2>3. ReadMarket(d, TRUE) # Raised
    BY <2>1, <2>2, RaisedIsNoMarket
  <2>4. ReadMarket(d, TRUE).class = MarketClass(d.kind)
    BY <2>3, StrictMarket, ContractClasses
  <2> QED BY <2>3, <2>4, ContractClasses
<1> QED BY <1>1, InputsFormed, PTL
-----------------------------------------------------------------------------
(* Powers.  Power is a recursive function on the naturals; that there is one
   has to be shown, by induction on the set of the numbers it goes as far as. *)
LEMMA SetInduction ==
  ASSUME NEW S, 0 \in S, \A n \in Nat : n \in S => n + 1 \in S
  PROVE  \A n \in Nat : n \in S
<1> SUFFICES ASSUME Nat \ S # {} PROVE FALSE
  OBVIOUS
<1>1. \E i \in Nat \ S : \A j \in Nat \ S : ~ (<<j, i>> \in OpToRel(<, Nat))
  BY NatLessThanWellFounded, WFMin
<1>2. PICK i \in Nat \ S : \A j \in Nat \ S : ~ (j < i)
  BY <1>1 DEF OpToRel
<1>3. i # 0 /\ i - 1 \in Nat /\ i - 1 < i
  BY <1>2
<1>4. i - 1 \in S
  BY <1>2, <1>3
<1>5. (i - 1) + 1 \in S
  BY <1>3, <1>4
<1> QED BY <1>2, <1>5

\* g holds the powers of k up to the n-th.
PowersUpTo(g, k, n) == /\ g \in [0 .. n -> Nat] /\ g[0] = 1
                       /\ \A i \in 1 .. n : g[i] = k * g[i - 1]

LEMMA PowersExist ==
  ASSUME NEW k \in Nat
  PROVE  \A n \in Nat : \E g : PowersUpTo(g, k, n)
<1> DEFINE S == {n \in Nat : \E g : PowersUpTo(g, k, n)}
<1>1. 0 \in S
  <2>1. PowersUpTo([i \in 0 .. 0 |-> 1], k, 0)
    BY DEF PowersUpTo
  <2> QED BY <2>1
<1>2. ASSUME NEW n \in Nat, n \in S PROVE n + 1 \in S
  <2>1. PICK g : PowersUpTo(g, k, n)
    BY <1>2
  <2> DEFINE h == [i \in 0 .. n + 1 |-> IF i = n + 1 THEN k * g[n] ELSE g[i]]
  <2>2. g \in [0 .. n -> Nat] /\ g[n] \in Nat /\ k * g[n] \in Nat
    BY <2>1 DEF PowersUpTo
  <2>3. h \in [0 .. n + 1 -> Nat] /\ h[0] = 1
    BY <2>1, <2>2 DEF PowersUpTo
  <2>4. \A i \in 1 .. n + 1 : h[i] = k * h[i - 1]
    <3> SUFFICES ASSUME NEW i \in 1 .. n + 1 PROVE h[i] = k * h[i - 1]
      OBVIOUS
    <3>1. CASE i = n + 1
      BY <3>1
    <3>2. CASE i # n + 1
      <4>1. i \in 1 .. n /\ i - 1 \in 0 .. n /\ i \in 0 .. n + 1 /\ i - 1 \in 0 .. n + 1
        BY <3>2
      <4>2. h[i] = g[i] /\ h[i - 1] = g[i - 1]
        BY <3>2, <4>1
      <4> HIDE DEF h
      <4> QED BY <2>1, <4>1, <4>2 DEF PowersUpTo
    <3> QED BY <3>1, <3>2
  <2> HIDE DEF h
  <2>5. PowersUpTo(h, k, n + 1)
    BY <2>3, <2>4 DEF PowersUpTo
  <2> QED BY <2>5
<1> HIDE DEF S
<1>3. \A n \in Nat : n \in S
  BY <1>1, <1>2, SetInduction
<1> QED BY <1>3 DEF S

LEMMA PowersUnique ==
  ASSUME NEW k \in Nat, NEW n \in Nat, NEW m \in Nat, n <= m,
         NEW g, PowersUpTo(g, k, n), NEW h, PowersUpTo(h, k, m)
  PROVE  g[n] = h[n]
<1> DEFINE S == {i \in Nat : i <= n => g[i] = h[i]}
<1>1. 0 \in S
  BY DEF PowersUpTo
<1>2. ASSUME NEW i \in Nat, i \in S PROVE i + 1 \in S
  <2> SUFFICES ASSUME i + 1 <= n PROVE g[i + 1] = h[i + 1]
    OBVIOUS
  <2>1. i + 1 \in 1 .. n /\ i + 1 \in 1 .. m /\ (i + 1) - 1 = i /\ i <= n
    OBVIOUS
  <2>2. g[i] = h[i]
    BY <1>2, <2>1
  <2>3. g[i + 1] = k * g[i] /\ h[i + 1] = k * h[i]
    BY <2>1 DEF PowersUpTo
  <2> QED BY <2>2, <2>3
<1> HIDE DEF S
<1>3. n \in S
  BY <1>1, <1>2, SetInduction
<1> QED BY <1>3 DEF S

LEMMA PowerIs ==
  ASSUME NEW k \in Nat
  PROVE  /\ Power(k)[0] = 1
         /\ \A n \in Nat : Power(k)[n] \in Nat /\ Power(k)[n + 1] = k * Power(k)[n]
<1> DEFINE G(n) == CHOOSE g : PowersUpTo(g, k, n)
           F    == [n \in Nat |-> G(n)[n]]
           Step(f) == [n \in Nat |-> IF n = 0 THEN 1 ELSE k * f[n - 1]]
<1>1. \A n \in Nat : PowersUpTo(G(n), k, n)
  BY PowersExist
<1> HIDE DEF G
<1>2. \A n \in Nat : F[n] = G(n)[n]
  OBVIOUS
<1>3. \A n \in Nat : F[n] = IF n = 0 THEN 1 ELSE k * F[n - 1]
  <2> SUFFICES ASSUME NEW n \in Nat PROVE F[n] = IF n = 0 THEN 1 ELSE k * F[n - 1]
    OBVIOUS
  <2>1. CASE n = 0
    BY <1>1, <1>2, <2>1 DEF PowersUpTo
  <2>2. CASE n # 0
    <3>1. n - 1 \in Nat /\ n - 1 <= n /\ n \in 1 .. n
      BY <2>2
    <3>2. G(n)[n] = k * G(n)[n - 1]
      BY <1>1, <3>1 DEF PowersUpTo
    <3>3. G(n - 1)[n - 1] = G(n)[n - 1]
      BY <1>1, <3>1, PowersUnique
    <3>4. F[n] = G(n)[n] /\ F[n - 1] = G(n - 1)[n - 1]
      BY <1>2, <3>1
    <3> QED BY <2>2, <3>2, <3>3, <3>4
  <2> QED BY <2>1, <2>2
<1>4. F = Step(F)
  <2>1. F = [n \in Nat |-> F[n]]
    OBVIOUS
  <2> HIDE DEF F
  <2> QED BY <1>3, <2>1
<1>5. Power(k) = CHOOSE f : f = Step(f)
  BY DEF Power
<1> HIDE DEF F, Step
<1>6. Power(k) = Step(Power(k))
  BY <1>4, <1>5
<1>7. /\ Power(k)[0] = 1
      /\ \A n \in Nat : Power(k)[n + 1] = k * Power(k)[n]
  <2>1. \A n \in Nat : Step(Power(k))[n] = IF n = 0 THEN 1 ELSE k * Power(k)[n - 1]
    BY DEF Step
  <2>2. \A n \in Nat : Power(k)[n] = IF n = 0 THEN 1 ELSE k * Power(k)[n - 1]
    BY <1>6, <2>1
  <2>3. \A n \in Nat : n + 1 \in Nat /\ n + 1 # 0 /\ (n + 1) - 1 = n
    OBVIOUS
  <2> QED BY <2>2, <2>3
<1>8. \A n \in Nat : Power(k)[n] \in Nat
  <2> DEFINE S == {n \in Nat : Power(k)[n] \in Nat}
  <2>1. 0 \in S /\ \A n \in Nat : n \in S => n + 1 \in S
    BY <1>7
  <2> HIDE DEF S
  <2>2. \A n \in Nat : n \in S
    BY <2>1, SetInduction
  <2> QED BY <2>2 DEF S
<1> QED BY <1>7, <1>8
-----------------------------------------------------------------------------
(* What a longer wait comes from: products and quotients keep the order. *)
LEMMA ProductsGrow ==
  ASSUME NEW a \in Nat, NEW b \in Nat, NEW c \in Nat, a <= b
  PROVE  c * a <= c * b
OBVIOUS

LEMMA FactorsCancel ==
  ASSUME NEW a \in Nat, NEW b \in Nat, NEW c \in Nat \ {0}, c * a <= c * b
  PROVE  a <= b
OBVIOUS

LEMMA QuotientIs ==
  ASSUME NEW a \in Nat, NEW d \in Nat \ {0}
  PROVE  a \div d \in Nat /\ d * (a \div d) <= a /\ a < d * ((a \div d) + 1)
OBVIOUS

LEMMA QuotientsGrow ==
  ASSUME NEW a \in Nat, NEW b \in Nat, NEW d \in Nat \ {0}, a <= b
  PROVE  a \div d <= b \div d
<1>1. PICK q \in Nat, r \in Nat : q = a \div d /\ r = b \div d
  BY QuotientIs
<1>2. d * q <= a /\ b < d * (r + 1)
  BY <1>1, QuotientIs
<1>3. d * q < d * (r + 1)
  BY <1>2
<1>4. q <= r
  BY <1>3
<1> QED BY <1>1, <1>4

(* The base of a wait: up to the cap it is the factor times the one before. *)
LEMMA BaseIs ==
  ASSUME NEW n \in Nat \ {0}, NEW p \in Policies
  PROVE  /\ Base(n, p) \in Nat /\ Base(n + 1, p) \in Nat
         /\ Base(n, p) <= p.maxDelay /\ Base(n, p) <= Base(n + 1, p)
         /\ Base(n + 1, p) < p.maxDelay => Base(n + 1, p) = p.factor * Base(n, p)
<1>1. PICK i \in Nat, k \in Nat \ {0}, c \in Nat :
        i = p.initialDelay /\ k = p.factor /\ c = p.maxDelay
  BY PoliciesAssumption
<1>2. PICK x \in Nat, y \in Nat : x = Power(k)[n - 1] /\ y = Power(k)[n] /\ y = k * x
  <2>1. n - 1 \in Nat /\ (n - 1) + 1 = n
    OBVIOUS
  <2>2. /\ Power(k)[n - 1] \in Nat
        /\ Power(k)[(n - 1) + 1] \in Nat
        /\ Power(k)[(n - 1) + 1] = k * Power(k)[n - 1]
    BY <2>1, PowerIs
  <2> QED BY <2>1, <2>2
<1>3. i * x \in Nat /\ i * y \in Nat /\ i * y = k * (i * x) /\ i * x <= i * y
  <2>1. x <= y
    BY <1>2
  <2> QED BY <1>2, <2>1, ProductsGrow
<1>4. Base(n, p) = Smaller(i * x, c) /\ Base(n + 1, p) = Smaller(i * y, c)
  <2>1. (n + 1) - 1 = n
    OBVIOUS
  <2> QED BY <1>1, <1>2, <2>1 DEF Base, Capped
<1>5. PICK v \in Nat, w \in Nat : v = i * x /\ w = i * y /\ w = k * v /\ v <= w
  BY <1>3
<1> QED BY <1>1, <1>4, <1>5 DEF Smaller

(* Reconnects back off, for every whole policy and attempt: a wait is the
   quotient of a product, the base grows with its powers of the factor, and the
   longest wait before the cap is below the shortest of the next attempt. *)
LEMMA WaitsGrow ==
  ASSUME NEW n \in Nat \ {0}, NEW p \in Policies
  PROVE  DelaysBack(n, p)
<1>1. PICK j \in Nat, k \in Nat \ {0}, c \in Nat, G \in Nat \ {0} :
        j = p.jitter /\ k = p.factor /\ c = p.maxDelay /\ G = Grain
  BY PoliciesAssumption
<1>2. PICK a \in Nat, b \in Nat :
        /\ a = Base(n, p) /\ b = Base(n + 1, p)
        /\ a <= c /\ a <= b /\ (b < c => b = k * a)
  BY <1>1, BaseIs
<1>3. PICK low \in Int, high \in Int :
        /\ low = (10 - j) * G + 2 * 0 * j /\ high = (10 - j) * G + 2 * (G - 1) * j
        /\ low = (10 - j) * G
  <2>1. (10 - j) * G \in Int /\ 2 * (G - 1) * j \in Int /\ 2 * 0 * j = 0
    OBVIOUS
  <2> QED BY <2>1
<1>4. PICK d \in Nat \ {0} : d = 10 * G
  OBVIOUS
<1>5. /\ Least(n, p) = IF low < 0 THEN 0 ELSE (a * low) \div d
      /\ Least(n + 1, p) = IF low < 0 THEN 0 ELSE (b * low) \div d
      /\ Greatest(n, p) = IF high < 0 THEN 0 ELSE (a * high) \div d
      /\ Greatest(n + 1, p) = IF high < 0 THEN 0 ELSE (b * high) \div d
  BY <1>1, <1>2, <1>3, <1>4 DEF Least, Greatest, Delay
<1>6. ASSUME NEW parts \in Nat
      PROVE  a * parts \in Nat /\ (a * parts) \div d <= (b * parts) \div d
  <2>1. PICK x \in Nat, y \in Nat : x = a * parts /\ y = b * parts
    OBVIOUS
  <2>2. x <= y
    BY <1>2, <2>1, ProductsGrow
  <2> QED BY <2>1, <2>2, QuotientsGrow
<1>7. high <= (10 + j) * G
  <2>1. PICK x \in Nat : x = j * G
    OBVIOUS
  <2>2. (10 - j) * G = 10 * G - x /\ (10 + j) * G = 10 * G + x /\ 2 * (G - 1) * j = 2 * x - 2 * j
    BY <2>1
  <2> QED BY <1>3, <2>2
<1>8. Least(n, p) <= Least(n + 1, p) /\ Greatest(n, p) <= Greatest(n + 1, p)
  BY <1>5, <1>6
<1>9. 10 * Greatest(n, p) <= c * (10 + j)
  <2>1. CASE high < 0
    <3>1. 0 <= c * (10 + j)
      OBVIOUS
    <3> QED BY <1>5, <2>1, <3>1
  <2>2. CASE high >= 0
    <3>1. PICK x \in Nat, q \in Nat : x = a * high /\ q = x \div d
      <4>1. a * high \in Nat
        BY <2>2
      <4> QED BY <4>1, QuotientIs
    <3>2. d * q <= x
      BY <3>1, QuotientIs
    <3>3. x <= a * ((10 + j) * G)
      BY <1>7, <2>2, <3>1, ProductsGrow
    <3>4. a * ((10 + j) * G) <= c * ((10 + j) * G)
      BY <1>2, ProductsGrow
    <3>5. G * (10 * q) <= G * (c * (10 + j))
      <4>1. G * (10 * q) = d * q
        BY <1>4
      <4>2. G * (c * (10 + j)) = c * ((10 + j) * G)
        OBVIOUS
      <4> QED BY <3>2, <3>3, <3>4, <4>1, <4>2
    <3>6. 10 * q \in Nat /\ c * (10 + j) \in Nat
      OBVIOUS
    <3>7. 10 * q <= c * (10 + j)
      BY <3>5, <3>6, FactorsCancel
    <3> QED BY <1>5, <2>2, <3>1, <3>7
  <2> QED BY <2>1, <2>2
<1>10. ASSUME b < c, k * (10 - j) >= 10 + j
       PROVE  Greatest(n, p) <= Least(n + 1, p)
  <2>1. 10 - j \in Nat
    <3>1. k * (10 - j) > 0
      BY <1>10
    <3> QED BY <3>1
  <2>2. low \in Nat
    BY <1>3, <2>1
  <2>3. b = k * a
    BY <1>2, <1>10
  <2>4. ASSUME high >= 0 PROVE (a * high) \div d <= (b * low) \div d
    <3>1. PICK x \in Nat, y \in Nat : x = a * high /\ y = b * low
      BY <2>2, <2>4
    <3>2. x <= a * ((10 + j) * G)
      BY <1>7, <2>4, <3>1, ProductsGrow
    <3>3. (10 + j) * G <= (k * (10 - j)) * G
      <4>1. k * (10 - j) \in Nat
        BY <2>1
      <4>2. G * (10 + j) <= G * (k * (10 - j))
        BY <1>10, <4>1, ProductsGrow
      <4> QED BY <4>1, <4>2
    <3>4. a * ((10 + j) * G) <= a * ((k * (10 - j)) * G)
      <4>1. (10 + j) * G \in Nat /\ (k * (10 - j)) * G \in Nat
        BY <2>1
      <4> QED BY <3>3, <4>1, ProductsGrow
    <3>5. a * ((k * (10 - j)) * G) = y
      BY <1>3, <2>1, <2>3, <3>1
    <3>6. x <= y
      BY <3>2, <3>4, <3>5
    <3> QED BY <3>1, <3>6, QuotientsGrow
  <2>5. CASE high < 0
    <3>1. (b * low) \div d \in Nat
      <4>1. b * low \in Nat
        BY <2>2
      <4> QED BY <4>1, QuotientIs
    <3> QED BY <1>5, <2>2, <2>5, <3>1
  <2> QED BY <1>5, <2>2, <2>4, <2>5
<1> QED BY <1>1, <1>2, <1>8, <1>9, <1>10 DEF DelaysBack

(* Reconnects back off, whatever the policy of whole numbers and the attempt. *)
THEOREM DelaysAlwaysGrow == InputsSpec => []DelaysGrow
<1>1. ASSUME InputForms PROVE DelaysGrow
  <2> SUFFICES ASSUME Is("attempt") PROVE DelaysBack(input.number, input.policy)
    BY DEF DelaysGrow
  <2>1. PICK n \in Attempts, p \in Policies : input = Attempt(n, p)
    BY <1>1 DEF InputForms, Is, Event, AMarket, First, Attempt
  <2>2. n \in Nat \ {0}
    BY PoliciesAssumption
  <2> QED BY <2>1, <2>2, WaitsGrow DEF Attempt
<1> QED BY <1>1, InputsFormed, PTL
=============================================================================
