------------------------------- MODULE Inputs -------------------------------
(***************************************************************************)
(* The parts of the SDK that keep no state, each on one input at a time:   *)
(* a sport event on the wire, a first frame, an attempt to reconnect.      *)
(***************************************************************************)
EXTENDS WireEntities, Protocol, Backoff

CONSTANTS
  WireMarkets, WireEvents, Frames, SdkVersions, Policies, Attempts,
  None

ASSUME VersionsAssumption ==
  /\ SdkVersions \subseteq [major : Nat, minor : Nat]
  /\ \A f \in Frames : f.version = NoText \/ f.version \in Seq(Nat \cup {Word})
  /\ Word \notin Nat /\ NoText \notin Seq(Nat)

\* To raise is not to return a market.
ASSUME RaisedIsNoMarket ==
  \A d \in WireMarkets :
    Raised # [class |-> MarketClass(d.kind), kind |-> d.kind, selections |-> d.selections]

\* Whole, and none that shrinks: ReconnectPolicy checks nothing itself.
ASSUME PoliciesAssumption ==
  /\ Attempts \subseteq Nat \ {0} /\ Grain \in Nat \ {0}
  /\ Policies \subseteq [initialDelay : Nat, maxDelay : Nat, factor : Nat \ {0}, jitter : Nat]

VARIABLE input

Event(d)      == [of |-> "event", data |-> d]
AMarket(d)    == [of |-> "market", data |-> d]
First(f, v)   == [of |-> "frame", frame |-> f, sdk |-> v]
Attempt(n, p) == [of |-> "attempt", number |-> n, policy |-> p]

InputsInit == input = None

InputsNext ==
  \/ /\ input = None
     /\ \/ \E d \in WireEvents : input' = Event(d)
        \/ \E d \in WireMarkets : input' = AMarket(d)
        \/ \E f \in Frames, v \in SdkVersions : input' = First(f, v)
        \/ \E n \in Attempts, p \in Policies : input' = Attempt(n, p)
  \/ input # None /\ input' = None

InputsSpec == InputsInit /\ [][InputsNext]_input
-----------------------------------------------------------------------------
Is(kind) == input # None /\ input.of = kind

(* test_contract_spec.py beyond its fixtures: a market of the contract, with
   selections of the kind the contract gives it, no result twice, and the fields
   of its class, is read in strict mode, into a class of its own that has a name for every
   selection it can hold. *)
ContractIsRead ==
  Is("market") =>
    LET d == input.data
        m == ReadMarket(d, TRUE)
    IN  /\ d.kind \in MarketKinds
        /\ d.selectionKind = ContractKind(d.kind)
        /\ SelectionsFit(d)
        /\ RequiredFields(MarketClass(d.kind)) \subseteq d.fields
        => m # Raised /\ SelectionResults(d.selectionKind) \subseteq NamedResults(m.class)

(* Strict reading refuses what lenient reading refuses and what it reads into
   an Unknown class, the event's or any of its markets', and nothing more: what
   both read they read alike. *)
StrictRefusesUnknown ==
  Is("event") =>
    LET lenient == ReadSportEvent(input.data, FALSE)
        strict  == ReadSportEvent(input.data, TRUE)
        unknown == \/ lenient.class = "UnknownSportEvent"
                   \/ \E m \in lenient.markets : m.class = "UnknownMarket"
    IN  strict = IF lenient = Raised \/ unknown THEN Raised ELSE lenient

(* The sport of an event and of its markets is one: event.sport answers for an
   event of a known class, market.sport answers the same for each of its
   markets but those with a malformed kind, and a market between two teams is
   only in an event between two teams. *)
SportsAgree ==
  Is("event") =>
    LET e == ReadSportEvent(input.data, FALSE)
    IN  e # Raised /\ e.class # "UnknownSportEvent" =>
          /\ EventName(e.kind) \in SportNames
          /\ \A m \in e.markets :
               /\ EventName(m.kind) \in {EventName(e.kind), "unknown"}
               /\ m.class # "UnknownMarket" =>
                    (Competitors \subseteq RequiredFields(m.class)
                       <=> e.class = "CompetitorPairSportEvent")

(* What an upgrade of the SDK does to a session's first frame. *)
UpgradesAreSafe ==
  Is("frame") => \A v \in SdkVersions : UpgradeIsSafe(input.frame, input.sdk, v)

(* Reconnects back off. *)
DelaysGrow == Is("attempt") => DelaysBack(input.number, input.policy)
=============================================================================
