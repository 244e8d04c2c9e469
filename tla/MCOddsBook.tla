----------------------------- MODULE MCOddsBook -----------------------------
(***************************************************************************)
(* A book fed by two bookmakers: two events of the first, one of the       *)
(* second under the same external number, and one event whose id lacks the *)
(* vmid: prefix.  The versions of an event gain, lose and share markets    *)
(* and selections.  The ids are made by the grammar; one market has a      *)
(* legacy external id with a colon in it.                                  *)
(***************************************************************************)
EXTENDS BookNavigation, TLC

CONSTANTS bkA, bkB

a1  == Ids!MakeSportEventId(bkA, <<"1">>)
a2  == Ids!MakeSportEventId(bkA, <<"2">>)
b1  == Ids!MakeSportEventId(bkB, <<"1">>)
bad == <<"id", bkA, "3">>

m1 == Ids!MakeMarketId(a1, <<"ml">>)
m2 == Ids!MakeMarketId(a1, <<"total", "221">>)
m3 == Ids!MakeMarketId(a2, <<"ml">>)
m4 == Ids!MakeMarketId(b1, <<"ml">>)
m5 == Ids!MakeMarketId(bad, <<"ml">>)

MCSegments == {"vmid", "id", bkA, bkB, "1", "2", "3", "ml", "total", "221", "home", "away", "over"}

Result(m, r) == Ids!MakeSelectionId(m, <<r>>)

MCSportEventIds == {a1, a2, b1, bad}
MCMarketIds     == {m1, m2, m3, m4, m5}
MCSelectionIds  == {Result(m1, "home"), Result(m1, "away"), Result(m2, "over"),
                    Result(m3, "home"), Result(m4, "home"), Result(m5, "home")}
MCBookmakers    == {bkA, bkB}
MCBookmakerOf   == [s \in MCSportEventIds |-> Ids!GetBookmaker(s)]

MCSportEvents ==
  LET Version(s, ms) == [id |-> s, markets |-> ms]
  IN  {Version(a1, m1 :> {Result(m1, "home"), Result(m1, "away")}),
       Version(a1, m1 :> {Result(m1, "away")} @@ m2 :> {Result(m2, "over")}),
       Version(a1, m2 :> {Result(m2, "over")}),
       Version(a2, m3 :> {Result(m3, "home")}),
       Version(a2, m3 :> {}),
       Version(b1, m4 :> {Result(m4, "home")}),
       Version(b1, << >>),
       Version(bad, m5 :> {Result(m5, "home")}),
       Version(bad, m5 :> {})}
=============================================================================
