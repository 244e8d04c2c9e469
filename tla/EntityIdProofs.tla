--------------------------- MODULE EntityIdProofs ----------------------------
(***************************************************************************)
(* What the id grammar guarantees for all segments: ids made by id_helper  *)
(* parse back, and ids under different parents differ.  The second is the  *)
(* assumption IdGrammar of OddsBook.  A market's external id may have      *)
(* colons in it, that of an event or of a selection may not.               *)
(***************************************************************************)
EXTENDS EntityIds, SequenceTheorems, TLAPS

(* A segment more at the end, and stripped again. *)
LEMMA AppendedThenStripped ==
  ASSUME NEW Segments, NEW id \in Seq(Segments), NEW r \in Segments
  PROVE  /\ MakeSelectionId(id, <<r>>) \in Seq(Segments)
         /\ Len(MakeSelectionId(id, <<r>>)) = Len(id) + 1
         /\ Stripped(MakeSelectionId(id, <<r>>)) = id
<1> DEFINE x == MakeSelectionId(id, <<r>>)
<1>1. x \in Seq(Segments) /\ Len(x) = Len(id) + 1
  BY DEF MakeSelectionId
<1>2. \A i \in 1 .. Len(id) : x[i] = id[i]
  BY DEF MakeSelectionId
<1>3. Stripped(x) \in Seq(Segments) /\ Len(Stripped(x)) = Len(id)
  BY <1>1 DEF Stripped
<1>4. \A i \in 1 .. Len(id) : Stripped(x)[i] = id[i]
  BY <1>1, <1>2 DEF Stripped
<1> QED BY <1>1, <1>3, <1>4

(* An id with three segments stays the prefix of whatever is made from it. *)
LEMMA PrefixKept ==
  ASSUME NEW Segments, NEW s \in Seq(Segments), Len(s) = 3, NEW a \in Seq(Segments)
  PROVE  /\ s \o a \in Seq(Segments)
         /\ Len(s \o a) = 3 + Len(a)
         /\ GetSportEventId(s \o a) = s
         /\ (s \o a)[1] = s[1] /\ (s \o a)[2] = s[2]
<1>1. s \o a \in Seq(Segments) /\ Len(s \o a) = 3 + Len(a)
  <2>1. s \o a \in Seq(Segments) /\ Len(s \o a) = Len(s) + Len(a)
    BY ConcatProperties, Zenon
  <2> QED BY <2>1
<1>2. \A i \in 1 .. 3 : (s \o a)[i] = s[i]
  <2> SUFFICES ASSUME NEW i \in 1 .. 3 PROVE (s \o a)[i] = s[i]
    OBVIOUS
  <2>1. i \in 1 .. Len(s) + Len(a) /\ i <= Len(s)
    OBVIOUS
  <2> QED BY <2>1, ConcatProperties
<1>3. SubSeq(s \o a, 1, 3) = s
  <2>1. SubSeq(s \o a, 1, 3) \in Seq(Segments) /\ Len(SubSeq(s \o a, 1, 3)) = 3
    BY <1>1
  <2>2. \A i \in 1 .. 3 : SubSeq(s \o a, 1, 3)[i] = s[i]
    BY <1>1, <1>2
  <2> QED BY <2>1, <2>2, SeqEqual
<1> QED BY <1>1, <1>2, <1>3 DEF GetSportEventId

(* From the id of a selection, IdHelper finds the bookmaker, the event and the
   market it was made of, also when the market's external id has colons. *)
THEOREM IdsParseBack ==
  ASSUME NEW Segments, "vmid" \in Segments,
         NEW k \in Segments, NEW e \in Segments, NEW r \in Segments,
         NEW a \in Seq(Segments), a # << >>
  PROVE  LET s == MakeSportEventId(k, <<e>>)
             m == MakeMarketId(s, a)
             x == MakeSelectionId(m, <<r>>)
         IN  /\ GetBookmaker(x) = k
             /\ GetSportEventId(x) = s
             /\ GetSportEventId(m) = s
             /\ GetMarketId(x) = m
<1> DEFINE s == MakeSportEventId(k, <<e>>)
           m == MakeMarketId(s, a)
           x == MakeSelectionId(m, <<r>>)
<1>1. s \in Seq(Segments) /\ Len(s) = 3 /\ s[1] = "vmid" /\ s[2] = k
  BY DEF MakeSportEventId
<1> HIDE DEF s
<1>2. m \in Seq(Segments) /\ Len(m) = 3 + Len(a) /\ GetSportEventId(m) = s
  BY <1>1, PrefixKept DEF MakeMarketId
<1>3. Len(a) >= 1
  OBVIOUS
<1>4. x = s \o (a \o <<r>>)
  BY <1>1, ConcatAssociative DEF MakeMarketId, MakeSelectionId
<1>5. a \o <<r>> \in Seq(Segments)
  OBVIOUS
<1> HIDE DEF x
<1>6. GetSportEventId(x) = s /\ x[1] = "vmid" /\ x[2] = k
  BY <1>1, <1>4, <1>5, PrefixKept
<1> HIDE DEF m
<1>7. Len(x) = Len(m) + 1 /\ Stripped(x) = m
  BY <1>2, AppendedThenStripped DEF x
<1>8. GetMarketId(x) = m /\ GetBookmaker(x) = k
  BY <1>2, <1>3, <1>6, <1>7 DEF GetMarketId, GetBookmaker
<1> QED BY <1>2, <1>6, <1>8 DEF m, s, x

(* Different events have no market in common, and different markets no
   selection: what the indexes of the book rest on. *)
THEOREM GrammarSeparates ==
  ASSUME NEW Segments
  PROVE  /\ \A s, t \in Seq(Segments), a, b \in Seq(Segments) :
              Len(s) = 3 /\ Len(t) = 3 /\ s # t => MakeMarketId(s, a) # MakeMarketId(t, b)
         /\ \A m, n \in Seq(Segments), p, q \in Segments :
              m # n => MakeSelectionId(m, <<p>>) # MakeSelectionId(n, <<q>>)
<1>1. ASSUME NEW s \in Seq(Segments), NEW t \in Seq(Segments),
             NEW a \in Seq(Segments), NEW b \in Seq(Segments),
             Len(s) = 3, Len(t) = 3, MakeMarketId(s, a) = MakeMarketId(t, b)
      PROVE  s = t
  BY <1>1, PrefixKept DEF MakeMarketId
<1>2. ASSUME NEW m \in Seq(Segments), NEW n \in Seq(Segments),
             NEW p \in Segments, NEW q \in Segments,
             MakeSelectionId(m, <<p>>) = MakeSelectionId(n, <<q>>)
      PROVE  m = n
  BY <1>2, AppendedThenStripped
<1> QED BY <1>1, <1>2
=============================================================================
