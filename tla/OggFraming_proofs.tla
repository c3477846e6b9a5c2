-------------------------- MODULE OggFraming_proofs --------------------------
(* What the operators of OggFraming and GranulePos compute, for lacing       *)
(* values and positions of any size: facts for the modules that use them.    *)
(* Induction goes by the least counterexample.                               *)
EXTENDS OggFraming, GranulePos, WellFoundedInduction, TLAPS

-----------------------------------------------------------------------------
(* The bytes of segments.                                                  *)

LEMMA LeastNat ==
  ASSUME NEW T, T \subseteq Nat, T # {}
  PROVE  \E n \in T : \A m \in T : n <= m
<1>1. IsWellFoundedOn(OpToRel(<, Nat), Nat)
  BY NatLessThanWellFounded
<1>2. PICK n \in T : \A m \in T : ~(<<m, n>> \in OpToRel(<, Nat))
  BY <1>1, WFMin
<1>3. \A m \in T : ~(m < n)
  BY <1>2 DEF OpToRel
<1> QED
  BY <1>3

IsSum(g, lacing, n) ==
  g = [i \in 0..n |-> IF i = 0 THEN 0 ELSE g[i - 1] + lacing[i].val]

LEMMA SumExists ==
  ASSUME NEW lacing, NEW n \in Nat
  PROVE  \E g : IsSum(g, lacing, n)
<1> DEFINE T == {m \in Nat : ~ \E g : IsSum(g, lacing, m)}
<1> SUFFICES ASSUME T # {} PROVE FALSE
  OBVIOUS
<1>1. PICK m \in T : \A k \in T : m <= k
  BY LeastNat
<1>2. IsSum([i \in 0..0 |-> 0], lacing, 0)
  BY DEF IsSum
<1>3. m # 0
  BY <1>1, <1>2
<1>4. PICK g : IsSum(g, lacing, m - 1)
  BY <1>1, <1>3
<1> DEFINE h == [i \in 0..m |-> IF i < m THEN g[i] ELSE g[m - 1] + lacing[m].val]
<1>5. IsSum(h, lacing, m)
  BY <1>1, <1>3, <1>4 DEF IsSum
<1> QED
  BY <1>1, <1>5

LEMMA SumIsUnique ==
  ASSUME NEW lacing, NEW n \in Nat, NEW g, NEW h,
         IsSum(g, lacing, n), IsSum(h, lacing, n)
  PROVE  g = h
<1> DEFINE T == {m \in 0..n : g[m] # h[m]}
<1>1. g = [i \in 0..n |-> g[i]] /\ h = [i \in 0..n |-> h[i]]
  BY DEF IsSum
<1>2. SUFFICES ASSUME T # {} PROVE FALSE
  BY <1>1
<1>a. T \subseteq Nat
  OBVIOUS
<1>3. PICK m \in T : \A k \in T : m <= k
  <2> HIDE DEF T
  <2> QED
    BY <1>2, <1>a, LeastNat
<1>4. g[0] = 0 /\ h[0] = 0
  BY DEF IsSum
<1>5. m > 0 /\ m - 1 \in 0..n /\ g[m - 1] = h[m - 1]
  BY <1>3, <1>4
<1>6. g[m] = g[m - 1] + lacing[m].val /\ h[m] = h[m - 1] + lacing[m].val
  BY <1>3, <1>5 DEF IsSum
<1> QED
  BY <1>3, <1>5, <1>6

\* Bytes adds one segment at a time.
LEMMA BytesAdds ==
  ASSUME NEW lacing
  PROVE  /\ Bytes(lacing, 0) = 0
         /\ \A n \in Nat : Bytes(lacing, n + 1) = Bytes(lacing, n) + lacing[n + 1].val
<1> DEFINE S(n) == CHOOSE g : IsSum(g, lacing, n)
<1>1. \A n \in Nat : IsSum(S(n), lacing, n)
  BY SumExists
<1>2. \A n \in Nat : Bytes(lacing, n) = S(n)[n]
  BY DEF Bytes, IsSum
<1>3. Bytes(lacing, 0) = 0
  <2>1. IsSum(S(0), lacing, 0) /\ Bytes(lacing, 0) = S(0)[0]
    BY <1>1, <1>2
  <2> HIDE DEF S
  <2> QED
    BY <2>1 DEF IsSum
<1>4. ASSUME NEW n \in Nat
      PROVE  Bytes(lacing, n + 1) = Bytes(lacing, n) + lacing[n + 1].val
  <2> DEFINE g == [i \in 0..n |-> S(n + 1)[i]]
  <2>1. IsSum(S(n + 1), lacing, n + 1)
    BY <1>1
  <2> HIDE DEF S
  <2>2. IsSum(g, lacing, n)
    BY <2>1 DEF IsSum
  <2>3. g = S(n)
    BY <1>1, <2>2, SumIsUnique
  <2>4. S(n + 1)[n + 1] = S(n + 1)[n] + lacing[n + 1].val
    BY <2>1 DEF IsSum
  <2> QED
    BY <1>2, <2>3, <2>4
<1> QED
  BY <1>3, <1>4

-----------------------------------------------------------------------------
(* A packet and its segments.                                              *)

LEMMA Division ==
  ASSUME NEW n \in Nat, NEW d \in Nat \ {0}
  PROVE  /\ n \div d \in Nat
         /\ n % d \in 0..(d - 1)
         /\ n = d * (n \div d) + (n % d)
  OBVIOUS

LEMMA SegmentFields ==
  ASSUME NEW v, NEW f, NEW g
  PROVE  /\ Segment(v, f, g).val = v
         /\ Segment(v, f, g).granule = g
  BY Zenon DEF Segment

LEMMA LacedSegments ==
  ASSUME NEW n \in Nat, NEW g, NEW before
  PROVE  LET l == Laced(n, g, before)
             vals == n \div Full + 1
         IN  /\ vals \in Nat \ {0}
             /\ DOMAIN l = 1..vals /\ Len(l) = vals
             /\ \A i \in 1..(vals - 1) : l[i].val = Full
             /\ l[vals].val = n % Full /\ l[vals].val < Full
             /\ l[vals].granule = g
<1> DEFINE l == Laced(n, g, before)
           vals == n \div Full + 1
<1>0. Full \in Nat \ {0}
  BY FramingAssumption
<1>a. n \div Full \in Nat
  BY <1>0
<1>b. n % Full \in 0..(Full - 1)
  BY <1>0
<1>1. /\ Full \in Nat \ {0} /\ vals \in Nat \ {0}
      /\ n % Full \in 0..(Full - 1)
  BY <1>0, <1>a, <1>b
<1>2. l = [i \in 1..vals |-> IF i < vals THEN Segment(Full, i = 1, before)
                                        ELSE Segment(n % Full, i = 1, g)]
  BY DEF Laced
<1> HIDE DEF l, vals
<1>3. DOMAIN l = 1..vals /\ Len(l) = vals
  BY <1>1, <1>2
<1>4. \A i \in 1..(vals - 1) : l[i] = Segment(Full, i = 1, before)
  BY <1>1, <1>2
<1>5. l[vals] = Segment(n % Full, vals = 1, g)
  BY <1>1, <1>2
<1>7. /\ \A i \in 1..(vals - 1) : l[i].val = Full
      /\ l[vals].val = n % Full /\ l[vals].granule = g
  BY <1>4, <1>5, SegmentFields
<1>8. /\ vals \in Nat \ {0}
      /\ DOMAIN l = 1..vals /\ Len(l) = vals
      /\ \A i \in 1..(vals - 1) : l[i].val = Full
      /\ l[vals].val = n % Full /\ l[vals].val < Full
      /\ l[vals].granule = g
  BY <1>1, <1>3, <1>7
<1> QED
  BY <1>8 DEF l, vals

\* Before its last segment a packet has full ones only.
LEMMA LacedPrefix ==
  ASSUME NEW n \in Nat, NEW g, NEW before
  PROVE  \A m \in 0..(n \div Full) : Bytes(Laced(n, g, before), m) = m * Full
<1> DEFINE l == Laced(n, g, before)
           vals == n \div Full + 1
           T == {m \in 0..(vals - 1) : Bytes(l, m) # m * Full}
<1>1. /\ vals \in Nat \ {0}
      /\ \A i \in 1..(vals - 1) : l[i].val = Full
      /\ l[vals].val = n % Full
  BY LacedSegments, SMTT(30)
<1>2. /\ Bytes(l, 0) = 0
      /\ \A m \in Nat : Bytes(l, m + 1) = Bytes(l, m) + l[m + 1].val
  BY BytesAdds
<1>3. T = {}
  <2> HIDE DEF l, vals
  <2> SUFFICES ASSUME T # {} PROVE FALSE
    OBVIOUS
  <2>1. T \subseteq Nat
    BY <1>1
  <2>2. PICK m \in T : \A k \in T : m <= k
    <3> HIDE DEF T
    <3> QED
      BY <2>1, LeastNat
  <2>3. m \in 1..(vals - 1) /\ m - 1 \in 0..(vals - 1)
    BY <1>1, <1>2, <2>2, FramingAssumption
  <2>4. Bytes(l, m - 1) = (m - 1) * Full
    BY <2>2, <2>3
  <2>5. Bytes(l, (m - 1) + 1) = Bytes(l, m - 1) + l[(m - 1) + 1].val
    BY <1>1, <1>2, <2>3
  <2>6. Bytes(l, m) = (m - 1) * Full + Full
    BY <1>1, <2>3, <2>4, <2>5
  <2>7. (m - 1) * Full + Full = m * Full
    BY <1>1, <2>3, FramingAssumption
  <2> QED
    BY <2>2, <2>6, <2>7
<1>4. n \div Full \in Nat /\ vals - 1 = n \div Full
  <2>1. Full \in Nat \ {0}
    BY FramingAssumption
  <2>2. n \div Full \in Nat
    BY <2>1, Division
  <2> QED
    BY <2>2
<1> HIDE DEF l, vals
<1>5. ASSUME NEW m \in 0..(n \div Full) PROVE Bytes(l, m) = m * Full
  BY <1>3, <1>4
<1> QED
  BY <1>5 DEF l

LEMMA LacedBytes ==
  ASSUME NEW n \in Nat, NEW g, NEW before
  PROVE  Bytes(Laced(n, g, before), n \div Full + 1) = n
<1> DEFINE l == Laced(n, g, before)
           vals == n \div Full + 1
<1>1. /\ vals \in Nat \ {0}
      /\ \A i \in 1..(vals - 1) : l[i].val = Full
      /\ l[vals].val = n % Full
  BY LacedSegments, SMTT(30)
<1>2. /\ Bytes(l, 0) = 0
      /\ \A m \in Nat : Bytes(l, m + 1) = Bytes(l, m) + l[m + 1].val
  BY BytesAdds
<1>3. \A m \in 0..(n \div Full) : Bytes(l, m) = m * Full
  BY LacedPrefix
<1>4. vals - 1 \in 0..(vals - 1) /\ vals - 1 \in Nat
  BY <1>1
<1>5. Bytes(l, vals - 1) = (vals - 1) * Full
  <2>1. n \div Full \in Nat /\ vals - 1 = n \div Full
    BY FramingAssumption, Division
  <2> HIDE DEF l, vals
  <2> QED
    BY <1>3, <2>1
<1>6. Bytes(l, vals) = (vals - 1) * Full + (n % Full)
  <2> HIDE DEF l, vals
  <2>1. Bytes(l, (vals - 1) + 1) = Bytes(l, vals - 1) + l[(vals - 1) + 1].val
    BY <1>2, <1>4
  <2> QED
    BY <1>1, <1>5, <2>1
<1>7. (vals - 1) * Full + (n % Full) = n
  BY FramingAssumption, Division
<1> QED
  BY <1>6, <1>7

\* A stream that holds nothing between two calls.
Rested ==
  [body : {<<>>}, lacing : {<<>>}, packet : {0}, bos : BOOLEAN, eos : BOOLEAN,
   pageno : Nat, packetno : Nat, granulepos : Nat, serialno : Nat]

Page(D) ==
  [continued : BOOLEAN, bos : BOOLEAN, eos : BOOLEAN, granulepos : Int,
   serialno : Nat, pageno : Nat, segments : Seq(Nat), body : Seq(D)]

\* Of a packet that fits on a page, the next page takes all segments: the full
\* ones end no packet, so a page can end neither there nor by its fill.
LEMMA PageTakesAll ==
  ASSUME NEW n \in Nat, n \div Full < MaxVals, NEW g, NEW before,
         NEW p, p.lacing = Laced(n, g, before), NEW nfill
  PROVE  PageVals(p, nfill) = n \div Full + 1
<1> DEFINE l == Laced(n, g, before)
           vals == n \div Full + 1
<1>1. /\ vals \in Nat \ {0} /\ Len(l) = vals
      /\ \A i \in 1..(vals - 1) : l[i].val = Full
      /\ l[vals].val < Full
  BY LacedSegments, SMTT(30)
<1>2. vals <= MaxVals /\ MaxVals \in Nat /\ MinDone \in Nat \ {0} /\ Full \in Nat \ {0}
  BY <1>1, FramingAssumption
<1> HIDE DEF l, vals
<1>3. PacketEnd(l, 1, vals) = vals
  <2> DEFINE End(i) == /\ l[i].val < Full
                       /\ \A j \in 1..(i - 1) : l[j].val = Full
  <2>1. End(vals) /\ vals \in 1..vals
    BY <1>1
  <2>2. \A i \in 1..vals : End(i) => i = vals
    <3>1. ASSUME NEW i \in 1..vals, End(i), i # vals PROVE FALSE
      <4>1. l[i].val = Full
        BY <1>1, <3>1
      <4> QED
        BY <1>2, <3>1, <4>1
    <3> QED
      BY <3>1
  <2>3. (CHOOSE i \in 1..vals : End(i)) = vals
    BY <2>1, <2>2
  <2>4. \E i \in 1..vals : l[i].val < Full
    BY <1>1
  <2> QED
    BY <2>3, <2>4 DEF PacketEnd
<1>4. \A m \in NominalEnd(l, nfill) : ~(m < vals)
  <2>1. ASSUME NEW m \in NominalEnd(l, nfill), m < vals PROVE FALSE
    <3>1. m \in 0..(vals - 1) /\ JustDone(l, m) >= MinDone
      BY <1>1, <2>1 DEF NominalEnd
    <3>2. m = 0 \/ (m > 0 /\ l[m].val = Full)
      BY <1>1, <3>1
    <3>3. JustDone(l, m) = 0
      BY <3>2 DEF JustDone
    <3> QED
      BY <1>2, <3>1, <3>3
  <2> QED
    BY <2>1
<1> DEFINE maxvals == IF Len(p.lacing) > MaxVals THEN MaxVals ELSE Len(p.lacing)
           ends == {m \in NominalEnd(p.lacing, nfill) : m < maxvals}
<1>5. p.lacing = l
  BY DEF l
<1>6. maxvals = vals /\ ends = {}
  BY <1>1, <1>2, <1>4, <1>5
<1>7. PageVals(p, nfill) =
        IF ~p.bos THEN PacketEnd(p.lacing, 1, maxvals)
        ELSE IF ends = {} THEN maxvals
        ELSE CHOOSE m \in ends : \A k \in ends : m <= k
  BY DEF PageVals
<1> HIDE DEF maxvals, ends
<1>8. PageVals(p, nfill) = vals
  BY <1>3, <1>5, <1>6, <1>7
<1> QED
  BY <1>8 DEF vals

\* The page of a packet, and a stream that holds nothing again.
Delivers(D, s, data, eos, g, rest, page) ==
  /\ rest \in Rested
  /\ rest.bos = TRUE /\ rest.eos = (s.eos \/ eos)
  /\ rest.pageno = s.pageno + 1 /\ rest.serialno = s.serialno
  /\ page \in Page(D)
  /\ page.body = data
  /\ page.bos = ~s.bos /\ page.eos = (s.eos \/ eos)
  /\ page.pageno = s.pageno /\ page.serialno = s.serialno
  /\ page.granulepos = IF s.bos THEN g ELSE 0

\* ogg_stream_packetin and a flush: a packet that fits on a page, put into a
\* stream that holds nothing, comes out as one page with its bytes, flags,
\* numbers and position, and the stream holds nothing again.
THEOREM OnePacketOnePage ==
  ASSUME NEW s \in Rested, NEW D, NEW data \in Seq(D),
         Len(data) \div Full < MaxVals, NEW eos \in BOOLEAN, NEW g \in Nat,
         NEW nfill
  PROVE  Delivers(D, s, data, eos, g, AfterPage(PacketIn(s, data, eos, g), nfill),
                  PageOut(PacketIn(s, data, eos, g), nfill))
<1> DEFINE p == PacketIn(s, data, eos, g)
           l == Laced(Len(data), g, s.granulepos)
           vals == Len(data) \div Full + 1
<1>1. /\ Len(data) \in Nat /\ data = SubSeq(data, 1, Len(data))
      /\ <<>> \o data = data
  OBVIOUS
<1>2. /\ vals \in Nat \ {0} /\ DOMAIN l = 1..vals /\ Len(l) = vals
      /\ \A i \in 1..(vals - 1) : l[i].val = Full
      /\ l[vals].val < Full /\ l[vals].granule = g
  BY <1>1, LacedSegments
<1>3. Bytes(l, vals) = Len(data)
  BY <1>1, LacedBytes
<1>14. l[vals].val \in Nat
  <2>1. l[vals].val = Len(data) % Full
    BY <1>1, LacedSegments
  <2>2. Full \in Nat \ {0}
    BY FramingAssumption
  <2>3. Len(data) % Full \in Nat
    BY <1>1, <2>2
  <2> QED
    BY <2>1, <2>3
<1>4. <<>> \o l = l
  BY DEF Laced
<1>5. /\ p.body = data /\ p.lacing = l /\ p.packet = 0 /\ p.bos = s.bos
      /\ p.eos = (s.eos \/ eos) /\ p.pageno = s.pageno
      /\ p.packetno = s.packetno + 1 /\ p.granulepos = g /\ p.serialno = s.serialno
      /\ p = [s EXCEPT !.body = data, !.lacing = l, !.granulepos = g,
                       !.packetno = s.packetno + 1, !.eos = s.eos \/ eos]
  BY <1>1, <1>4 DEF PacketIn, Rested
<1> HIDE DEF p
<1>6. PageVals(p, nfill) = vals
  <2>1. p.lacing = Laced(Len(data), g, s.granulepos)
    BY <1>5
  <2> QED
    BY <1>1, <2>1, PageTakesAll
<1> HIDE DEF l, vals
<1>7. PageGranule(p, vals) = IF s.bos THEN g ELSE 0
  <2> DEFINE Ends == {i \in 1..vals : l[i].val < Full}
  <2>1. vals \in Ends
    BY <1>2
  <2>2. (CHOOSE i \in Ends : \A j \in Ends : j <= i) = vals
    BY <1>2, <2>1
  <2> QED
    BY <1>2, <1>5, <2>1, <2>2 DEF PageGranule
<1>8. SubSeq(l, vals + 1, Len(l)) = <<>>
  BY <1>2
<1>9. SubSeq(data, Len(data) + 1, Len(data)) = <<>>
  BY <1>1
<1>10. AfterPage(p, nfill) =
         [s EXCEPT !.bos = TRUE, !.eos = s.eos \/ eos,
                   !.pageno = s.pageno + 1, !.packetno = s.packetno + 1,
                   !.granulepos = g]
  <2>1. AfterPage(p, nfill) =
          [p EXCEPT !.bos = TRUE, !.pageno = (IF p.pageno = -1 THEN 0 ELSE p.pageno) + 1,
                    !.lacing = SubSeq(p.lacing, vals + 1, Len(p.lacing)),
                    !.body = SubSeq(p.body, Bytes(p.lacing, vals) + 1, Len(p.body))]
    BY <1>6 DEF AfterPage
  <2>2. s.pageno \in Nat
    BY DEF Rested
  <2>3. AfterPage(p, nfill) =
          [p EXCEPT !.bos = TRUE, !.pageno = s.pageno + 1, !.lacing = <<>>, !.body = <<>>]
    <3>1. (IF p.pageno = -1 THEN 0 ELSE p.pageno) = s.pageno
      BY <1>5, <2>2
    <3>2. SubSeq(p.lacing, vals + 1, Len(p.lacing)) = <<>>
      BY <1>5, <1>8
    <3>3. SubSeq(p.body, Bytes(p.lacing, vals) + 1, Len(p.body)) = <<>>
      BY <1>3, <1>5, <1>9
    <3> QED
      BY <2>1, <3>1, <3>2, <3>3
  <2>4. p = [s EXCEPT !.body = data, !.lacing = l, !.granulepos = g,
                      !.packetno = s.packetno + 1, !.eos = s.eos \/ eos]
    BY <1>5
  <2>5. s.lacing = <<>> /\ s.body = <<>>
    BY DEF Rested
  <2> QED
    BY <2>3, <2>4, <2>5 DEF Rested
<1>11. PageOut(p, nfill) = PageOf(p, vals)
  BY <1>6 DEF PageOut
<1>12. /\ PageOf(p, vals).body = data
       /\ PageOf(p, vals).bos = ~s.bos
       /\ PageOf(p, vals).eos = (s.eos \/ eos)
       /\ PageOf(p, vals).pageno = s.pageno
       /\ PageOf(p, vals).serialno = s.serialno
       /\ PageOf(p, vals).granulepos = IF s.bos THEN g ELSE 0
  BY <1>1, <1>2, <1>3, <1>5, <1>7 DEF PageOf, Rested
<1>13. [i \in 1..vals |-> p.lacing[i].val] \in Seq(Nat)
  <2>1. \A i \in 1..vals : l[i].val \in Nat
    <3> SUFFICES ASSUME NEW i \in 1..vals PROVE l[i].val \in Nat
      OBVIOUS
    <3>1. CASE i = vals
      BY <1>14, <3>1
    <3>2. CASE i # vals
      BY <1>2, <3>2, FramingAssumption
    <3> QED
      BY <3>1, <3>2
  <2>2. \A i \in 1..vals : p.lacing[i].val \in Nat
    BY <1>5, <2>1
  <2> QED
    BY <1>2, <2>2
<1>15. PageOf(p, vals) \in Page(D)
  <2>1. PageOf(p, vals).segments \in Seq(Nat)
    BY <1>13 DEF PageOf
  <2>2. PageOf(p, vals).continued \in BOOLEAN
    BY DEF PageOf
  <2>3. PageOf(p, vals) =
          [continued |-> PageOf(p, vals).continued, bos |-> PageOf(p, vals).bos,
           eos |-> PageOf(p, vals).eos, granulepos |-> PageOf(p, vals).granulepos,
           serialno |-> PageOf(p, vals).serialno, pageno |-> PageOf(p, vals).pageno,
           segments |-> PageOf(p, vals).segments, body |-> PageOf(p, vals).body]
    BY DEF PageOf
  <2>4. /\ s.eos \in BOOLEAN /\ s.pageno \in Nat /\ s.serialno \in Nat
        /\ s.bos \in BOOLEAN
    BY DEF Rested
  <2>5. /\ PageOf(p, vals).bos \in BOOLEAN /\ PageOf(p, vals).eos \in BOOLEAN
        /\ PageOf(p, vals).granulepos \in Int /\ PageOf(p, vals).serialno \in Nat
        /\ PageOf(p, vals).pageno \in Nat /\ PageOf(p, vals).body \in Seq(D)
    BY <1>12, <2>4
  <2> QED
    BY <2>1, <2>2, <2>3, <2>5 DEF Page
<1>16. /\ AfterPage(p, nfill) \in Rested
       /\ AfterPage(p, nfill).bos = TRUE /\ AfterPage(p, nfill).eos = (s.eos \/ eos)
       /\ AfterPage(p, nfill).pageno = s.pageno + 1
       /\ AfterPage(p, nfill).serialno = s.serialno
  <2>1. /\ s.pageno + 1 \in Nat /\ s.packetno + 1 \in Nat
        /\ s.eos \in BOOLEAN
    BY DEF Rested
  <2>2. (s.eos \/ eos) \in BOOLEAN
    BY <2>1
  <2> QED
    BY <1>10, <2>1, <2>2 DEF Rested
<1>17. Delivers(D, s, data, eos, g, AfterPage(p, nfill), PageOut(p, nfill))
  BY <1>11, <1>12, <1>15, <1>16 DEF Delivers
<1> QED
  BY <1>17 DEF p

-----------------------------------------------------------------------------
(* The bytes of lacings put together and taken apart.                      *)

\* Bytes reads no more than the values of the segments it adds.
LEMMA BytesAgree ==
  ASSUME NEW l, NEW m, NEW n \in Nat, \A i \in 1..n : l[i].val = m[i].val
  PROVE  Bytes(l, n) = Bytes(m, n)
<1> DEFINE T == {k \in 0..n : Bytes(l, k) # Bytes(m, k)}
<1>1. /\ Bytes(l, 0) = 0 /\ Bytes(m, 0) = 0
      /\ \A k \in Nat : Bytes(l, k + 1) = Bytes(l, k) + l[k + 1].val
      /\ \A k \in Nat : Bytes(m, k + 1) = Bytes(m, k) + m[k + 1].val
  BY BytesAdds
<1>2. SUFFICES ASSUME T # {} PROVE FALSE
  OBVIOUS
<1>3. T \subseteq Nat
  OBVIOUS
<1>4. PICK k \in T : \A j \in T : k <= j
  <2> HIDE DEF T
  <2> QED
    BY <1>2, <1>3, LeastNat
<1>5. k > 0 /\ k - 1 \in 0..n /\ Bytes(l, k - 1) = Bytes(m, k - 1)
  BY <1>1, <1>4
<1>6. /\ Bytes(l, (k - 1) + 1) = Bytes(l, k - 1) + l[(k - 1) + 1].val
      /\ Bytes(m, (k - 1) + 1) = Bytes(m, k - 1) + m[(k - 1) + 1].val
  BY <1>1, <1>4, <1>5
<1> QED
  BY <1>4, <1>5, <1>6

\* One segment more, without the sum in the index.
LEMMA BytesStep ==
  ASSUME NEW l, NEW n \in Nat, n > 0
  PROVE  Bytes(l, n) = Bytes(l, n - 1) + l[n].val
<1>1. Bytes(l, (n - 1) + 1) = Bytes(l, n - 1) + l[(n - 1) + 1].val
  BY BytesAdds
<1> QED
  BY <1>1

\* Bytes is a number, and grows with the segments.
LEMMA BytesGrow ==
  ASSUME NEW l, NEW n \in Nat, \A i \in 1..n : l[i].val \in Nat
  PROVE  \A k \in 0..n : /\ Bytes(l, k) \in Nat
                         /\ \A j \in 0..k : Bytes(l, j) <= Bytes(l, k)
<1> DEFINE Good(k) == /\ Bytes(l, k) \in Nat
                      /\ \A j \in 0..k : Bytes(l, j) <= Bytes(l, k)
           T == {k \in 0..n : ~Good(k)}
<1>1. /\ Bytes(l, 0) = 0
      /\ \A k \in Nat : Bytes(l, k + 1) = Bytes(l, k) + l[k + 1].val
  BY BytesAdds
<1>2. SUFFICES ASSUME T # {} PROVE FALSE
  BY <1>2
<1>3. T \subseteq Nat
  OBVIOUS
<1>4. PICK k \in T : \A j \in T : k <= j
  <2> HIDE DEF T
  <2> QED
    BY <1>2, <1>3, LeastNat
<1>5. k > 0 /\ k - 1 \in 0..n /\ Good(k - 1)
  BY <1>1, <1>4
<1>6. Bytes(l, (k - 1) + 1) = Bytes(l, k - 1) + l[(k - 1) + 1].val
  BY <1>1, <1>4, <1>5
<1>7. Bytes(l, k) = Bytes(l, k - 1) + l[k].val /\ l[k].val \in Nat
  BY <1>4, <1>5, <1>6
<1> QED
  BY <1>4, <1>5, <1>7

\* Segments of two sequences one after the other.
LEMMA BytesOfFirst ==
  ASSUME NEW A, NEW B, NEW l \in Seq(A), NEW m \in Seq(B), NEW k \in 0..Len(l)
  PROVE  Bytes(l \o m, k) = Bytes(l, k)
<1>1. \A i \in 1..k : (l \o m)[i].val = l[i].val
  OBVIOUS
<1>2. k \in Nat
  OBVIOUS
<1> QED
  BY <1>1, <1>2, BytesAgree

\* The c segments of m have the values of those of l after its first n.
Shifted(l, m, n, c) ==
  /\ n \in Nat /\ c \in Nat
  /\ \A i \in 1..(n + c) : l[i].val \in Nat
  /\ \A i \in 1..c : m[i].val = l[n + i].val

LEMMA BytesShift ==
  ASSUME NEW l, NEW m, NEW n, NEW c, Shifted(l, m, n, c)
  PROVE  \A k \in 0..c : Bytes(l, n + k) = Bytes(l, n) + Bytes(m, k)
<1>0. /\ n \in Nat /\ c \in Nat
      /\ \A i \in 1..(n + c) : l[i].val \in Nat
      /\ \A i \in 1..c : m[i].val = l[n + i].val
  BY DEF Shifted
<1> DEFINE T == {k \in 0..c : Bytes(l, n + k) # Bytes(l, n) + Bytes(m, k)}
<1>1. SUFFICES ASSUME T # {} PROVE FALSE
  BY <1>1
<1>2. T \subseteq Nat
  BY <1>0
<1>3. PICK k \in T : \A j \in T : k <= j
  <2> HIDE DEF T
  <2> QED
    BY <1>1, <1>2, LeastNat
<1>4. k \in 0..c /\ k \in Nat
  BY <1>0
<1>5. \A j \in 0..(n + c) : Bytes(l, j) \in Nat
  <2>1. n + c \in Nat
    BY <1>0
  <2> QED
    BY <1>0, <2>1, BytesGrow
<1>6. \A i \in 1..c : m[i].val \in Nat
  BY <1>0
<1>7. \A j \in 0..c : Bytes(m, j) \in Nat
  BY <1>0, <1>6, BytesGrow
<1>8. Bytes(m, 0) = 0
  BY BytesAdds
<1>9. k > 0 /\ k - 1 \in 0..c /\ k - 1 \notin T
  <2>1. k # 0
    <3>1. Bytes(l, n) \in Nat /\ n + 0 = n
      BY <1>0, <1>5
    <3> QED
      BY <1>0, <1>3, <1>8, <3>1
  <2> QED
    BY <1>0, <1>3, <1>4, <2>1
<1>10. Bytes(l, n + (k - 1)) = Bytes(l, n) + Bytes(m, k - 1)
  BY <1>9
<1>11. n + k \in Nat /\ n + k > 0 /\ (n + k) - 1 = n + (k - 1)
  BY <1>0, <1>4, <1>9
<1>12. Bytes(l, n + k) = Bytes(l, n + (k - 1)) + l[n + k].val
  BY <1>11, BytesStep
<1>13. Bytes(m, k) = Bytes(m, k - 1) + m[k].val
  BY <1>4, <1>9, BytesStep
<1>14. m[k].val = l[n + k].val /\ m[k].val \in Nat
  BY <1>0, <1>4, <1>6, <1>9
<1>15. Bytes(l, n) \in Nat /\ Bytes(m, k - 1) \in Nat
  BY <1>0, <1>5, <1>7, <1>9
<1>16. Bytes(l, n + k) # Bytes(l, n) + Bytes(m, k)
  BY <1>3
<1> HIDE DEF T
<1> QED
  BY <1>10, <1>12, <1>13, <1>14, <1>15, <1>16

-----------------------------------------------------------------------------
(* Positions: their arithmetic is that of the numbers they stand for, at     *)
(* every width of the word.                                                *)

\* op_granpos_add gives the position of the sum exactly when the sum is a
\* position (neither below 0 nor the invalid one or beyond), and fails in
\* every other case; it never returns the invalid position as a result.
THEOREM AddIsExact ==
  ASSUME NEW gp \in Gp, NEW delta \in -MaxGp .. MaxGp
  PROVE  /\ Value(gp) + delta \in 0 .. Top =>
              /\ GranAdd(gp, delta) \in Gp
              /\ Value(GranAdd(gp, delta)) = Value(gp) + delta
         /\ Value(gp) + delta \notin 0 .. Top => GranAdd(gp, delta) = NoGp
<1>1. MaxGp \in Int /\ MaxGp > 0
  BY MaxGpAssumption
<1>2. CASE delta > 0
  BY <1>1, <1>2 DEF Gp, Value, Top, GranAdd, MinGp, NoGp
<1>3. CASE delta < 0
  BY <1>1, <1>3 DEF Gp, Value, Top, GranAdd, MinGp, NoGp
<1>4. CASE delta = 0
  BY <1>1, <1>4 DEF Gp, Value, Top, GranAdd, MinGp, NoGp
<1>5. QED
  BY <1>1, <1>2, <1>3, <1>4

\* op_granpos_diff succeeds exactly when the difference fits the signed word,
\* and then is the difference.
THEOREM DiffIsExact ==
  ASSUME NEW a \in Gp, NEW b \in Gp
  PROVE  /\ HasDiff(a, b) <=> Value(a) - Value(b) \in MinGp .. MaxGp
         /\ GranDiff(a, b) = Value(a) - Value(b)
<1>1. MaxGp \in Int /\ MaxGp > 0
  BY MaxGpAssumption
<1>2. QED
  BY <1>1 DEF Gp, Value, HasDiff, GranDiff, MinGp, NoGp

\* op_granpos_cmp orders positions as the numbers they stand for.
THEOREM BeforeIsLess ==
  ASSUME NEW a \in Gp, NEW b \in Gp
  PROVE  GranBefore(a, b) <=> Value(a) < Value(b)
<1>1. MaxGp \in Int /\ MaxGp > 0
  BY MaxGpAssumption
<1>2. QED
  BY <1>1 DEF Gp, Value, GranBefore, MinGp, NoGp

\* What opusfile relies on when it stamps the packets of a page forwards and
\* backwards: a duration added is the difference found, and taking it away
\* again leads back.
THEOREM AddThenDiff ==
  ASSUME NEW gp \in Gp, NEW delta \in -MaxGp .. MaxGp,
         GranAdd(gp, delta) # NoGp
  PROVE  /\ GranAdd(gp, delta) \in Gp
         /\ HasDiff(GranAdd(gp, delta), gp)
         /\ GranDiff(GranAdd(gp, delta), gp) = delta
         /\ GranAdd(GranAdd(gp, delta), -delta) = gp
<1>1. MaxGp \in Int /\ MaxGp > 0
  BY MaxGpAssumption
<1> DEFINE sum == GranAdd(gp, delta)
<1>2. sum \in Gp /\ Value(sum) = Value(gp) + delta
  BY AddIsExact
<1>3. delta \in MinGp .. MaxGp
  BY <1>1 DEF MinGp
<1>4. Value(gp) \in 0 .. Top /\ Value(sum) \in 0 .. Top
  BY <1>1, <1>2 DEF Gp, Value, Top, MinGp, NoGp
<1>5. Value(sum) - Value(gp) = delta
  BY <1>2, <1>4
<1>6. HasDiff(sum, gp) /\ GranDiff(sum, gp) = delta
  BY <1>2, <1>3, <1>5, DiffIsExact
<1>7. /\ -delta \in -MaxGp .. MaxGp
      /\ Value(sum) + (-delta) = Value(gp)
  BY <1>1, <1>2, <1>4
<1>8. /\ GranAdd(sum, -delta) \in Gp
      /\ Value(GranAdd(sum, -delta)) = Value(gp)
  BY <1>2, <1>4, <1>7, AddIsExact
<1>9. GranAdd(sum, -delta) = gp
  BY <1>1, <1>8 DEF Gp, Value, MinGp, NoGp
<1>10. QED
  BY <1>2, <1>6, <1>9
=============================================================================
