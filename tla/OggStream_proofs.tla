-------------------------- MODULE OggStream_proofs --------------------------
(* Theorems about OggStream, for packets of any number and size, lacings of  *)
(* any width, pages of any fill, and files damaged, cut and read anywhere:   *)
(* what comes out of a reader is what went into the writer.                  *)
EXTENDS OggStream, OggFraming_proofs

-----------------------------------------------------------------------------
(* Segments and where they come from.  w is the sequence of packets put in, *)
(* pp the pages that came out; a mark names a segment by its packet and its *)
(* place there, and a script lists the marks of all segments put in.        *)

Segs(w, k) == Len(w[k].data) \div Full + 1
Mark(k, s) == [p |-> k, s |-> s]
SegVal(w, x) == IF x.s < Segs(w, x.p) THEN Full ELSE Len(w[x.p].data) % Full
Ends(w, x) == x.s = Segs(w, x.p)
NextMark(w, x) == IF Ends(w, x) THEN Mark(x.p + 1, 1) ELSE Mark(x.p, x.s + 1)

IsScript(w, sc) ==
  /\ sc \in Seq([p : Nat, s : Nat])
  /\ \A r \in 1..Len(sc) : sc[r].p \in 1..Len(w) /\ sc[r].s \in 1..Segs(w, sc[r].p)
  /\ sc # <<>> => sc[1] = Mark(1, 1)
  /\ \A r \in 1..(Len(sc) - 1) : sc[r + 1] = NextMark(w, sc[r])
  /\ IF w = <<>> THEN sc = <<>>
     ELSE Len(sc) > 0 /\ sc[Len(sc)] = Mark(Len(w), Segs(w, Len(w)))

\* The bytes of segment i of a body laid out by lacing values, and the bytes
\* of the packet that a mark stands for.
Piece(l, b, i) == [t \in 1..l[i].val |-> b[Bytes(l, i - 1) + t]]
Chunk(w, x) == [t \in 1..SegVal(w, x) |-> w[x.p].data[(x.s - 1) * Full + t]]

\* Segment i is the one of the mark, value and bytes.
Carries(w, l, b, i, x) == l[i].val = SegVal(w, x) /\ Piece(l, b, i) = Chunk(w, x)

LacingOf(page) == [i \in 1..Len(page.segments) |-> [val |-> page.segments[i]]]
Widths(pp) == [k \in 1..Len(pp) |-> [val |-> Len(pp[k].segments)]]
\* The segments on the first j pages.
Cut(pp, j) == Bytes(Widths(pp), j)

Byte == [p : Nat, i : Nat]
PacketOK(w, k) ==
  /\ w[k].data = [i \in 1..Len(w[k].data) |-> [p |-> k, i |-> i]]
  /\ w[k].data \in Seq(Byte)
  /\ w[k].granulepos = k - 1
  /\ w[k].eos \in BOOLEAN
  /\ w[k].data = <<>> \/ w[k].eos => k = MaxPackets

PacketsOK(w) ==
  /\ w \in Seq([data : Seq(Byte), granulepos : Int, eos : BOOLEAN])
  /\ Len(w) <= MaxPackets
  /\ \A k \in 1..Len(w) : PacketOK(w, k)

\* The stream is complete, and ends as it was told.
AtEnd(w) == Len(w) = MaxPackets /\ MaxPackets > 0 /\ w[MaxPackets].eos = TRUE

SegType == [val : 0..Full, first : BOOLEAN, eos : BOOLEAN, hole : BOOLEAN, granule : Int]
Stream == [body : Seq(Byte), lacing : Seq(SegType), packet : Nat, bos : BOOLEAN,
           eos : BOOLEAN, pageno : Int, packetno : Nat, granulepos : Int,
           serialno : Nat]
StreamOK(os) ==
  /\ os \in Stream
  /\ os.packet \in 0..Len(os.lacing)
  /\ Bytes(os.lacing, Len(os.lacing)) = Len(os.body)

\* Segment i of a writer is the one of the mark.
WrittenOK(w, os, i, x) ==
  /\ Carries(w, os.lacing, os.body, i, x)
  /\ os.lacing[i].first = (x.s = 1)
  /\ Ends(w, x) => os.lacing[i].granule = x.p - 1

WriterOK(w, pp, os, sc) ==
  /\ StreamOK(os)
  /\ os.packet = 0
  /\ os.pageno = Len(pp)
  /\ os.bos = (pp # <<>>)
  /\ os.eos = TRUE => AtEnd(w)
  /\ Len(sc) = Cut(pp, Len(pp)) + Len(os.lacing)
  /\ \A i \in 1..Len(os.lacing) : WrittenOK(w, os, i, sc[Cut(pp, Len(pp)) + i])

PageType == [continued : BOOLEAN, bos : BOOLEAN, eos : BOOLEAN, granulepos : Int,
             serialno : Nat, pageno : Nat, segments : Seq(0..Full), body : Seq(Byte)]

\* Page j carries the segments after those of the pages before it.
PageOK(w, pp, sc, j) ==
  LET page == pp[j]
      at(i) == sc[Cut(pp, j - 1) + i]
  IN  /\ page \in PageType
      /\ page.pageno = j - 1
      /\ Len(page.segments) > 0
      /\ Cut(pp, j) <= Len(sc)
      /\ Bytes(LacingOf(page), Len(page.segments)) = Len(page.body)
      /\ \A i \in 1..Len(page.segments) : Carries(w, LacingOf(page), page.body, i, at(i))
      /\ page.continued = (at(1).s # 1)
      /\ page.bos = (j = 1)
      /\ page.eos = TRUE => j = Len(pp) /\ Cut(pp, j) = Len(sc) /\ AtEnd(w)
      /\ \A i \in 1..Len(page.segments) :
           /\ Ends(w, at(i))
           /\ \A k \in (i + 1)..Len(page.segments) : ~Ends(w, at(k))
           => page.granulepos = at(i).p - 1

PagesOK(w, pp, sc) ==
  /\ pp \in Seq(PageType)
  /\ \A j \in 1..Len(pp) : PageOK(w, pp, sc, j)

\* Packet k ends on page j.
EndsOn(w, pp, sc, k, j) ==
  \E r \in (Cut(pp, j - 1) + 1)..Cut(pp, j) : sc[r] = Mark(k, Segs(w, k))

EndTogether(w, pp, sc, k) ==
  \E j \in 1..Len(pp) : EndsOn(w, pp, sc, k, j) /\ EndsOn(w, pp, sc, k + 1, j)

\* What the reader holds: every segment that is not a hole is one of the
\* script, at a place the function pos gives.
HeldOK(w, pp, sc, os, pos, i) ==
  LET seg == os.lacing[i]
      x   == sc[pos[i]]
  IN  IF seg.hole THEN seg.val = 0 /\ seg.first = FALSE
                       /\ (seg = Hole \/ os.pageno = Len(pp))
      ELSE /\ pos[i] \in 1..Len(sc)
           /\ pos[i] <= Cut(pp, os.pageno)
           /\ Carries(w, os.lacing, os.body, i, x)
           /\ Ends(w, x) => \/ seg.granule = x.p - 1
                            \/ seg.granule = -1 /\ x.p < MaxPackets /\ EndTogether(w, pp, sc, x.p)
           /\ seg.eos = TRUE => pos[i] = Len(sc) /\ AtEnd(w)
           /\ seg.first = TRUE => x.p = 1

Begins(sc, os, pos, i) == os.lacing[i].hole = TRUE \/ sc[pos[i]].s = 1

\* A segment after a hole begins a packet; one after another comes next in the
\* script, unless a hole comes where a packet has ended.
Linked(sc, os, pos, i) ==
  IF os.lacing[i].hole THEN Begins(sc, os, pos, i + 1)
  ELSE /\ os.lacing[i].val = Full => os.lacing[i + 1].hole = FALSE
       /\ os.lacing[i + 1].hole = FALSE => pos[i + 1] = pos[i] + 1

ChainOK(sc, os, pos) ==
  /\ Len(os.lacing) > 0 => Begins(sc, os, pos, 1)
  /\ \A i \in 1..(Len(os.lacing) - 1) : Linked(sc, os, pos, i)

OrderOK(os, pos) ==
  \A i, j \in 1..Len(os.lacing) :
    i < j /\ os.lacing[i].hole = FALSE /\ os.lacing[j].hole = FALSE => pos[i] < pos[j]

\* The segments held go up to place c of the script.
LastOK(os, pos, c) ==
  Len(os.lacing) > 0 /\ os.lacing[Len(os.lacing)].hole = FALSE => pos[Len(os.lacing)] = c

\* packet is the last segment that ends a packet, or a hole.
WholesOK(os) ==
  /\ os.packet > 0 => os.lacing[os.packet].val < Full
  /\ \A i \in (os.packet + 1)..Len(os.lacing) : os.lacing[i].val = Full

Holds(w, pp, sc, os, pos, c) ==
  /\ StreamOK(os)
  /\ pos \in [1..Len(os.lacing) -> Nat]
  /\ \A i \in 1..Len(os.lacing) : HeldOK(w, pp, sc, os, pos, i)
  /\ ChainOK(sc, os, pos)
  /\ OrderOK(os, pos)
  /\ LastOK(os, pos, c)
  /\ WholesOK(os)

ReaderOK(w, pp, sc, os, pos) ==
  /\ os.pageno \in -1..Len(pp) /\ os.pageno # 0
  /\ os.pageno = -1 => os.lacing = <<>>
  /\ Holds(w, pp, sc, os, pos, Cut(pp, os.pageno))

\* What a packet that came out is.
IsPacket(w, pp, sc, p, k) ==
  /\ k \in 1..Len(w)
  /\ p.data = w[k].data
  /\ \/ p.granulepos = k - 1
     \/ p.granulepos = -1 /\ k < MaxPackets /\ EndTogether(w, pp, sc, k)
  /\ p.eos = TRUE => k = MaxPackets /\ AtEnd(w)
  /\ p.bos = TRUE => k = 1

\* r is the place of the last segment of packet i of what was got.
EndOf(w, sc, p, r) == r \in 1..Len(sc) /\ sc[r] = Mark(Id(p), Segs(w, Id(p)))

Got(g) == {i \in 1..Len(g) : g[i].is = "packet"}

\* What was got ended before the segments held, at c or before.
EndedBefore(w, sc, os, pos, p, c) ==
  \E r \in 1..Len(sc) :
    /\ EndOf(w, sc, p, r)
    /\ r <= c
    /\ \A k \in 1..Len(os.lacing) : os.lacing[k].hole = FALSE => r < pos[k]

\* The packet after k is the next to come, unless a hole comes first.
NextIs(w, sc, os, pos, k, c) ==
  IF os.lacing = <<>> THEN c > 0 /\ sc[c] = Mark(k, Segs(w, k))
  ELSE os.lacing[1].hole = FALSE => sc[pos[1]] = Mark(k + 1, 1)

InOrder(g) ==
  \A i, j \in Got(g) :
    i < j /\ (\A k \in (i + 1)..(j - 1) : k \notin Got(g)) =>
      /\ Id(g[i].p) < Id(g[j].p)
      /\ Id(g[j].p) # Id(g[i].p) + 1 => j > i + 1

GotAt(w, pp, sc, os, pos, g, c) ==
  /\ \E S : g \in Seq(S)
  /\ \A i \in Got(g) : /\ IsPacket(w, pp, sc, g[i].p, Id(g[i].p))
                       /\ EndedBefore(w, sc, os, pos, g[i].p, c)
  /\ Len(g) \in Got(g) => NextIs(w, sc, os, pos, Id(g[Len(g)].p), c)
  /\ InOrder(g)

GotOK(w, pp, sc, os, pos, g) ==
  /\ GotAt(w, pp, sc, os, pos, g, Cut(pp, os.pageno))
  /\ Got(g) # {} => os.pageno # -1

\* The items of a file: heads name pages, in order.
ItemOK(pp, x) ==
  \/ /\ x.kind = "head"
     /\ x \in [kind : {"head"}, page : PageType, ok : BOOLEAN]
     /\ x.page.pageno < Len(pp) /\ x.page = pp[x.page.pageno + 1]
  \/ x \in [kind : {"table"}, len : Nat]
  \/ x \in [kind : {"byte"}, byte : Byte]
  \/ x = Junk

FileOK(pp, f) ==
  /\ \E S : f \in Seq(S)
  /\ \A a \in 1..Len(f) : ItemOK(pp, f[a])
  /\ \A a, b \in 1..Len(f) :
       a < b /\ f[a].kind = "head" /\ f[b].kind = "head" =>
         f[a].page.pageno < f[b].page.pageno

\* The items of the first j pages.
Reach(pp, j) == Bytes([k \in 1..Len(pp) |-> [val |-> Len(Items(pp[k]))]], j)

\* The file of a writer is its pages one after the other.
WholeOK(pp, f) ==
  /\ Len(f) = Reach(pp, Len(pp))
  /\ \A j \in 1..Len(pp) : \A i \in 1..Len(Items(pp[j])) :
        f[Reach(pp, j - 1) + i] = Items(pp[j])[i]
  /\ \A a \in 1..Len(f) : f[a].kind = "head" => a = Reach(pp, f[a].page.pageno) + 1

\* The data the sync layer holds is what it read last of the file.
Done(oy, off) == off - Len(oy.data)
SyncOK(f, oy, off) ==
  /\ oy = [data |-> oy.data, headed |-> oy.headed, bodybytes |-> oy.bodybytes]
  /\ oy.data = SubSeq(f, Done(oy, off) + 1, off)
  /\ off \in 0..Len(f) /\ Len(oy.data) \in 0..off
  /\ oy.headed \in BOOLEAN /\ oy.bodybytes \in Nat
  /\ oy.headed = TRUE => /\ Len(oy.data) >= HeadItems /\ oy.data[1].kind = "head"
                         /\ oy.bodybytes = IF oy.data[2].kind = "table" THEN oy.data[2].len ELSE 0

\* The heads still ahead are those of later pages.
AheadOK(f, oy, off, os) ==
  \A a \in (Done(oy, off) + 1)..Len(f) :
    f[a].kind = "head" => f[a].page.pageno >= os.pageno

NoHoles(os, g) ==
  /\ \A i \in 1..Len(os.lacing) : os.lacing[i].hole = FALSE
  /\ \A i \in 1..Len(g) : g[i].is = "packet"

Bounds ==
  /\ phase \in {"writing", "file", "reading"}
  /\ faults \in 0..MaxFaults
  /\ seeks \in 0..MaxSeeks

ReaderRests == sync = SyncInit /\ offset = 0 /\ rs = StreamInit(Serial) /\ got = <<>>

\* What stays as it is while the file is read; n items of it were damaged.
Static(w, pp, sc, f, n) ==
  /\ PacketsOK(w) /\ IsScript(w, sc) /\ PagesOK(w, pp, sc) /\ FileOK(pp, f)
  /\ n = 0 => WholeOK(pp, f)

\* The reader: the data read, the segments held and what was got.
Reading(w, pp, sc, f, n, oy, off, os, pos, g) ==
  /\ SyncOK(f, oy, off)
  /\ ReaderOK(w, pp, sc, os, pos)
  /\ GotOK(w, pp, sc, os, pos, g)
  /\ AheadOK(f, oy, off, os)
  /\ n = 0 => /\ NoHoles(os, g)
              /\ os.pageno # -1 => Done(oy, off) = Reach(pp, os.pageno)

\* The segment at place r of the script is held.
HeldAt(os, pos, r) ==
  \E i \in 1..Len(os.lacing) : os.lacing[i].hole = FALSE /\ pos[i] = r

\* Packet k was got.
GotIt(g, k) == \E i \in Got(g) : Id(g[i].p) = k

\* The items of a page are those after the first d of the file.
IsAt(f, d, page) == \A i \in 1..Len(Items(page)) : f[d + i] = Items(page)[i]

\* Place x of the script is on page j, or on one of the pages tk.
OnPage(pp, j, x) == x \in (Cut(pp, j - 1) + 1)..Cut(pp, j)
OnPages(pp, tk, x) == \E j \in tk : OnPage(pp, j, x)

\* The segments of the packet at place r, up to there, are all on these pages.
First(sc, r) == (r - sc[r].s) + 1
Whole(pp, sc, tk, r) == \A x \in First(sc, r)..r : OnPages(pp, tk, x)

\* Of the packets whose pages were all taken, those that ended and the one
\* begun on the last page are held, or were got.
Came(w, pp, sc, os, pos, g, tk) ==
  /\ tk \subseteq 1..Len(pp)
  /\ \A j \in tk : j <= os.pageno
  /\ \A r \in 1..Len(sc) :
       Whole(pp, sc, tk, r) /\ (Ends(w, sc[r]) \/ r = Cut(pp, os.pageno)) =>
         HeldAt(os, pos, r) \/ GotIt(g, sc[r].p)

\* Every page all there before item d is one of those taken.
Passed(pp, f, d, tk) ==
  \A j \in 1..Len(pp), e \in Nat : e < d /\ IsAt(f, e, pp[j]) => j \in tk

Kept(w, pp, sc, f, oy, off, os, pos, g) ==
  \E tk : Came(w, pp, sc, os, pos, g, tk) /\ Passed(pp, f, Done(oy, off), tk)

Core(sc, pos) ==
  /\ Bounds
  /\ Static(written, pages, sc, file, faults)
  /\ WriterOK(written, pages, ws, sc)
  /\ phase = "writing" => faults = 0
  /\ phase # "writing" => Len(written) = MaxPackets /\ ws.lacing = <<>>
  /\ IF phase = "reading"
     THEN /\ Reading(written, pages, sc, file, faults, sync, offset, rs, pos, got)
          /\ seeks = 0 => Kept(written, pages, sc, file, sync, offset, rs, pos, got)
     ELSE ReaderRests

IInv == \E sc, pos : Core(sc, pos)

-----------------------------------------------------------------------------
(* Segments and their bytes.                                               *)

\* A body laid out by lacing values.
Laid(A, l, b) ==
  /\ l \in Seq(A)
  /\ b \in Seq(Byte)
  /\ \A i \in 1..Len(l) : l[i].val \in Nat
  /\ Bytes(l, Len(l)) = Len(b)

LEMMA LaidBytes ==
  ASSUME NEW A, NEW l, NEW b, Laid(A, l, b)
  PROVE  /\ Len(l) \in Nat /\ Len(b) \in Nat
         /\ \A k \in 0..Len(l) : Bytes(l, k) \in 0..Len(b)
         /\ \A k \in 0..Len(l) : \A j \in 0..k : Bytes(l, j) <= Bytes(l, k)
         /\ \A i \in 1..Len(l) : /\ Bytes(l, i) = Bytes(l, i - 1) + l[i].val
                                 /\ Bytes(l, i - 1) \in Nat
<1>1. Len(l) \in Nat /\ Len(b) \in Nat /\ Bytes(l, Len(l)) = Len(b)
      /\ \A i \in 1..Len(l) : l[i].val \in Nat
  BY DEF Laid
<1>2. \A k \in 0..Len(l) : /\ Bytes(l, k) \in Nat
                           /\ \A j \in 0..k : Bytes(l, j) <= Bytes(l, k)
  BY <1>1, BytesGrow
<1>3. \A k \in 0..Len(l) : Bytes(l, k) <= Bytes(l, Len(l))
  BY <1>1, <1>2
<1>4. \A i \in 1..Len(l) : Bytes(l, i) = Bytes(l, i - 1) + l[i].val
  <2> TAKE i \in 1..Len(l)
  <2>1. i \in Nat /\ i > 0
    OBVIOUS
  <2> QED
    BY <2>1, BytesStep
<1> QED
  BY <1>1, <1>2, <1>3, <1>4

\* Two segments with the same value over the same bytes.
LEMMA PieceSame ==
  ASSUME NEW l, NEW b, NEW i, NEW m, NEW d, NEW j,
         m[j].val = l[i].val,
         \A t \in 1..l[i].val : d[Bytes(m, j - 1) + t] = b[Bytes(l, i - 1) + t]
  PROVE  Piece(m, d, j) = Piece(l, b, i)
  BY DEF Piece

\* Bytes after the last segment change nothing.
LEMMA PieceOfFirst ==
  ASSUME NEW A, NEW B, NEW l, NEW b, Laid(A, l, b), NEW m \in Seq(B), NEW d \in Seq(Byte),
         NEW i \in 1..Len(l)
  PROVE  /\ (l \o m)[i] = l[i]
         /\ Piece(l \o m, b \o d, i) = Piece(l, b, i)
<1>1. l \in Seq(A) /\ b \in Seq(Byte) /\ l[i].val \in Nat
  BY DEF Laid
<1>2. (l \o m)[i] = l[i] /\ i - 1 \in 0..Len(l) /\ i \in 0..Len(l)
  BY <1>1
<1>3. Bytes(l \o m, i - 1) = Bytes(l, i - 1)
  BY <1>1, <1>2, BytesOfFirst
<1>4. /\ Bytes(l, i - 1) \in Nat /\ Bytes(l, i) \in 0..Len(b) /\ Len(b) \in Nat
      /\ Bytes(l, i) = Bytes(l, i - 1) + l[i].val
  BY <1>2, LaidBytes
<1>5. ASSUME NEW t \in 1..l[i].val
      PROVE  (b \o d)[Bytes(l \o m, i - 1) + t] = b[Bytes(l, i - 1) + t]
  <2>1. Bytes(l, i - 1) + t \in 1..Len(b)
    BY <1>1, <1>4
  <2> QED
    BY <1>1, <1>3, <2>1
<1> QED
  BY <1>2, <1>5 DEF Piece

\* Segment i of m has the bytes of segment k of l.
SamePiece(m, d, i, l, b, k) == Piece(m, d, i) = Piece(l, b, k)

\* The segments put after others.
LEMMA PieceOfSecond ==
  ASSUME NEW A, NEW B, NEW l, NEW b, Laid(A, l, b), NEW m, NEW d, Laid(B, m, d),
         NEW i \in 1..Len(m)
  PROVE  /\ (l \o m)[Len(l) + i] = m[i]
         /\ SamePiece(l \o m, b \o d, Len(l) + i, m, d, i)
<1>1. /\ l \in Seq(A) /\ b \in Seq(Byte) /\ m \in Seq(B) /\ d \in Seq(Byte)
      /\ (\A k \in 1..Len(l) : l[k].val \in Nat) /\ (\A k \in 1..Len(m) : m[k].val \in Nat)
      /\ Bytes(l, Len(l)) = Len(b)
  BY DEF Laid
<1>2. (l \o m)[Len(l) + i] = m[i] /\ i - 1 \in 0..Len(m) /\ (Len(l) + i) - 1 = Len(l) + (i - 1)
  BY <1>1
<1>6. \A k \in 0..Len(m) : Bytes(l \o m, Len(l) + k) = Bytes(l, Len(l)) + Bytes(m, k)
  <2>1. Shifted(l \o m, m, Len(l), Len(m))
    BY <1>1 DEF Shifted
  <2>2. Bytes(l \o m, Len(l)) = Bytes(l, Len(l))
    BY <1>1, BytesOfFirst
  <2> QED
    BY <2>1, <2>2, BytesShift
<1>3. Bytes(l \o m, (Len(l) + i) - 1) = Len(b) + Bytes(m, i - 1)
  BY <1>1, <1>2, <1>6
<1>4. /\ Bytes(m, i - 1) \in Nat /\ Bytes(m, i) \in 0..Len(d) /\ Len(d) \in Nat /\ Len(b) \in Nat
      /\ Bytes(m, i) = Bytes(m, i - 1) + m[i].val
  BY <1>1, <1>2, LaidBytes
<1>5. ASSUME NEW t \in 1..m[i].val
      PROVE  (b \o d)[Bytes(l \o m, (Len(l) + i) - 1) + t] = d[Bytes(m, i - 1) + t]
  <2>1. Bytes(m, i - 1) + t \in 1..Len(d)
    BY <1>1, <1>4
  <2>2. (b \o d)[Len(b) + (Bytes(m, i - 1) + t)] = d[Bytes(m, i - 1) + t]
    BY <1>1, <2>1
  <2>3. (Len(b) + Bytes(m, i - 1)) + t = Len(b) + (Bytes(m, i - 1) + t)
    BY <1>4
  <2> QED
    BY <1>3, <2>2, <2>3
<1>7. (l \o m)[Len(l) + i].val = m[i].val
  BY <1>2
<1> QED
  BY <1>2, <1>5, <1>7 DEF Piece, SamePiece

\* m has the values of l from its n-th on, c of them.
SameVals(m, l, n, c) == \A i \in 1..c : m[i].val = l[n + i].val

\* The first n segments and their bytes.
LEMMA PieceOfPrefix ==
  ASSUME NEW A, NEW l, NEW b, Laid(A, l, b), NEW n \in 0..Len(l),
         NEW m, SameVals(m, l, 0, n)
  PROVE  /\ Bytes(m, n) = Bytes(l, n)
         /\ Bytes(l, n) \in Nat
         /\ SubSeq(b, 1, Bytes(l, n)) \in Seq(Byte)
         /\ Len(SubSeq(b, 1, Bytes(l, n))) = Bytes(l, n)
         /\ \A i \in 1..n : Piece(m, SubSeq(b, 1, Bytes(l, n)), i) = Piece(l, b, i)
<1>0. \A i \in 1..n : m[i].val = l[i].val
  BY DEF SameVals
<1>1. l \in Seq(A) /\ b \in Seq(Byte) /\ (\A k \in 1..Len(l) : l[k].val \in Nat)
  BY DEF Laid
<1>2. /\ Bytes(l, n) \in 0..Len(b) /\ Len(b) \in Nat /\ n \in Nat /\ Len(l) \in Nat
      /\ \A i \in 1..Len(l) : /\ Bytes(l, i) = Bytes(l, i - 1) + l[i].val
                              /\ Bytes(l, i - 1) \in Nat
  BY LaidBytes
<1>3. Bytes(m, n) = Bytes(l, n)
  BY <1>0, <1>2, BytesAgree
<1> DEFINE d == SubSeq(b, 1, Bytes(l, n))
<1>4. d \in Seq(Byte) /\ Len(d) = Bytes(l, n) /\ \A u \in 1..Bytes(l, n) : d[u] = b[u]
  BY <1>1, <1>2
<1>7. \A k \in 0..n : Bytes(l, k) <= Bytes(l, n)
  BY LaidBytes
<1> HIDE DEF d
<1>5. ASSUME NEW i \in 1..n PROVE Piece(m, d, i) = Piece(l, b, i)
  <2>1. \A k \in 1..(i - 1) : m[k].val = l[k].val
    BY <1>0
  <2>2. i - 1 \in Nat /\ i \in 0..n /\ i \in 1..Len(l)
    BY <1>2
  <2>3. Bytes(m, i - 1) = Bytes(l, i - 1)
    BY <2>1, <2>2, BytesAgree
  <2>4. Bytes(l, i) <= Bytes(l, n) /\ Bytes(l, i) = Bytes(l, i - 1) + l[i].val
        /\ Bytes(l, i - 1) \in Nat /\ l[i].val \in Nat
    BY <1>1, <1>2, <1>7, <2>2
  <2>5. ASSUME NEW t \in 1..l[i].val
        PROVE  d[Bytes(m, i - 1) + t] = b[Bytes(l, i - 1) + t]
    <3>1. Bytes(l, i - 1) + t \in 1..Bytes(l, n)
      BY <1>2, <2>4
    <3> QED
      BY <1>4, <2>3, <3>1
  <2>6. m[i].val = l[i].val
    BY <1>0
  <2> QED
    BY <2>5, <2>6, PieceSame
<1> QED
  BY <1>2, <1>3, <1>4, <1>5 DEF d

\* The segments after the first n and their bytes.
LEMMA PieceOfRest ==
  ASSUME NEW A, NEW l, NEW b, Laid(A, l, b), NEW n \in 0..Len(l),
         NEW m, SameVals(m, l, n, Len(l) - n)
  PROVE  /\ SubSeq(b, Bytes(l, n) + 1, Len(b)) \in Seq(Byte)
         /\ Bytes(m, Len(l) - n) = Len(SubSeq(b, Bytes(l, n) + 1, Len(b)))
         /\ \A i \in 1..(Len(l) - n) :
              Piece(m, SubSeq(b, Bytes(l, n) + 1, Len(b)), i) = Piece(l, b, n + i)
<1>0. \A i \in 1..(Len(l) - n) : m[i].val = l[n + i].val
  BY DEF SameVals
<1>1. /\ l \in Seq(A) /\ b \in Seq(Byte) /\ (\A k \in 1..Len(l) : l[k].val \in Nat)
      /\ Bytes(l, Len(l)) = Len(b)
  BY DEF Laid
<1>2. /\ Bytes(l, n) \in 0..Len(b) /\ Len(b) \in Nat /\ n \in Nat /\ Len(l) \in Nat
      /\ Len(l) - n \in Nat /\ n + (Len(l) - n) = Len(l)
      /\ \A i \in 1..Len(l) : /\ Bytes(l, i) = Bytes(l, i - 1) + l[i].val
                              /\ Bytes(l, i - 1) \in Nat /\ Bytes(l, i) <= Len(b)
  <2>1. /\ Len(l) \in Nat /\ Len(b) \in Nat
        /\ \A k \in 0..Len(l) : Bytes(l, k) \in 0..Len(b)
        /\ \A i \in 1..Len(l) : /\ Bytes(l, i) = Bytes(l, i - 1) + l[i].val
                                /\ Bytes(l, i - 1) \in Nat
    BY LaidBytes
  <2> QED
    BY <2>1
<1>3. Shifted(l, m, n, Len(l) - n)
  BY <1>0, <1>1, <1>2 DEF Shifted
<1>4. \A k \in 0..(Len(l) - n) : Bytes(l, n + k) = Bytes(l, n) + Bytes(m, k)
  BY <1>3, BytesShift
<1>8. \A k \in 0..(Len(l) - n) : Bytes(m, k) \in Nat
  <2>1. ASSUME NEW i \in 1..(Len(l) - n) PROVE m[i].val \in Nat
    <3>1. n + i \in 1..Len(l) /\ m[i].val = l[n + i].val
      BY <1>0, <1>2
    <3> QED
      BY <1>1, <3>1
  <2>2. ASSUME NEW c \in Nat, \A i \in 1..c : m[i].val \in Nat
        PROVE  \A k \in 0..c : Bytes(m, k) \in Nat
    BY <2>2, BytesGrow
  <2> QED
    BY <1>2, <2>1, <2>2
<1> DEFINE d == SubSeq(b, Bytes(l, n) + 1, Len(b))
<1>5. d \in Seq(Byte) /\ Len(d) = Len(b) - Bytes(l, n)
      /\ \A u \in 1..(Len(b) - Bytes(l, n)) : d[u] = b[Bytes(l, n) + u]
  BY <1>1, <1>2
<1>6. Bytes(m, Len(l) - n) = Len(b) - Bytes(l, n)
  <2>1. Len(l) - n \in 0..(Len(l) - n)
    BY <1>2
  <2>2. Bytes(l, n + (Len(l) - n)) = Bytes(l, n) + Bytes(m, Len(l) - n) /\ Bytes(m, Len(l) - n) \in Nat
    BY <1>4, <1>8, <2>1
  <2>3. Bytes(l, n + (Len(l) - n)) = Len(b)
    BY <1>1, <1>2
  <2> QED
    BY <1>2, <2>2, <2>3
<1> HIDE DEF d
<1>7. ASSUME NEW i \in 1..(Len(l) - n) PROVE Piece(m, d, i) = Piece(l, b, n + i)
  <2>1. i - 1 \in 0..(Len(l) - n) /\ n + i \in 1..Len(l) /\ (n + i) - 1 = n + (i - 1)
    BY <1>2
  <2>2. Bytes(l, (n + i) - 1) = Bytes(l, n) + Bytes(m, i - 1) /\ Bytes(m, i - 1) \in Nat
    BY <1>4, <1>8, <2>1
  <2>3. /\ Bytes(l, n + i) = Bytes(l, (n + i) - 1) + l[n + i].val
        /\ Bytes(l, n + i) <= Len(b) /\ l[n + i].val \in Nat
    BY <1>1, <1>2, <2>1
  <2>4. ASSUME NEW t \in 1..l[n + i].val
        PROVE  d[Bytes(m, i - 1) + t] = b[Bytes(l, (n + i) - 1) + t]
    <3>1. Bytes(m, i - 1) + t \in 1..(Len(b) - Bytes(l, n))
      <4> DEFINE x == Bytes(l, n)  y == Bytes(m, i - 1)  z == l[n + i].val
      <4>1. /\ x \in 0..Len(b) /\ Len(b) \in Nat /\ y \in Nat /\ z \in Nat
            /\ (x + y) + z <= Len(b)
        BY <1>2, <2>2, <2>3
      <4>2. t \in 1..z
        OBVIOUS
      <4> HIDE DEF x, y, z
      <4>3. y + t \in 1..(Len(b) - x)
        BY <4>1, <4>2
      <4> QED
        BY <4>3 DEF x, y
    <3>2. Bytes(l, n) + (Bytes(m, i - 1) + t) = Bytes(l, (n + i) - 1) + t
      BY <1>2, <2>2
    <3> QED
      BY <1>5, <3>1, <3>2
  <2>5. m[i].val = l[n + i].val
    BY <1>0
  <2> QED
    BY <2>4, <2>5, PieceSame
<1> QED
  BY <1>5, <1>6, <1>7 DEF d

-----------------------------------------------------------------------------
(* The script.                                                             *)

\* A packet's segments: all full but the last.
LEMMA SegsOf ==
  ASSUME NEW w, PacketsOK(w), NEW k \in 1..Len(w)
  PROVE  /\ Len(w) \in Nat /\ Len(w[k].data) \in Nat
         /\ Segs(w, k) \in Nat \ {0}
         /\ Len(w[k].data) % Full \in 0..(Full - 1)
         /\ Len(w[k].data) = Full * (Segs(w, k) - 1) + (Len(w[k].data) % Full)
<1>1. Full \in Nat \ {0}
  BY FramingAssumption
<1>2. Len(w) \in Nat /\ w[k].data \in Seq(Byte)
  <2>1. w \in Seq([data : Seq(Byte), granulepos : Int, eos : BOOLEAN]) /\ PacketOK(w, k)
    BY DEF PacketsOK
  <2>2. Len(w) \in Nat
    BY <2>1
  <2> QED
    BY <2>1, <2>2 DEF PacketOK
<1>3. Len(w[k].data) \in Nat
  BY <1>2
<1>4. /\ Len(w[k].data) \div Full \in Nat
      /\ Len(w[k].data) % Full \in 0..(Full - 1)
      /\ Len(w[k].data) = Full * (Len(w[k].data) \div Full) + (Len(w[k].data) % Full)
  BY <1>1, <1>3, Division
<1>5. Segs(w, k) = (Len(w[k].data) \div Full) + 1
  BY DEF Segs
<1>6. Segs(w, k) - 1 = Len(w[k].data) \div Full /\ Segs(w, k) \in Nat \ {0}
  BY <1>4, <1>5
<1> QED
  BY <1>2, <1>3, <1>4, <1>6

\* A mark of the packets put in.
IsMark(w, x) == x = Mark(x.p, x.s) /\ x.p \in 1..Len(w) /\ x.s \in 1..Segs(w, x.p)

LEMMA SegValOf ==
  ASSUME NEW w, PacketsOK(w), NEW x, IsMark(w, x)
  PROVE  /\ SegVal(w, x) \in 0..Full
         /\ SegVal(w, x) < Full <=> Ends(w, x)
         /\ SegVal(w, x) = Full <=> ~Ends(w, x)
<1>1. Full \in Nat \ {0}
  BY FramingAssumption
<1>2. Segs(w, x.p) \in Nat \ {0} /\ Len(w[x.p].data) % Full \in 0..(Full - 1)
  BY SegsOf DEF IsMark
<1>3. x.s \in Nat /\ x.s <= Segs(w, x.p)
  BY <1>2 DEF IsMark
<1>4. CASE x.s < Segs(w, x.p)
  <2>1. SegVal(w, x) = Full /\ ~Ends(w, x)
    BY <1>2, <1>3, <1>4 DEF SegVal, Ends
  <2> QED
    BY <1>1, <2>1
<1>5. CASE ~(x.s < Segs(w, x.p))
  <2>1. SegVal(w, x) = Len(w[x.p].data) % Full
    BY <1>5 DEF SegVal
  <2>2. Ends(w, x)
    BY <1>2, <1>3, <1>5 DEF Ends
  <2>3. SegVal(w, x) \in 0..(Full - 1)
    BY <1>2, <2>1
  <2> QED
    BY <1>1, <2>2, <2>3
<1> QED
  BY <1>4, <1>5

LEMMA MarkFields ==
  ASSUME NEW k, NEW s
  PROVE  Mark(k, s).p = k /\ Mark(k, s).s = s
  BY DEF Mark

LEMMA ScriptMarks ==
  ASSUME NEW w, NEW sc, PacketsOK(w), IsScript(w, sc)
  PROVE  /\ Len(sc) \in Nat
         /\ \A r \in 1..Len(sc) : IsMark(w, sc[r]) /\ sc[r].p \in Nat /\ sc[r].s \in Nat
         /\ \A r \in 1..(Len(sc) - 1) : sc[r + 1] = NextMark(w, sc[r])
         /\ Len(sc) > 0 => sc[1] = Mark(1, 1)
         /\ Len(sc) = 0 <=> Len(w) = 0
         /\ Len(sc) > 0 => sc[Len(sc)] = Mark(Len(w), Segs(w, Len(w)))
<1>1. sc \in Seq([p : Nat, s : Nat]) /\ w \in Seq([data : Seq(Byte), granulepos : Int, eos : BOOLEAN])
  BY DEF IsScript, PacketsOK
<1>2. Len(sc) \in Nat /\ \A r \in 1..Len(sc) : sc[r] \in [p : Nat, s : Nat]
  <2> DEFINE M == [p : Nat, s : Nat]
  <2>1. sc \in Seq(M)
    BY <1>1
  <2> HIDE DEF M
  <2>2. Len(sc) \in Nat /\ \A r \in 1..Len(sc) : sc[r] \in M
    BY <2>1
  <2> QED
    BY <2>2 DEF M
<1>3. \A r \in 1..Len(sc) : sc[r] = Mark(sc[r].p, sc[r].s)
  BY <1>2 DEF Mark
<1>4. \A r \in 1..Len(sc) : IsMark(w, sc[r]) /\ sc[r].p \in Nat /\ sc[r].s \in Nat
  BY <1>2, <1>3 DEF IsMark, IsScript
<1>5. w = <<>> <=> Len(w) = 0
  BY <1>1
<1>6. sc = <<>> <=> Len(sc) = 0
  BY <1>1
<1>7. IF w = <<>> THEN sc = <<>>
      ELSE Len(sc) > 0 /\ sc[Len(sc)] = Mark(Len(w), Segs(w, Len(w)))
  BY DEF IsScript
<1>8. \A r \in 1..(Len(sc) - 1) : sc[r + 1] = NextMark(w, sc[r])
  BY DEF IsScript
<1>9. sc # <<>> => sc[1] = Mark(1, 1)
  BY DEF IsScript
<1> QED
  BY <1>2, <1>4, <1>5, <1>6, <1>7, <1>8, <1>9

\* After a mark of the script comes the next segment of its packet, or the
\* first one of the next packet.
LEMMA ScriptNext ==
  ASSUME NEW w, NEW sc, PacketsOK(w), IsScript(w, sc), NEW r \in 1..(Len(sc) - 1)
  PROVE  sc[r + 1] = NextMark(w, sc[r])
<1>1. \A x \in 1..(Len(sc) - 1) : sc[x + 1] = NextMark(w, sc[x])
  BY ScriptMarks
<1> QED
  BY <1>1

\* The packets that have ended with the first r segments.
Ended(w, sc, r) == IF r = 0 THEN 0 ELSE IF Ends(w, sc[r]) THEN sc[r].p ELSE sc[r].p - 1

LEMMA EndedStep ==
  ASSUME NEW w, NEW sc, PacketsOK(w), IsScript(w, sc), NEW r \in 1..Len(sc)
  PROVE  /\ Ended(w, sc, r - 1) \in Nat /\ Ended(w, sc, r) \in Nat
         /\ Ends(w, sc[r]) => Ended(w, sc, r) = Ended(w, sc, r - 1) + 1
         /\ ~Ends(w, sc[r]) => Ended(w, sc, r) = Ended(w, sc, r - 1)
         /\ Ended(w, sc, r - 1) = sc[r].p - 1
<1>1. /\ Len(sc) \in Nat
      /\ \A q \in 1..Len(sc) : IsMark(w, sc[q]) /\ sc[q].p \in Nat /\ sc[q].s \in Nat
      /\ \A q \in 1..(Len(sc) - 1) : sc[q + 1] = NextMark(w, sc[q])
      /\ Len(sc) > 0 => sc[1] = Mark(1, 1)
  BY ScriptMarks
<1>2. /\ IsMark(w, sc[r]) /\ sc[r].p \in Nat /\ sc[r].s \in Nat /\ sc[r].p > 0
      /\ r \in Nat /\ r > 0
  BY <1>1 DEF IsMark
<1>3. CASE r = 1
  <2>1. sc[r].p = 1
    BY <1>1, <1>3, MarkFields
  <2> QED
    BY <1>2, <1>3, <2>1 DEF Ended
<1>4. CASE r # 1
  <2>1. r - 1 \in 1..Len(sc) /\ r - 1 \in 1..(Len(sc) - 1) /\ (r - 1) + 1 = r
    BY <1>1, <1>4
  <2>2. /\ sc[r] = NextMark(w, sc[r - 1])
        /\ IsMark(w, sc[r - 1]) /\ sc[r - 1].p \in Nat /\ sc[r - 1].p > 0
    BY <1>1, <2>1 DEF IsMark
  <2>3. CASE Ends(w, sc[r - 1])
    <3>1. sc[r].p = sc[r - 1].p + 1
      BY <2>2, <2>3, MarkFields DEF NextMark
    <3> QED
      BY <1>2, <1>4, <2>1, <2>2, <2>3, <3>1 DEF Ended
  <2>4. CASE ~Ends(w, sc[r - 1])
    <3>1. sc[r].p = sc[r - 1].p
      BY <2>2, <2>4, MarkFields DEF NextMark
    <3> QED
      BY <1>2, <1>4, <2>1, <2>2, <2>4, <3>1 DEF Ended
  <2> QED
    BY <2>3, <2>4
<1> QED
  BY <1>3, <1>4

LEMMA EndedGrows ==
  ASSUME NEW w, NEW sc, PacketsOK(w), IsScript(w, sc)
  PROVE  \A t \in 0..Len(sc) : /\ Ended(w, sc, t) \in Nat
                               /\ \A r \in 0..t : Ended(w, sc, r) <= Ended(w, sc, t)
<1> DEFINE E(r) == Ended(w, sc, r)
           Good(t) == E(t) \in Nat /\ \A r \in 0..t : E(r) <= E(t)
           T == {t \in 0..Len(sc) : ~Good(t)}
<1>1. SUFFICES ASSUME T # {} PROVE FALSE
  BY <1>1
<1>2. T \subseteq Nat
  OBVIOUS
<1>3. PICK t \in T : \A r \in T : t <= r
  <2> HIDE DEF T
  <2> QED
    BY <1>1, <1>2, LeastNat
<1>4. Len(sc) \in Nat
  BY ScriptMarks
<1>5. E(0) = 0
  BY DEF Ended
<1>6. t # 0
  BY <1>3, <1>5
<1>7. t \in 1..Len(sc) /\ t - 1 \in 0..Len(sc) /\ Good(t - 1)
  BY <1>3, <1>4, <1>6
<1>8. E(t) \in Nat /\ E(t - 1) \in Nat /\ E(t) >= E(t - 1)
  BY <1>7, EndedStep
<1> HIDE DEF E
<1>9. Good(t)
  <2> SUFFICES ASSUME NEW r \in 0..t PROVE E(r) <= E(t)
    BY <1>8
  <2>1. CASE r = t
    BY <1>8, <2>1
  <2>2. CASE r # t
    <3>1. r \in 0..(t - 1)
      BY <1>7, <2>2
    <3>2. E(r) <= E(t - 1)
      BY <1>7, <3>1
    <3>3. E(r) \in Nat
      <4>1. r \in 0..Len(sc) /\ r \notin T
        BY <1>3, <1>4, <1>7, <3>1
      <4> QED
        BY <4>1
    <3> QED
      BY <1>8, <3>2, <3>3
  <2> QED
    BY <2>1, <2>2
<1> QED
  BY <1>3, <1>9

\* The order of places is that of packets.
LEMMA EndsInOrder ==
  ASSUME NEW w, NEW sc, PacketsOK(w), IsScript(w, sc),
         NEW r \in 1..Len(sc), NEW t \in 1..Len(sc), r < t
  PROVE  /\ sc[r].p <= sc[t].p
         /\ Ends(w, sc[r]) => sc[r].p < sc[t].p
<1>1. \A q \in 0..Len(sc) : /\ Ended(w, sc, q) \in Nat
                            /\ \A s \in 0..q : Ended(w, sc, s) <= Ended(w, sc, q)
  BY EndedGrows
<1>2. /\ Ended(w, sc, t - 1) = sc[t].p - 1
      /\ Ended(w, sc, r - 1) = sc[r].p - 1
      /\ Ends(w, sc[r]) => Ended(w, sc, r) = Ended(w, sc, r - 1) + 1
  BY EndedStep
<1>3. Len(sc) \in Nat /\ sc[r].p \in Nat /\ sc[t].p \in Nat
  BY ScriptMarks
<1>4. /\ r \in 0..(t - 1) /\ r - 1 \in 0..(t - 1) /\ t - 1 \in 0..Len(sc)
  BY <1>3
<1>5. Ended(w, sc, r) <= Ended(w, sc, t - 1) /\ Ended(w, sc, r - 1) <= Ended(w, sc, t - 1)
  BY <1>1, <1>4
<1> QED
  BY <1>2, <1>3, <1>5

-----------------------------------------------------------------------------
(* Pages and their places.                                                 *)

LEMMA CutSteps ==
  ASSUME NEW pp \in Seq(PageType)
  PROVE  /\ Len(pp) \in Nat
         /\ Cut(pp, 0) = 0
         /\ \A j \in 1..Len(pp) : /\ Cut(pp, j) = Cut(pp, j - 1) + Len(pp[j].segments)
                                  /\ Len(pp[j].segments) \in Nat
         /\ \A k \in 0..Len(pp) : /\ Cut(pp, k) \in Nat
                                  /\ \A j \in 0..k : Cut(pp, j) <= Cut(pp, k)
<1>1. Len(pp) \in Nat /\ \A j \in 1..Len(pp) : Len(pp[j].segments) \in Nat
  <2>1. \A j \in 1..Len(pp) : pp[j] \in PageType
    OBVIOUS
  <2>2. \A j \in 1..Len(pp) : pp[j].segments \in Seq(0..Full)
    BY <2>1 DEF PageType
  <2> QED
    BY <2>2
<1>2. \A j \in 1..Len(pp) : Widths(pp)[j].val = Len(pp[j].segments)
  BY DEF Widths
<1>3. \A j \in 1..Len(pp) : Widths(pp)[j].val \in Nat
  BY <1>1, <1>2
<1>4. \A k \in 0..Len(pp) : /\ Bytes(Widths(pp), k) \in Nat
                            /\ \A j \in 0..k : Bytes(Widths(pp), j) <= Bytes(Widths(pp), k)
  BY <1>1, <1>3, BytesGrow
<1>5. ASSUME NEW j \in 1..Len(pp)
      PROVE  Bytes(Widths(pp), j) = Bytes(Widths(pp), j - 1) + Widths(pp)[j].val
  <2>1. j \in Nat /\ j > 0
    OBVIOUS
  <2> QED
    BY <2>1, BytesStep
<1>6. Bytes(Widths(pp), 0) = 0
  BY BytesAdds
<1> QED
  BY <1>1, <1>2, <1>4, <1>5, <1>6 DEF Cut

\* A page more moves none of the places before it.
LEMMA CutOfMore ==
  ASSUME NEW pp \in Seq(PageType), NEW page
  PROVE  \A j \in 0..Len(pp) : Cut(Append(pp, page), j) = Cut(pp, j)
<1> TAKE j \in 0..Len(pp)
<1>1. j \in Nat
  OBVIOUS
<1>2. \A i \in 1..j : Widths(Append(pp, page))[i].val = Widths(pp)[i].val
  BY DEF Widths
<1> QED
  BY <1>1, <1>2, BytesAgree DEF Cut

-----------------------------------------------------------------------------
(* A packet is put in.                                                     *)

\* One packet more changes no mark of the others.
LEMMA Extended ==
  ASSUME NEW w, PacketsOK(w), NEW p, NEW x, x.p \in 1..Len(w)
  PROVE  /\ Append(w, p)[x.p] = w[x.p]
         /\ Segs(Append(w, p), x.p) = Segs(w, x.p)
         /\ Ends(Append(w, p), x) = Ends(w, x)
         /\ NextMark(Append(w, p), x) = NextMark(w, x)
         /\ SegVal(Append(w, p), x) = SegVal(w, x)
         /\ Chunk(Append(w, p), x) = Chunk(w, x)
<1>1. w \in Seq([data : Seq(Byte), granulepos : Int, eos : BOOLEAN])
  BY DEF PacketsOK
<1> DEFINE v == Append(w, p)
<1>2. v[x.p] = w[x.p]
  BY <1>1
<1> HIDE DEF v
<1>3. Segs(v, x.p) = Segs(w, x.p)
  BY <1>2 DEF Segs
<1>4. Ends(v, x) = Ends(w, x)
  BY <1>3 DEF Ends
<1>5. NextMark(v, x) = NextMark(w, x)
  BY <1>4 DEF NextMark
<1>6. SegVal(v, x) = SegVal(w, x)
  BY <1>2, <1>3 DEF SegVal
<1>7. Chunk(v, x) = Chunk(w, x)
  BY <1>2, <1>6 DEF Chunk
<1> QED
  BY <1>2, <1>3, <1>4, <1>5, <1>6, <1>7 DEF v

\* l lays out packet k, whose position is g.
LacedOK(w, k, g, l) ==
  /\ Laid(SegType, l, w[k].data)
  /\ Len(l) = Segs(w, k)
  /\ \A s \in 1..Segs(w, k) :
       /\ Carries(w, l, w[k].data, s, Mark(k, s))
       /\ l[s].first = (s = 1)
       /\ s = Segs(w, k) => l[s].granule = g

\* The segments ogg_stream_packetin lays out for a packet.
LEMMA LacedMarks ==
  ASSUME NEW w, PacketsOK(w), NEW k \in 1..Len(w), NEW g \in Int, NEW before \in Int
  PROVE  LacedOK(w, k, g, Laced(Len(w[k].data), g, before))
<1> DEFINE n == Len(w[k].data)
           vals == Segs(w, k)
           l == Laced(n, g, before)
<1>1. /\ n \in Nat /\ vals \in Nat \ {0} /\ n % Full \in 0..(Full - 1)
      /\ vals = n \div Full + 1
  BY SegsOf DEF Segs
<1>2. Full \in Nat \ {0}
  BY FramingAssumption
<1>3. l = [i \in 1..vals |-> IF i < vals THEN Segment(Full, i = 1, before)
                                        ELSE Segment(n % Full, i = 1, g)]
  BY <1>1 DEF Laced
<1>4. w[k].data \in Seq(Byte)
  BY DEF PacketsOK, PacketOK
<1>5. Bytes(l, vals) = n
  BY <1>1, LacedBytes
<1>6. \A m \in 0..(vals - 1) : Bytes(l, m) = m * Full
  <2>1. \A m \in 0..(n \div Full) : Bytes(l, m) = m * Full
    BY <1>1, LacedPrefix
  <2>3. n \in Nat
    BY <1>1
  <2>4. n \div Full \in Nat
    <3> HIDE DEF n
    <3> QED
      BY <1>2, <2>3
  <2>2. vals - 1 = n \div Full
    <3> HIDE DEF vals, n
    <3> QED
      BY <1>1, <2>4
  <2> QED
    BY <2>1, <2>2
<1> HIDE DEF l, vals, n
<1>7. \A i \in 1..vals : l[i] = IF i < vals THEN Segment(Full, i = 1, before)
                                            ELSE Segment(n % Full, i = 1, g)
  BY <1>3
<1>8. Len(l) = vals /\ DOMAIN l = 1..vals
  BY <1>1, <1>3
<1>9. ASSUME NEW s \in 1..vals
      PROVE  /\ l[s].val = SegVal(w, Mark(k, s)) /\ l[s].val \in 0..Full
             /\ l[s].first = (s = 1) /\ l[s].granule \in Int
             /\ l[s] \in SegType
             /\ s = vals => l[s].granule = g
  <2>1. CASE s < vals
    <3>1. l[s] = Segment(Full, s = 1, before)
      BY <1>7, <2>1
    <3>2. SegVal(w, Mark(k, s)) = Full
      BY <2>1, MarkFields DEF SegVal, vals
    <3>3. Segment(Full, s = 1, before) \in SegType
      BY <1>2 DEF Segment, SegType
    <3> QED
      BY <1>1, <1>2, <2>1, <3>1, <3>2, <3>3 DEF Segment
  <2>2. CASE ~(s < vals)
    <3>1. l[s] = Segment(n % Full, s = 1, g)
      BY <1>7, <2>2
    <3>2. SegVal(w, Mark(k, s)) = n % Full
      BY <2>2, MarkFields DEF SegVal, vals, n
    <3>3. n % Full \in 0..Full
      BY <1>1, <1>2
    <3>4. Segment(n % Full, s = 1, g) \in SegType
      BY <3>3 DEF Segment, SegType
    <3>5. /\ l[s].val = n % Full /\ l[s].first = (s = 1) /\ l[s].granule = g
      BY <3>1 DEF Segment
    <3> QED
      BY <3>1, <3>2, <3>3, <3>4, <3>5
  <2> QED
    BY <2>1, <2>2
<1>10. l \in Seq(SegType)
  <2>1. l = [i \in 1..vals |-> l[i]]
    BY <1>3
  <2>2. vals \in Nat /\ \A i \in 1..vals : l[i] \in SegType
    BY <1>1, <1>9
  <2> HIDE DEF SegType
  <2> QED
    BY <2>1, <2>2
<1>11. Laid(SegType, l, w[k].data)
  BY <1>4, <1>5, <1>8, <1>9, <1>10 DEF Laid, n
<1>12. ASSUME NEW s \in 1..vals
       PROVE  Piece(l, w[k].data, s) = Chunk(w, Mark(k, s))
  <2>1. Bytes(l, s - 1) = (s - 1) * Full
    BY <1>1, <1>6
  <2>2. Mark(k, s).p = k /\ Mark(k, s).s = s
    BY MarkFields
  <2>3. l[s].val = SegVal(w, Mark(k, s))
    BY <1>9
  <2> QED
    BY <2>1, <2>2, <2>3 DEF Piece, Chunk
<1>13. \A s \in 1..vals :
         /\ Carries(w, l, w[k].data, s, Mark(k, s))
         /\ l[s].first = (s = 1)
         /\ s = vals => l[s].granule = g
  BY <1>9, <1>12 DEF Carries
<1>14. LacedOK(w, k, g, l)
  BY <1>8, <1>11, <1>13 DEF LacedOK, vals
<1> QED
  BY <1>14 DEF l, n

LEMMA LaidBoth ==
  ASSUME NEW A, NEW l, NEW b, Laid(A, l, b), NEW m, NEW d, Laid(A, m, d)
  PROVE  Laid(A, l \o m, b \o d)
<1>1. /\ l \in Seq(A) /\ b \in Seq(Byte) /\ m \in Seq(A) /\ d \in Seq(Byte)
      /\ (\A k \in 1..Len(l) : l[k].val \in Nat) /\ (\A k \in 1..Len(m) : m[k].val \in Nat)
      /\ Bytes(l, Len(l)) = Len(b) /\ Bytes(m, Len(m)) = Len(d)
  BY DEF Laid
<1>2. Shifted(l \o m, m, Len(l), Len(m))
  BY <1>1 DEF Shifted
<1>3. Bytes(l \o m, Len(l)) = Bytes(l, Len(l))
  BY <1>1, BytesOfFirst
<1>4. Len(m) \in 0..Len(m) /\ Len(l \o m) = Len(l) + Len(m) /\ Len(b \o d) = Len(b) + Len(d)
  BY <1>1
<1>5. Bytes(l \o m, Len(l) + Len(m)) = Bytes(l \o m, Len(l)) + Bytes(m, Len(m))
  BY <1>2, <1>4, BytesShift
<1>6. l \o m \in Seq(A) /\ b \o d \in Seq(Byte)
  BY <1>1
<1>7. \A k \in 1..Len(l \o m) : (l \o m)[k].val \in Nat
  BY <1>1
<1> QED
  BY <1>1, <1>3, <1>4, <1>5, <1>6, <1>7 DEF Laid

\* A stream's segments lay out its body.
LEMMA StreamLaid ==
  ASSUME NEW os, StreamOK(os)
  PROVE  /\ Laid(SegType, os.lacing, os.body)
         /\ os.lacing \in Seq(SegType) /\ os.body \in Seq(Byte)
         /\ Len(os.lacing) \in Nat
         /\ \A i \in 1..Len(os.lacing) : os.lacing[i] \in SegType /\ os.lacing[i].val \in 0..Full
<1>1. os \in Stream /\ Bytes(os.lacing, Len(os.lacing)) = Len(os.body)
  BY DEF StreamOK
<1>2. os.lacing \in Seq(SegType) /\ os.body \in Seq(Byte)
  <2> HIDE DEF SegType
  <2> QED
    BY <1>1 DEF Stream
<1>3. Len(os.lacing) \in Nat /\ \A i \in 1..Len(os.lacing) : os.lacing[i] \in SegType
  <2> HIDE DEF SegType
  <2> QED
    BY <1>2
<1>4. \A x \in SegType : x.val \in 0..Full
  BY DEF SegType
<1>5. \A i \in 1..Len(os.lacing) : os.lacing[i].val \in 0..Full
  BY <1>3, <1>4
<1>6. \A i \in 1..Len(os.lacing) : os.lacing[i].val \in Nat
  BY <1>5, FramingAssumption
<1> QED
  BY <1>1, <1>2, <1>3, <1>5, <1>6 DEF Laid

\* The marks of a packet after those of the packets before it.
MarksOf(w, k) == [s \in 1..Segs(w, k) |-> Mark(k, s)]

LEMMA ScriptPut ==
  ASSUME NEW w, NEW sc, PacketsOK(w), IsScript(w, sc), NEW p, PacketsOK(Append(w, p))
  PROVE  LET v == Append(w, p)
             k == Len(w) + 1
             new == sc \o MarksOf(v, k)
         IN  /\ IsScript(v, new)
             /\ Len(v) = k /\ k \in Nat
             /\ Len(new) = Len(sc) + Segs(v, k) /\ Segs(v, k) \in Nat \ {0}
             /\ \A r \in 1..Len(sc) : new[r] = sc[r]
             /\ \A s \in 1..Segs(v, k) : new[Len(sc) + s] = Mark(k, s)
<1> DEFINE v == Append(w, p)
           k == Len(w) + 1
           S == Segs(v, k)
           m == MarksOf(v, k)
           new == sc \o m
<1>1. w \in Seq([data : Seq(Byte), granulepos : Int, eos : BOOLEAN])
  BY DEF PacketsOK
<1>2. Len(w) \in Nat /\ Len(v) = k /\ k \in 1..Len(v) /\ k \in Nat
  BY <1>1
<1>3. S \in Nat \ {0}
  BY <1>2, SegsOf
<1>4. sc \in Seq([p : Nat, s : Nat])
  BY DEF IsScript
<1>5. /\ Len(sc) \in Nat
      /\ \A r \in 1..Len(sc) : IsMark(w, sc[r]) /\ sc[r].p \in Nat /\ sc[r].s \in Nat
      /\ \A r \in 1..(Len(sc) - 1) : sc[r + 1] = NextMark(w, sc[r])
      /\ Len(sc) > 0 => sc[1] = Mark(1, 1)
      /\ Len(sc) = 0 <=> Len(w) = 0
      /\ Len(sc) > 0 => sc[Len(sc)] = Mark(Len(w), Segs(w, Len(w)))
  BY ScriptMarks
<1>6. m = [s \in 1..S |-> Mark(k, s)]
  BY DEF MarksOf
<1> HIDE DEF v, k, S, m
<1>7. /\ Len(m) = S /\ \A s \in 1..S : m[s] = Mark(k, s)
  BY <1>3, <1>6
<1>8. m \in Seq([p : Nat, s : Nat])
  <2>1. \A s \in 1..S : Mark(k, s) \in [p : Nat, s : Nat]
    BY <1>2 DEF Mark
  <2> QED
    BY <1>3, <1>6, <2>1
<1>9. /\ Len(new) = Len(sc) + S
      /\ \A r \in 1..Len(sc) : new[r] = sc[r]
      /\ \A s \in 1..S : new[Len(sc) + s] = Mark(k, s)
      /\ new \in Seq([p : Nat, s : Nat])
  <2> DEFINE M == [p : Nat, s : Nat]
  <2>1. sc \in Seq(M) /\ m \in Seq(M)
    BY <1>4, <1>8
  <2> HIDE DEF M
  <2>2. Len(new) = Len(sc) + S /\ new \in Seq(M)
    BY <1>7, <2>1
  <2>3. \A r \in 1..Len(sc) : new[r] = sc[r]
    BY <2>1
  <2>4. \A s \in 1..S : new[Len(sc) + s] = m[s]
    BY <1>3, <1>7, <2>1
  <2> QED
    BY <1>7, <2>2, <2>3, <2>4 DEF M
<1> HIDE DEF new
<1>10. \A r \in 1..Len(sc) : /\ sc[r].p \in 1..Len(w) /\ sc[r].s \in 1..Segs(w, sc[r].p)
                             /\ Segs(v, sc[r].p) = Segs(w, sc[r].p)
                             /\ NextMark(v, sc[r]) = NextMark(w, sc[r])
  <2> TAKE r \in 1..Len(sc)
  <2> DEFINE x == sc[r]
  <2>1. x.p \in 1..Len(w) /\ x.s \in 1..Segs(w, x.p)
    BY <1>5 DEF IsMark
  <2> HIDE DEF x
  <2>2. Segs(v, x.p) = Segs(w, x.p) /\ NextMark(v, x) = NextMark(w, x)
    BY <2>1, Extended DEF v
  <2> QED
    BY <2>1, <2>2 DEF x
<1>11. ASSUME NEW r \in 1..Len(new)
       PROVE  new[r].p \in 1..Len(v) /\ new[r].s \in 1..Segs(v, new[r].p)
  <2>1. CASE r <= Len(sc)
    <3>1. r \in 1..Len(sc)
      <4>1. Len(sc) \in Nat
        BY <1>5
      <4>2. Len(new) \in Nat
        BY <1>3, <1>9, <4>1
      <4> QED
        BY <2>1, <4>1, <4>2
    <3>5. new[r] = sc[r]
      BY <1>9, <3>1
    <3>2. new[r].p \in 1..Len(w) /\ new[r].s \in 1..Segs(w, new[r].p)
          /\ Segs(v, new[r].p) = Segs(w, new[r].p)
      BY <1>10, <3>1, <3>5
    <3>3. Len(v) = Len(w) + 1 /\ Len(w) \in Nat
      BY <1>2 DEF k
    <3>4. new[r].p \in 1..Len(v)
      BY <3>2, <3>3
    <3> QED
      BY <3>2, <3>4
  <2>2. CASE r > Len(sc)
    <3>1. r - Len(sc) \in 1..S /\ Len(sc) + (r - Len(sc)) = r
      BY <1>3, <1>5, <1>9, <2>2
    <3>2. new[r] = Mark(k, r - Len(sc))
      BY <1>9, <3>1
    <3> QED
      BY <1>2, <3>1, <3>2, MarkFields DEF S
  <2> QED
    BY <1>3, <1>5, <1>9, <2>1, <2>2
<1>12. new[1] = Mark(1, 1)
  <2>1. CASE Len(sc) > 0
    BY <1>5, <1>9, <2>1
  <2>2. CASE Len(sc) = 0
    <3>1. k = 1
      BY <1>5, <2>2 DEF k
    <3>2. new[Len(sc) + 1] = Mark(k, 1)
      BY <1>3, <1>9
    <3> QED
      BY <2>2, <3>1, <3>2
  <2> QED
    BY <1>5, <2>1, <2>2
<1>13. ASSUME NEW r \in 1..(Len(new) - 1)
       PROVE  new[r + 1] = NextMark(v, new[r])
  <2>1. CASE r < Len(sc)
    <3>1. r \in 1..Len(sc) /\ r + 1 \in 1..Len(sc) /\ r \in 1..(Len(sc) - 1)
      BY <1>5, <2>1
    <3> QED
      BY <1>5, <1>9, <1>10, <3>1
  <2>2. CASE r = Len(sc)
    <3>1. new[r] = Mark(Len(w), Segs(w, Len(w))) /\ r \in 1..Len(sc) /\ sc[r] = new[r]
      BY <1>5, <1>9, <2>2
    <3>2. new[r + 1] = Mark(k, 1)
      BY <1>3, <1>9, <2>2
    <3>3. NextMark(v, new[r]) = NextMark(w, new[r])
      BY <1>10, <3>1
    <3>4. NextMark(w, new[r]) = Mark(Len(w) + 1, 1)
      BY <3>1, MarkFields DEF NextMark, Ends
    <3> QED
      BY <3>2, <3>3, <3>4 DEF k
  <2>3. CASE r > Len(sc)
    <3>0. Len(new) = Len(sc) + S /\ S \in Nat /\ Len(sc) \in Nat /\ r \in 1..(Len(new) - 1)
      BY <1>3, <1>5, <1>9
    <3>1. /\ r - Len(sc) \in 1..S /\ (r - Len(sc)) + 1 \in 1..S /\ Len(sc) + (r - Len(sc)) = r
          /\ Len(sc) + ((r - Len(sc)) + 1) = r + 1 /\ r - Len(sc) # S
      BY <2>3, <3>0
    <3>2. new[r] = Mark(k, r - Len(sc)) /\ new[r + 1] = Mark(k, (r - Len(sc)) + 1)
      BY <1>9, <3>1
    <3>3. ~Ends(v, new[r])
      BY <3>1, <3>2, MarkFields DEF Ends, S
    <3> QED
      BY <3>2, <3>3, MarkFields DEF NextMark
  <2> QED
    BY <1>5, <2>1, <2>2, <2>3
<1>14. /\ Len(new) > 0 /\ new[Len(new)] = Mark(Len(v), Segs(v, Len(v)))
  <2>1. new[Len(sc) + S] = Mark(k, S)
    BY <1>3, <1>9
  <2> QED
    BY <1>2, <1>3, <1>5, <1>9, <2>1 DEF S
<1>15. v # <<>>
  BY <1>2
<1>16. IsScript(v, new)
  BY <1>9, <1>11, <1>12, <1>13, <1>14, <1>15 DEF IsScript
<1> QED
  BY <1>2, <1>3, <1>9, <1>16 DEF v, k, S, m, new

\* The packet Put makes.
NewPacket(w, n, eos) ==
  [data |-> [i \in 1..n |-> [p |-> Len(w) + 1, i |-> i]],
   granulepos |-> Len(w), eos |-> eos]

LEMMA PacketsPut ==
  ASSUME NEW w, PacketsOK(w), NEW n \in Nat, NEW eos \in BOOLEAN, Len(w) < MaxPackets,
         (n = 0 \/ eos) => Len(w) + 1 = MaxPackets
  PROVE  LET p == NewPacket(w, n, eos)
         IN  /\ PacketsOK(Append(w, p))
             /\ p.data \in Seq(Byte) /\ Len(p.data) = n
             /\ p.granulepos = Len(w) /\ p.eos = eos
             /\ Append(w, p)[Len(w) + 1] = p
<1> DEFINE p == NewPacket(w, n, eos)
           T == [data : Seq(Byte), granulepos : Int, eos : BOOLEAN]
           v == Append(w, p)
<1>1. w \in Seq(T) /\ Len(w) <= MaxPackets /\ \A k \in 1..Len(w) : PacketOK(w, k)
  BY DEF PacketsOK
<1>2. MaxPackets \in Nat
  BY StreamAssumption
<1>3. Len(w) \in Nat
  <2> HIDE DEF T
  <2> QED
    BY <1>1
<1>4. /\ p.data = [i \in 1..n |-> [p |-> Len(w) + 1, i |-> i]]
      /\ p.granulepos = Len(w) /\ p.eos = eos
      /\ p = [data |-> p.data, granulepos |-> p.granulepos, eos |-> p.eos]
  BY DEF NewPacket
<1>5. p.data \in Seq(Byte) /\ Len(p.data) = n
  <2>1. \A i \in 1..n : [p |-> Len(w) + 1, i |-> i] \in Byte
    BY <1>3 DEF Byte
  <2> HIDE DEF p
  <2>2. Len(p.data) = n
    BY <1>4
  <2> QED
    BY <1>4, <2>1, <2>2
<1>6. p \in T
  <2> HIDE DEF p
  <2> QED
    BY <1>3, <1>4, <1>5
<1> HIDE DEF p, T
<1>7. /\ v \in Seq(T) /\ Len(v) = Len(w) + 1
      /\ v[Len(w) + 1] = p /\ \A k \in 1..Len(w) : v[k] = w[k]
  BY <1>1, <1>6
<1> HIDE DEF v
<1>8. \A k \in 1..Len(w) : PacketOK(v, k)
  BY <1>1, <1>7 DEF PacketOK
<1>9. PacketOK(v, Len(w) + 1)
  <2>1. p.data = <<>> => n = 0
    BY <1>5
  <2>2. p.data = <<>> \/ p.eos => Len(w) + 1 = MaxPackets
    BY <1>4, <2>1
  <2> QED
    <3> DEFINE k == Len(w) + 1
    <3>1. v[k].data = p.data /\ v[k].granulepos = p.granulepos /\ v[k].eos = p.eos
      BY <1>7
    <3>2. v[k].data = [i \in 1..Len(v[k].data) |-> [p |-> k, i |-> i]]
      BY <1>4, <1>5, <3>1
    <3>3. v[k].data \in Seq(Byte) /\ v[k].granulepos = k - 1
      BY <1>3, <1>4, <1>5, <3>1
    <3>4. v[k].eos \in BOOLEAN
      BY <1>4, <3>1
    <3>5. v[k].data = <<>> \/ v[k].eos => k = MaxPackets
      BY <2>2, <3>1
    <3> QED
      BY <3>2, <3>3, <3>4, <3>5 DEF PacketOK
<1>10. \A k \in 1..Len(v) : PacketOK(v, k)
  BY <1>3, <1>7, <1>8, <1>9
<1>11. Len(v) <= MaxPackets
  BY <1>2, <1>3, <1>7
<1> QED
  BY <1>4, <1>5, <1>7, <1>10, <1>11 DEF PacketsOK, T, v, p

\* What was carried still is when a packet more is put in.
LEMMA CarriesPut ==
  ASSUME NEW w, PacketsOK(w), NEW p, NEW l, NEW b, NEW i, NEW x, x.p \in 1..Len(w)
  PROVE  Carries(Append(w, p), l, b, i, x) = Carries(w, l, b, i, x)
  BY Extended DEF Carries

LEMMA WriterPut ==
  ASSUME NEW w, NEW sc, NEW pp \in Seq(PageType), NEW os,
         PacketsOK(w), IsScript(w, sc), WriterOK(w, pp, os, sc),
         NEW n \in Nat, NEW eos \in BOOLEAN, Len(w) < MaxPackets,
         (n = 0 \/ eos) => Len(w) + 1 = MaxPackets
  PROVE  LET p == NewPacket(w, n, eos)
             v == Append(w, p)
         IN  WriterOK(v, pp, PacketIn(os, p.data, p.eos, p.granulepos),
                      sc \o MarksOf(v, Len(w) + 1))
<1> DEFINE p == NewPacket(w, n, eos)
           v == Append(w, p)
           k == Len(w) + 1
           new == sc \o MarksOf(v, k)
           l == Laced(n, p.granulepos, os.granulepos)
           o == PacketIn(os, p.data, p.eos, p.granulepos)
           C == Cut(pp, Len(pp))
<1>1. /\ PacketsOK(v) /\ p.data \in Seq(Byte) /\ Len(p.data) = n
      /\ p.granulepos = Len(w) /\ p.eos = eos /\ v[k] = p
  BY PacketsPut
<1>2. /\ IsScript(v, new) /\ Len(v) = k /\ k \in Nat
      /\ Len(new) = Len(sc) + Segs(v, k) /\ Segs(v, k) \in Nat \ {0}
      /\ \A r \in 1..Len(sc) : new[r] = sc[r]
      /\ \A s \in 1..Segs(v, k) : new[Len(sc) + s] = Mark(k, s)
  BY <1>1, ScriptPut
<1>3. /\ StreamOK(os) /\ os.packet = 0 /\ os.pageno = Len(pp) /\ os.bos = (pp # <<>>)
      /\ os.eos = TRUE => AtEnd(w)
      /\ Len(sc) = C + Len(os.lacing)
      /\ \A i \in 1..Len(os.lacing) : WrittenOK(w, os, i, sc[C + i])
  BY DEF WriterOK
<1>4. os \in Stream /\ os.granulepos \in Int
  BY <1>3 DEF StreamOK, Stream
<1>5. /\ Laid(SegType, os.lacing, os.body)
      /\ os.lacing \in Seq(SegType) /\ os.body \in Seq(Byte) /\ Len(os.lacing) \in Nat
  BY <1>3, StreamLaid
<1>6. k \in 1..Len(v) /\ v[k].data = p.data /\ p.granulepos \in Int
  BY <1>1, <1>2
<1>7. /\ Laid(SegType, l, p.data) /\ Len(l) = Segs(v, k)
      /\ \A s \in 1..Segs(v, k) :
           /\ Carries(v, l, p.data, s, Mark(k, s))
           /\ l[s].first = (s = 1)
           /\ s = Segs(v, k) => l[s].granule = p.granulepos
  <2>1. l = Laced(Len(v[k].data), p.granulepos, os.granulepos) /\ p.data = v[k].data
    BY <1>1, <1>6
  <2>2. PacketsOK(v) /\ k \in 1..Len(v) /\ p.granulepos \in Int /\ os.granulepos \in Int
    BY <1>1, <1>4, <1>6
  <2> HIDE DEF p, v, k, l
  <2>3. LacedOK(v, k, p.granulepos, Laced(Len(v[k].data), p.granulepos, os.granulepos))
    BY <2>2, LacedMarks
  <2> QED
    BY <2>1, <2>3 DEF LacedOK
<1>8. /\ o.body = os.body \o p.data /\ o.lacing = os.lacing \o l
      /\ o.packet = os.packet /\ o.bos = os.bos /\ o.eos = (os.eos \/ eos)
      /\ o.pageno = os.pageno
      /\ o = [body |-> o.body, lacing |-> o.lacing, packet |-> o.packet, bos |-> o.bos,
              eos |-> o.eos, pageno |-> o.pageno, packetno |-> os.packetno + 1,
              granulepos |-> p.granulepos, serialno |-> os.serialno]
  <2>1. os = [body |-> os.body, lacing |-> os.lacing, packet |-> os.packet, bos |-> os.bos,
              eos |-> os.eos, pageno |-> os.pageno, packetno |-> os.packetno,
              granulepos |-> os.granulepos, serialno |-> os.serialno]
    BY <1>4 DEF Stream
  <2>2. o = [os EXCEPT !.body = os.body \o p.data, !.lacing = os.lacing \o l,
                       !.granulepos = p.granulepos, !.packetno = os.packetno + 1,
                       !.eos = os.eos \/ eos]
    <3> HIDE DEF p
    <3> QED
      BY <1>1 DEF PacketIn
  <2> HIDE DEF o, p, l
  <2> QED
    BY <2>1, <2>2
<1> HIDE DEF o, l, p, v, k, new
<1>9. Laid(SegType, o.lacing, o.body)
  BY <1>5, <1>7, <1>8, LaidBoth
<1>10. StreamOK(o)
  <2>1. /\ o.body \in Seq(Byte) /\ o.lacing \in Seq(SegType)
        /\ Bytes(o.lacing, Len(o.lacing)) = Len(o.body)
    BY <1>9 DEF Laid
  <2>2. /\ os.bos \in BOOLEAN /\ os.eos \in BOOLEAN /\ os.pageno \in Int
        /\ os.packetno + 1 \in Nat /\ os.serialno \in Nat
    BY <1>4 DEF Stream
  <2>3. o \in Stream
    <3>1. (os.eos \/ eos) \in BOOLEAN
      BY <2>2
    <3>2. /\ o.packet \in Nat /\ o.bos \in BOOLEAN /\ o.eos \in BOOLEAN /\ o.pageno \in Int
      BY <1>3, <1>8, <2>2, <3>1
    <3>3. p.granulepos \in Int
      BY <1>6
    <3> HIDE DEF SegType
    <3>4. [body |-> o.body, lacing |-> o.lacing, packet |-> o.packet, bos |-> o.bos,
           eos |-> o.eos, pageno |-> o.pageno, packetno |-> os.packetno + 1,
           granulepos |-> p.granulepos, serialno |-> os.serialno] \in Stream
      BY <2>1, <2>2, <3>2, <3>3 DEF Stream
    <3> QED
      BY <1>8, <3>4
  <2>4. o.packet \in 0..Len(o.lacing)
    <3>1. Len(o.lacing) \in Nat
      BY <2>1
    <3> QED
      BY <1>3, <1>8, <3>1
  <2> QED
    BY <2>1, <2>3, <2>4 DEF StreamOK
<1>11. Len(sc) \in Nat /\ C \in Nat
  BY CutSteps, ScriptMarks
<1> HIDE DEF C
<1>19. l \in Seq(SegType) /\ p.data \in Seq(Byte)
  BY <1>7 DEF Laid
<1>12. Len(o.lacing) = Len(os.lacing) + Segs(v, k)
  <2> HIDE DEF SegType
  <2>1. Len(os.lacing \o l) = Len(os.lacing) + Len(l)
    BY <1>5, <1>19
  <2> QED
    BY <1>7, <1>8, <2>1
<1>13. Len(new) = C + Len(o.lacing)
  BY <1>2, <1>3, <1>5, <1>11, <1>12
<1>14. ASSUME NEW i \in 1..Len(os.lacing)
       PROVE  WrittenOK(v, o, i, new[C + i])
  <2>1. C + i \in 1..Len(sc) /\ new[C + i] = sc[C + i]
    BY <1>2, <1>3, <1>5, <1>11
  <2>2. WrittenOK(w, os, i, sc[C + i]) /\ sc[C + i].p \in 1..Len(w)
    BY <1>3, <2>1, ScriptMarks DEF IsMark
  <2>3. /\ o.lacing[i] = os.lacing[i]
        /\ Piece(o.lacing, o.body, i) = Piece(os.lacing, os.body, i)
    BY <1>5, <1>8, <1>19, PieceOfFirst
  <2>4. /\ SegVal(v, sc[C + i]) = SegVal(w, sc[C + i]) /\ Chunk(v, sc[C + i]) = Chunk(w, sc[C + i])
        /\ Ends(v, sc[C + i]) = Ends(w, sc[C + i])
    BY <2>2, Extended DEF v
  <2> QED
    BY <2>1, <2>2, <2>3, <2>4 DEF WrittenOK, Carries
<1>15. ASSUME NEW s \in 1..Segs(v, k)
       PROVE  WrittenOK(v, o, Len(os.lacing) + s, new[C + (Len(os.lacing) + s)])
  <2>1. new[C + (Len(os.lacing) + s)] = Mark(k, s)
    <3>1. C + (Len(os.lacing) + s) = Len(sc) + s
      BY <1>2, <1>3, <1>5, <1>11
    <3> QED
      BY <1>2, <3>1
  <2>2. /\ o.lacing[Len(os.lacing) + s] = l[s]
        /\ Piece(o.lacing, o.body, Len(os.lacing) + s) = Piece(l, p.data, s)
    <3>1. Laid(SegType, os.lacing, os.body) /\ Laid(SegType, l, p.data) /\ s \in 1..Len(l)
      BY <1>5, <1>7
    <3> HIDE DEF l, o, p, v, k, C, new
    <3>2. /\ (os.lacing \o l)[Len(os.lacing) + s] = l[s]
          /\ SamePiece(os.lacing \o l, os.body \o p.data, Len(os.lacing) + s, l, p.data, s)
      BY <3>1, PieceOfSecond
    <3> QED
      BY <1>8, <3>2 DEF SamePiece
  <2>3. /\ Carries(v, l, p.data, s, Mark(k, s))
        /\ l[s].first = (s = 1)
        /\ s = Segs(v, k) => l[s].granule = p.granulepos
    BY <1>7
  <2>4. p.granulepos = k - 1
    BY <1>1, <1>2 DEF k
  <2>5. Mark(k, s).p = k /\ Mark(k, s).s = s
    BY MarkFields
  <2> QED
    BY <2>1, <2>2, <2>3, <2>4, <2>5 DEF WrittenOK, Carries, Ends
<1>16. ASSUME NEW i \in 1..Len(o.lacing) PROVE WrittenOK(v, o, i, new[C + i])
  <2>1. CASE i <= Len(os.lacing)
    <3>1. i \in 1..Len(os.lacing)
      BY <1>2, <1>5, <1>12, <2>1
    <3> QED
      BY <1>14, <3>1
  <2>2. CASE ~(i <= Len(os.lacing))
    <3>1. i - Len(os.lacing) \in 1..Segs(v, k) /\ Len(os.lacing) + (i - Len(os.lacing)) = i
      BY <1>2, <1>5, <1>12, <2>2
    <3> QED
      BY <1>15, <3>1
  <2> QED
    BY <2>1, <2>2
<1>17. o.eos = TRUE => AtEnd(v)
  <2>1. os.eos = TRUE => FALSE
    <3> SUFFICES ASSUME os.eos = TRUE PROVE FALSE
      OBVIOUS
    <3>1. Len(w) = MaxPackets
      BY <1>3 DEF AtEnd
    <3> QED
      BY <1>11, <3>1, <1>2 DEF k
  <2>2. o.eos = TRUE => eos = TRUE
    BY <1>8, <2>1
  <2>3. eos = TRUE => k = MaxPackets
    BY DEF k
  <2>4. k > 0
    BY <1>2, <1>6
  <2> QED
    BY <1>1, <1>2, <2>2, <2>3, <2>4 DEF AtEnd
<1>18. WriterOK(v, pp, o, new)
  BY <1>3, <1>8, <1>10, <1>13, <1>16, <1>17 DEF WriterOK, C
<1> QED
  BY <1>18 DEF o, p, v, k, new

LEMMA PagesPut ==
  ASSUME NEW w, NEW sc, NEW pp, PacketsOK(w), IsScript(w, sc), PagesOK(w, pp, sc),
         Len(w) < MaxPackets, NEW p, PacketsOK(Append(w, p))
  PROVE  PagesOK(Append(w, p), pp, sc \o MarksOf(Append(w, p), Len(w) + 1))
<1> DEFINE v == Append(w, p)
           new == sc \o MarksOf(v, Len(w) + 1)
<1>1. /\ Len(new) = Len(sc) + Segs(v, Len(w) + 1) /\ Segs(v, Len(w) + 1) \in Nat
      /\ \A r \in 1..Len(sc) : new[r] = sc[r]
  BY ScriptPut
<1>2. pp \in Seq(PageType) /\ \A j \in 1..Len(pp) : PageOK(w, pp, sc, j)
  BY DEF PagesOK
<1>3. /\ \A j \in 1..Len(pp) : /\ Cut(pp, j) = Cut(pp, j - 1) + Len(pp[j].segments)
                               /\ Len(pp[j].segments) \in Nat
      /\ \A j \in 0..Len(pp) : Cut(pp, j) \in Nat
      /\ Len(pp) \in Nat
  BY <1>2, CutSteps
<1>4. Len(sc) \in Nat /\ \A r \in 1..Len(sc) : sc[r].p \in 1..Len(w)
  BY ScriptMarks DEF IsMark
<1>9. Len(w) # MaxPackets
  <2>1. Len(w) \in Nat
    BY DEF PacketsOK
  <2> QED
    BY <2>1
<1> HIDE DEF new
<1>5. ASSUME NEW j \in 1..Len(pp) PROVE PageOK(v, pp, new, j)
  <2> DEFINE at(i) == sc[Cut(pp, j - 1) + i]
             now(i) == new[Cut(pp, j - 1) + i]
             n == Len(pp[j].segments)
  <2>1. PageOK(w, pp, sc, j)
    BY <1>2
  <2>2. Cut(pp, j) <= Len(sc) /\ n > 0
    BY <2>1 DEF PageOK
  <2>3. /\ Cut(pp, j - 1) \in Nat /\ n \in Nat /\ Cut(pp, j) = Cut(pp, j - 1) + n
    BY <1>3
  <2>4. ASSUME NEW i \in 1..n
        PROVE  /\ now(i) = at(i)
               /\ Carries(v, LacingOf(pp[j]), pp[j].body, i, at(i)) = Carries(w, LacingOf(pp[j]), pp[j].body, i, at(i))
               /\ Ends(v, at(i)) = Ends(w, at(i))
    <3>1. Cut(pp, j - 1) + i \in 1..Len(sc)
      BY <1>4, <2>2, <2>3
    <3>2. now(i) = at(i) /\ at(i).p \in 1..Len(w)
      BY <1>1, <1>4, <3>1
    <3> QED
      BY <3>2, CarriesPut, Extended
  <2>5. now(1) = at(1)
    BY <2>2, <2>3, <2>4
  <2>6. pp[j].eos # TRUE
    BY <1>9, <2>1 DEF PageOK, AtEnd
  <2>7. Cut(pp, j) <= Len(new)
    BY <1>1, <1>4, <2>2, <2>3
  <2>8. \A i \in 1..n : \A k \in (i + 1)..n : k \in 1..n
    BY <2>3
  <2>9. /\ pp[j] \in PageType /\ pp[j].pageno = j - 1 /\ n > 0
        /\ Bytes(LacingOf(pp[j]), n) = Len(pp[j].body)
        /\ \A i \in 1..n : Carries(w, LacingOf(pp[j]), pp[j].body, i, at(i))
        /\ pp[j].continued = (at(1).s # 1)
        /\ pp[j].bos = (j = 1)
        /\ \A i \in 1..n :
             /\ Ends(w, at(i))
             /\ \A k \in (i + 1)..n : ~Ends(w, at(k))
             => pp[j].granulepos = at(i).p - 1
    BY <2>1 DEF PageOK
  <2> HIDE DEF at, n
  <2>10. \A i \in 1..n : Carries(v, LacingOf(pp[j]), pp[j].body, i, now(i))
    BY <2>4, <2>9
  <2>11. \A i \in 1..n :
             /\ Ends(v, now(i))
             /\ \A k \in (i + 1)..n : ~Ends(v, now(k))
             => pp[j].granulepos = now(i).p - 1
    BY <2>4, <2>8, <2>9
  <2>12. pp[j].continued = (now(1).s # 1)
    BY <2>5, <2>9
  <2> QED
    BY <2>6, <2>7, <2>9, <2>10, <2>11, <2>12 DEF PageOK, n
<1> QED
  BY <1>2, <1>5 DEF PagesOK, new

-----------------------------------------------------------------------------
(* A page comes out.                                                       *)

\* The segments from the n-th to the m-th have values.
Valued(l, n, m) ==
  /\ n \in Nat /\ m \in Nat /\ n <= m
  /\ \A i \in n..m : l[i].val \in 0..Full

\* The first segment that ends a packet, or the last if none does.
LEMMA PacketEndIs ==
  ASSUME NEW l, NEW from, NEW to, Valued(l, from, to)
  PROVE  /\ PacketEnd(l, from, to) \in from..to
         /\ \A j \in from..(PacketEnd(l, from, to) - 1) : l[j].val = Full
         /\ \/ l[PacketEnd(l, from, to)].val < Full
            \/ PacketEnd(l, from, to) = to /\ \A j \in from..to : l[j].val = Full
<1>1. /\ from \in Nat /\ to \in Nat /\ from <= to
      /\ \A i \in from..to : l[i].val \in 0..Full
  BY DEF Valued
<1>2. Full \in Nat
  BY FramingAssumption
<1> DEFINE T == {i \in from..to : l[i].val < Full}
           Is(i) == l[i].val < Full /\ \A j \in from..(i - 1) : l[j].val = Full
<1>3. CASE T = {}
  <2>1. PacketEnd(l, from, to) = to
    BY <1>3 DEF PacketEnd
  <2>2. \A j \in from..to : l[j].val = Full
    BY <1>1, <1>2, <1>3
  <2> QED
    BY <1>1, <2>1, <2>2
<1>4. CASE T # {}
  <2>1. T \subseteq Nat
    BY <1>1
  <2>2. PICK i \in T : \A j \in T : i <= j
    <3> HIDE DEF T
    <3> QED
      BY <1>4, <2>1, LeastNat
  <2>3. Is(i) /\ i \in from..to
    <3>1. i \in from..to /\ l[i].val < Full
      BY <2>2
    <3>2. ASSUME NEW j \in from..(i - 1) PROVE l[j].val = Full
      <4>1. j \in from..to /\ ~(i <= j)
        BY <1>1, <3>1
      <4>2. j \notin T
        BY <2>2, <4>1
      <4> QED
        BY <1>1, <1>2, <4>1, <4>2
    <3> QED
      BY <3>1, <3>2
  <2>4. PacketEnd(l, from, to) = CHOOSE k \in from..to : Is(k)
    BY <1>4 DEF PacketEnd
  <2>5. Is(PacketEnd(l, from, to)) /\ PacketEnd(l, from, to) \in from..to
    <3> HIDE DEF Is
    <3> QED
      BY <2>3, <2>4
  <2> QED
    BY <2>5
<1> QED
  BY <1>3, <1>4

\* A page takes at least one segment, and the first page stops at the end of
\* the header packet.
LEMMA PageValsIn ==
  ASSUME NEW os, StreamOK(os), os.lacing # <<>>, NEW nfill
  PROVE  /\ PageVals(os, nfill) \in 1..Len(os.lacing)
         /\ ~os.bos => \A j \in 1..(PageVals(os, nfill) - 1) : os.lacing[j].val = Full
<1>1. /\ os.lacing \in Seq(SegType) /\ Len(os.lacing) \in Nat
      /\ \A i \in 1..Len(os.lacing) : os.lacing[i].val \in 0..Full
  BY StreamLaid
<1>2. Len(os.lacing) > 0
  <2> HIDE DEF SegType
  <2> QED
    BY <1>1
<1>3. MaxVals \in Nat \ {0} /\ MinDone \in Nat \ {0}
  BY FramingAssumption
<1> DEFINE most == IF Len(os.lacing) > MaxVals THEN MaxVals ELSE Len(os.lacing)
           ends == {n \in NominalEnd(os.lacing, nfill) : n < most}
<1>4. most \in 1..Len(os.lacing)
  BY <1>1, <1>2, <1>3
<1>5. PageVals(os, nfill) =
        IF ~os.bos THEN PacketEnd(os.lacing, 1, most)
        ELSE IF ends = {} THEN most
        ELSE CHOOSE n \in ends : \A m \in ends : n <= m
  BY DEF PageVals
<1> HIDE DEF most
<1>6. CASE ~os.bos
  <2>1. Valued(os.lacing, 1, most)
    BY <1>1, <1>4 DEF Valued
  <2>2. /\ PacketEnd(os.lacing, 1, most) \in 1..most
        /\ \A j \in 1..(PacketEnd(os.lacing, 1, most) - 1) : os.lacing[j].val = Full
    BY <2>1, PacketEndIs
  <2>3. PageVals(os, nfill) = PacketEnd(os.lacing, 1, most)
    BY <1>5, <1>6
  <2> QED
    BY <1>1, <1>4, <2>2, <2>3
<1>7. CASE os.bos /\ ends = {}
  BY <1>4, <1>5, <1>7
<1>8. CASE os.bos /\ ends # {}
  <2>1. \A n \in ends : n \in 1..Len(os.lacing)
    <3> SUFFICES ASSUME NEW n \in ends PROVE n \in 1..Len(os.lacing)
      OBVIOUS
    <3>1. n \in 0..(Len(os.lacing) - 1) /\ JustDone(os.lacing, n) >= MinDone
      BY DEF NominalEnd
    <3>2. n # 0
      <4> SUFFICES ASSUME n = 0 PROVE FALSE
        OBVIOUS
      <4>1. JustDone(os.lacing, 0) = 0
        BY DEF JustDone
      <4> QED
        BY <1>3, <3>1, <4>1
    <3> QED
      BY <1>1, <3>1, <3>2
  <2>2. ends \subseteq Nat
    BY <2>1
  <2> HIDE DEF ends
  <2>3. \E n \in ends : \A m \in ends : n <= m
    BY <1>8, <2>2, LeastNat
  <2>4. PageVals(os, nfill) \in ends
    BY <1>5, <1>8, <2>3
  <2> QED
    BY <1>8, <2>1, <2>4
<1> QED
  BY <1>6, <1>7, <1>8

\* What WriterOK says of places and segments.
LEMMA WriterPlaces ==
  ASSUME NEW w, NEW sc, NEW pp \in Seq(PageType), NEW os,
         PacketsOK(w), IsScript(w, sc), WriterOK(w, pp, os, sc)
  PROVE  LET C == Cut(pp, Len(pp))
         IN  /\ C \in Nat /\ Len(sc) \in Nat /\ Len(os.lacing) \in Nat
             /\ Len(sc) = C + Len(os.lacing)
             /\ \A i \in 1..Len(os.lacing) :
                  /\ C + i \in 1..Len(sc)
                  /\ WrittenOK(w, os, i, sc[C + i])
                  /\ IsMark(w, sc[C + i])
                  /\ os.lacing[i].val \in 0..Full
                  /\ os.lacing[i].val < Full <=> Ends(w, sc[C + i])
                  /\ os.lacing[i].val = Full <=> ~Ends(w, sc[C + i])
<1> DEFINE C == Cut(pp, Len(pp))
<1>1. /\ StreamOK(os) /\ Len(sc) = C + Len(os.lacing)
      /\ \A i \in 1..Len(os.lacing) : WrittenOK(w, os, i, sc[C + i])
  BY DEF WriterOK
<1>2. C \in Nat
  BY CutSteps
<1>3. Len(sc) \in Nat /\ \A r \in 1..Len(sc) : IsMark(w, sc[r])
  BY ScriptMarks
<1>4. Len(os.lacing) \in Nat /\ \A i \in 1..Len(os.lacing) : os.lacing[i].val \in 0..Full
  BY <1>1, StreamLaid
<1> HIDE DEF C
<1>5. ASSUME NEW i \in 1..Len(os.lacing)
      PROVE  /\ C + i \in 1..Len(sc)
             /\ IsMark(w, sc[C + i])
             /\ os.lacing[i].val < Full <=> Ends(w, sc[C + i])
             /\ os.lacing[i].val = Full <=> ~Ends(w, sc[C + i])
  <2>1. C + i \in 1..Len(sc)
    BY <1>1, <1>2, <1>3, <1>4
  <2>2. os.lacing[i].val = SegVal(w, sc[C + i])
    BY <1>1 DEF WrittenOK, Carries
  <2>3. IsMark(w, sc[C + i])
    BY <1>3, <2>1
  <2> QED
    BY <2>1, <2>2, <2>3, SegValOf
<1> QED
  BY <1>1, <1>2, <1>3, <1>4, <1>5 DEF C

\* The granule position of a page is the one of the last packet it completes.
LEMMA GranuleOfPage ==
  ASSUME NEW w, NEW sc, NEW pp \in Seq(PageType), NEW os,
         PacketsOK(w), IsScript(w, sc), WriterOK(w, pp, os, sc),
         os.lacing # <<>>, NEW nfill,
         NEW i \in 1..PageVals(os, nfill),
         Ends(w, sc[Cut(pp, Len(pp)) + i]),
         \A k \in (i + 1)..PageVals(os, nfill) : ~Ends(w, sc[Cut(pp, Len(pp)) + k])
  PROVE  PageGranule(os, PageVals(os, nfill)) = sc[Cut(pp, Len(pp)) + i].p - 1
<1> DEFINE C == Cut(pp, Len(pp))
           vals == PageVals(os, nfill)
           ends == {j \in 1..vals : os.lacing[j].val < Full}
<1>1. /\ C \in Nat /\ Len(sc) \in Nat /\ Len(os.lacing) \in Nat
      /\ Len(sc) = C + Len(os.lacing)
      /\ \A j \in 1..Len(os.lacing) :
           /\ C + j \in 1..Len(sc)
           /\ WrittenOK(w, os, j, sc[C + j])
           /\ os.lacing[j].val < Full <=> Ends(w, sc[C + j])
           /\ os.lacing[j].val = Full <=> ~Ends(w, sc[C + j])
  BY WriterPlaces
<1>2. StreamOK(os) /\ os.bos = (pp # <<>>)
  BY DEF WriterOK
<1>3. /\ vals \in 1..Len(os.lacing)
      /\ ~os.bos => \A j \in 1..(vals - 1) : os.lacing[j].val = Full
  BY <1>2, PageValsIn
<1>4. PageGranule(os, vals) =
        IF ~os.bos THEN 0
        ELSE IF ends = {} THEN -1
        ELSE os.lacing[CHOOSE j \in ends : \A k \in ends : k <= j].granule
  BY DEF PageGranule
<1> HIDE DEF C, vals
<1>5. i \in 1..vals /\ i \in 1..Len(os.lacing) /\ Ends(w, sc[C + i])
      /\ \A k \in (i + 1)..vals : ~Ends(w, sc[C + k])
  BY <1>3 DEF C, vals
<1>6. i \in ends /\ \A k \in ends : k <= i
  <2>1. i \in ends
    BY <1>1, <1>5
  <2>2. ASSUME NEW k \in ends, ~(k <= i) PROVE FALSE
    <3>1. k \in (i + 1)..vals /\ k \in 1..Len(os.lacing) /\ os.lacing[k].val < Full
      BY <1>3, <1>5, <2>2
    <3> QED
      BY <1>1, <1>5, <3>1
  <2> QED
    BY <2>1, <2>2
<1>7. CASE os.bos
  <2>1. (CHOOSE j \in ends : \A k \in ends : k <= j) = i
    <3>1. ASSUME NEW j \in ends, \A k \in ends : k <= j PROVE j = i
      <4>1. i <= j /\ j <= i /\ j \in Int /\ i \in Int
        BY <1>3, <1>5, <1>6, <3>1
      <4> QED
        BY <4>1
    <3> HIDE DEF ends
    <3> QED
      BY <1>6, <3>1
  <2>2. PageGranule(os, vals) = os.lacing[i].granule
    BY <1>4, <1>6, <1>7, <2>1
  <2>3. os.lacing[i].granule = sc[C + i].p - 1
    BY <1>1, <1>5 DEF WrittenOK
  <2> QED
    BY <2>2, <2>3 DEF C, vals
<1>8. CASE ~os.bos
  <2>1. pp = <<>>
    BY <1>2, <1>8
  <2>2. C = 0
    <3>1. Len(pp) = 0
      BY <2>1
    <3> QED
      BY <3>1, CutSteps DEF C
  <2>3. i = vals
    <3> SUFFICES ASSUME i # vals PROVE FALSE
      OBVIOUS
    <3>1. i \in 1..(vals - 1)
      BY <1>3, <1>5
    <3>2. os.lacing[i].val = Full
      BY <1>3, <1>8, <3>1
    <3> QED
      BY <1>1, <1>5, <3>2
  <2> DEFINE T == {r \in 1..vals : sc[r].p # 1}
  <2>4. T = {}
    <3> SUFFICES ASSUME T # {} PROVE FALSE
      OBVIOUS
    <3>1. T \subseteq Nat
      OBVIOUS
    <3>2. PICK r \in T : \A q \in T : r <= q
      <4> HIDE DEF T
      <4> QED
        BY <3>1, LeastNat
    <3>3. r \in 1..Len(sc) /\ r \in 1..vals /\ sc[r].p # 1
      BY <1>1, <1>3, <2>2, <3>2
    <3>4. r # 1
      <4>1. Len(sc) > 0
        BY <1>1, <3>3
      <4>2. sc[1] = Mark(1, 1)
        BY <4>1, ScriptMarks
      <4> QED
        BY <3>3, <4>2, MarkFields
    <3>5. r - 1 \in 1..vals /\ r - 1 \notin T /\ r - 1 \in 1..(Len(sc) - 1) /\ (r - 1) + 1 = r
          /\ r - 1 \in 1..(vals - 1) /\ r - 1 \in 1..Len(os.lacing) /\ C + (r - 1) = r - 1
      BY <1>1, <1>3, <2>2, <3>2, <3>3, <3>4
    <3>6. sc[r - 1].p = 1
      BY <3>5
    <3>7. os.lacing[r - 1].val = Full
      BY <1>3, <1>8, <3>5
    <3>8. ~Ends(w, sc[r - 1])
      BY <1>1, <3>5, <3>7
    <3>9. sc[r] = NextMark(w, sc[r - 1])
      BY <3>5, ScriptMarks
    <3> QED
      BY <3>3, <3>6, <3>8, <3>9, MarkFields DEF NextMark
  <2>5. C + i = vals /\ vals \in 1..vals
    BY <1>3, <2>2, <2>3
  <2>6. sc[C + i].p = 1
    BY <2>4, <2>5
  <2>7. PageGranule(os, vals) = 0
    BY <1>4, <1>8
  <2> QED
    BY <2>6, <2>7 DEF C, vals
<1> QED
  BY <1>7, <1>8

LEMMA PageEmitted ==
  ASSUME NEW w, NEW sc, NEW pp \in Seq(PageType), NEW os,
         PacketsOK(w), IsScript(w, sc), WriterOK(w, pp, os, sc),
         os.lacing # <<>>, NEW nfill
  PROVE  LET page == PageOut(os, nfill)
         IN  /\ page \in PageType
             /\ PageOK(w, Append(pp, page), sc, Len(pp) + 1)
             /\ page.pageno = Len(pp)
             /\ Len(page.segments) = PageVals(os, nfill)
             /\ Cut(Append(pp, page), Len(pp) + 1) = Cut(pp, Len(pp)) + PageVals(os, nfill)
<1> DEFINE C == Cut(pp, Len(pp))
           vals == PageVals(os, nfill)
           page == PageOut(os, nfill)
           qq == Append(pp, page)
           l == LacingOf(page)
           at(i) == sc[Cut(qq, (Len(pp) + 1) - 1) + i]
<1>1. /\ C \in Nat /\ Len(sc) \in Nat /\ Len(os.lacing) \in Nat
      /\ Len(sc) = C + Len(os.lacing)
      /\ \A j \in 1..Len(os.lacing) :
           /\ C + j \in 1..Len(sc)
           /\ WrittenOK(w, os, j, sc[C + j])
           /\ os.lacing[j].val \in 0..Full
  BY WriterPlaces
<1>2. /\ StreamOK(os) /\ os.bos = (pp # <<>>) /\ os.pageno = Len(pp)
      /\ os.eos = TRUE => AtEnd(w)
  BY DEF WriterOK
<1>3. vals \in 1..Len(os.lacing) /\ vals \in Nat
  <2>1. vals \in 1..Len(os.lacing)
    BY <1>2, PageValsIn
  <2> HIDE DEF vals
  <2> QED
    BY <1>1, <2>1
<1>4. page = PageOf(os, vals)
  BY DEF PageOut
<1>5. /\ Laid(SegType, os.lacing, os.body)
      /\ os.lacing \in Seq(SegType) /\ os.body \in Seq(Byte)
      /\ \A j \in 1..Len(os.lacing) : os.lacing[j] \in SegType
  BY <1>2, StreamLaid
<1>6. os.eos \in BOOLEAN /\ os.bos \in BOOLEAN /\ os.serialno \in Nat
  BY <1>2 DEF StreamOK, Stream
<1>7. Len(pp) \in Nat
  OBVIOUS
<1> HIDE DEF C, vals, page, SegType
<1>8. /\ page.continued = (~os.lacing[1].first)
      /\ page.bos = (~os.bos)
      /\ page.eos = (os.eos /\ Len(os.lacing) = vals)
      /\ page.granulepos = PageGranule(os, vals)
      /\ page.serialno = os.serialno
      /\ page.pageno = Len(pp)
      /\ page.segments = [i \in 1..vals |-> os.lacing[i].val]
      /\ page.body = SubSeq(os.body, 1, Bytes(os.lacing, vals))
  <2>1. /\ page.continued = (~os.lacing[1].first)
        /\ page.bos = (~os.bos)
        /\ page.eos = (os.eos /\ Len(os.lacing) = vals)
    BY <1>4, Zenon DEF PageOf
  <2>2. page.pageno = (IF os.pageno = -1 THEN 0 ELSE os.pageno)
    BY <1>4 DEF PageOf
  <2>3. page.pageno = Len(pp)
    BY <1>2, <1>7, <2>2
  <2>4. /\ page.granulepos = PageGranule(os, vals)
        /\ page.serialno = os.serialno
        /\ page.segments = [i \in 1..vals |-> os.lacing[i].val]
        /\ page.body = SubSeq(os.body, 1, Bytes(os.lacing, vals))
    BY <1>4, Zenon DEF PageOf
  <2> QED
    BY <2>1, <2>3, <2>4
<1>9. page = [continued |-> page.continued, bos |-> page.bos, eos |-> page.eos,
              granulepos |-> page.granulepos, serialno |-> page.serialno,
              pageno |-> page.pageno, segments |-> page.segments, body |-> page.body]
  BY <1>4 DEF PageOf
<1>10. Len(page.segments) = vals /\ page.segments \in Seq(0..Full)
       /\ \A i \in 1..vals : page.segments[i] = os.lacing[i].val
  <2>1. \A i \in 1..vals : os.lacing[i].val \in 0..Full
    BY <1>1, <1>3
  <2>2. page.segments = [i \in 1..vals |-> os.lacing[i].val]
    BY <1>8
  <2> QED
    BY <1>3, <2>1, <2>2
<1>11. PageGranule(os, vals) \in Int
  <2> DEFINE ends == {j \in 1..vals : os.lacing[j].val < Full}
  <2>1. PageGranule(os, vals) =
          IF ~os.bos THEN 0
          ELSE IF ends = {} THEN -1
          ELSE os.lacing[CHOOSE j \in ends : \A k \in ends : k <= j].granule
    BY DEF PageGranule
  <2>2. \A j \in ends : os.lacing[j].granule \in Int
    <3> SUFFICES ASSUME NEW j \in ends PROVE os.lacing[j].granule \in Int
      OBVIOUS
    <3>1. j \in 1..Len(os.lacing)
      BY <1>1, <1>3
    <3>2. os.lacing[j] \in SegType
      BY <1>5, <3>1
    <3> QED
      BY <3>2 DEF SegType
  <2>3. ends # {} => (CHOOSE j \in ends : \A k \in ends : k <= j) \in ends
    <3> SUFFICES ASSUME ends # {} PROVE \E j \in ends : \A k \in ends : k <= j
      OBVIOUS
    <3>1. {vals - j : j \in ends} \subseteq Nat
      BY <1>3
    <3>2. {vals - j : j \in ends} # {}
      OBVIOUS
    <3> HIDE DEF ends
    <3>3. PICK n \in {vals - j : j \in ends} : \A m \in {vals - j : j \in ends} : n <= m
      BY <3>1, <3>2, LeastNat
    <3>4. PICK j \in ends : n = vals - j
      BY <3>3
    <3>5. \A k \in ends : vals - j <= vals - k
      BY <3>3, <3>4
    <3>6. \A k \in ends : k \in Int
      BY DEF ends
    <3> QED
      BY <1>3, <3>4, <3>5, <3>6
  <2> HIDE DEF ends
  <2> QED
    BY <2>1, <2>2, <2>3
<1>12. \A i \in 1..vals : l[i].val = os.lacing[i].val
  BY <1>10 DEF LacingOf
<1>13. /\ Bytes(l, vals) = Bytes(os.lacing, vals)
       /\ page.body \in Seq(Byte)
       /\ Len(page.body) = Bytes(os.lacing, vals)
       /\ \A i \in 1..vals : Piece(l, page.body, i) = Piece(os.lacing, os.body, i)
  <2>1. vals \in 0..Len(os.lacing)
    BY <1>1, <1>3
  <2> DEFINE b == SubSeq(os.body, 1, Bytes(os.lacing, vals))
  <2> HIDE DEF l
  <2>2. /\ Bytes(l, vals) = Bytes(os.lacing, vals)
        /\ b \in Seq(Byte)
        /\ Len(b) = Bytes(os.lacing, vals)
        /\ \A i \in 1..vals : Piece(l, b, i) = Piece(os.lacing, os.body, i)
    <3>1. SameVals(l, os.lacing, 0, vals)
      BY <1>12 DEF SameVals
    <3> QED
      BY <1>5, <2>1, <3>1, PieceOfPrefix
  <2>3. page.body = b
    BY <1>8
  <2> QED
    BY <2>2, <2>3
<1>14. page \in PageType
  <2>1. page.continued \in BOOLEAN /\ page.bos \in BOOLEAN /\ page.eos \in BOOLEAN
    BY <1>8
  <2>2. page.granulepos \in Int /\ page.serialno \in Nat /\ page.pageno \in Nat
    BY <1>6, <1>7, <1>8, <1>11
  <2> QED
    BY <1>9, <1>10, <1>13, <2>1, <2>2 DEF PageType
<1> HIDE DEF l
<1>15. /\ Len(qq) = Len(pp) + 1 /\ qq[Len(pp) + 1] = page /\ qq \in Seq(PageType)
       /\ Cut(qq, Len(pp)) = C
  <2>1. Cut(qq, Len(pp)) = C
    BY <1>7, CutOfMore DEF C
  <2> HIDE DEF PageType
  <2> QED
    BY <1>14, <2>1
<1> HIDE DEF qq
<1>16. Cut(qq, Len(pp) + 1) = C + vals
  <2>1. Len(pp) + 1 \in 1..Len(qq) /\ (Len(pp) + 1) - 1 = Len(pp)
    BY <1>7, <1>15
  <2>2. Cut(qq, Len(pp) + 1) = Cut(qq, (Len(pp) + 1) - 1) + Len(qq[Len(pp) + 1].segments)
    BY <1>15, <2>1, CutSteps
  <2> QED
    BY <1>10, <1>15, <2>1, <2>2
<1>17. \A i \in 1..vals : at(i) = sc[C + i]
  BY <1>7, <1>15
<1> HIDE DEF at
<1>18. \A i \in 1..vals : Carries(w, l, page.body, i, at(i))
  <2> TAKE i \in 1..vals
  <2>1. i \in 1..Len(os.lacing)
    BY <1>1, <1>3
  <2>2. Carries(w, os.lacing, os.body, i, sc[C + i])
    BY <1>1, <2>1 DEF WrittenOK
  <2> QED
    BY <1>12, <1>13, <1>17, <2>2 DEF Carries
<1>19. page.continued = (at(1).s # 1)
  <2>1. 1 \in 1..vals /\ 1 \in 1..Len(os.lacing)
    BY <1>1, <1>3
  <2>2. os.lacing[1].first = (at(1).s = 1)
    BY <1>1, <1>17, <2>1 DEF WrittenOK
  <2> QED
    BY <1>8, <2>2
<1>20. page.bos = (Len(pp) + 1 = 1)
  <2>1. pp = <<>> <=> Len(pp) = 0
    <3> HIDE DEF PageType
    <3> QED
      OBVIOUS
  <2>2. CASE pp = <<>>
    <3>1. os.bos = FALSE /\ Len(pp) = 0
      BY <1>2, <2>1, <2>2
    <3> QED
      BY <1>8, <3>1
  <2>3. CASE pp # <<>>
    <3>1. os.bos = TRUE /\ Len(pp) # 0
      BY <1>2, <2>1, <2>3
    <3>2. page.bos = FALSE
      BY <1>8, <3>1
    <3>3. (Len(pp) + 1 = 1) = FALSE
      BY <1>7, <3>1
    <3> QED
      BY <3>2, <3>3
  <2> QED
    BY <2>2, <2>3
<1>21. page.eos = TRUE => AtEnd(w) /\ Cut(qq, Len(pp) + 1) = Len(sc)
  BY <1>1, <1>2, <1>6, <1>8, <1>16
<1>22. \A i \in 1..vals :
         /\ Ends(w, at(i))
         /\ \A k \in (i + 1)..vals : ~Ends(w, at(k))
         => page.granulepos = at(i).p - 1
  <2> SUFFICES ASSUME NEW i \in 1..vals, Ends(w, at(i)),
                      \A k \in (i + 1)..vals : ~Ends(w, at(k))
               PROVE  page.granulepos = at(i).p - 1
    OBVIOUS
  <2>1. \A k \in (i + 1)..vals : ~Ends(w, sc[C + k])
    <3> TAKE k \in (i + 1)..vals
    <3>1. k \in 1..vals
      BY <1>3
    <3> QED
      BY <1>17, <3>1
  <2>2. Ends(w, sc[C + i]) /\ at(i) = sc[C + i]
    BY <1>17
  <2>3. PageGranule(os, vals) = sc[C + i].p - 1
    BY <2>1, <2>2, GranuleOfPage DEF C, vals
  <2> QED
    BY <1>8, <2>2, <2>3
<1>23. Cut(qq, Len(pp) + 1) <= Len(sc) /\ vals > 0
  BY <1>1, <1>3, <1>16
<1>24. PageOK(w, qq, sc, Len(pp) + 1)
  <2>1. (Len(pp) + 1) - 1 = Len(pp)
    BY <1>7
  <2> QED
    BY <1>8, <1>10, <1>13, <1>14, <1>15, <1>18, <1>19, <1>20, <1>21, <1>22, <1>23, <2>1
       DEF PageOK, at, l
<1> QED
  BY <1>8, <1>10, <1>14, <1>16, <1>24 DEF qq, page, vals, C

\* What a stream holds after a page of its first segments.
LEMMA WriterEmitted ==
  ASSUME NEW w, NEW sc, NEW pp \in Seq(PageType), NEW os,
         PacketsOK(w), IsScript(w, sc), WriterOK(w, pp, os, sc),
         os.lacing # <<>>, NEW nfill
  PROVE  WriterOK(w, Append(pp, PageOut(os, nfill)), AfterPage(os, nfill), sc)
<1> DEFINE C == Cut(pp, Len(pp))
           vals == PageVals(os, nfill)
           page == PageOut(os, nfill)
           qq == Append(pp, page)
           o == AfterPage(os, nfill)
<1>1. /\ C \in Nat /\ Len(sc) \in Nat /\ Len(os.lacing) \in Nat
      /\ Len(sc) = C + Len(os.lacing)
      /\ \A j \in 1..Len(os.lacing) : WrittenOK(w, os, j, sc[C + j])
  BY WriterPlaces
<1>2. /\ StreamOK(os) /\ os.pageno = Len(pp) /\ os.packet = 0
      /\ os.eos = TRUE => AtEnd(w)
  BY DEF WriterOK
<1>3. vals \in 1..Len(os.lacing)
  BY <1>2, PageValsIn
<1>4. page \in PageType /\ Cut(qq, Len(pp) + 1) = C + vals
  BY PageEmitted
<1>5. /\ Laid(SegType, os.lacing, os.body)
      /\ os.lacing \in Seq(SegType) /\ os.body \in Seq(Byte)
      /\ \A j \in 1..Len(os.lacing) : os.lacing[j].val \in 0..Full
  BY <1>2, StreamLaid
<1>6. os \in Stream
  BY <1>2 DEF StreamOK
<1>7. Len(pp) \in Nat
  OBVIOUS
<1>8. Len(qq) = Len(pp) + 1 /\ qq # <<>>
  <2> HIDE DEF page, PageType
  <2> QED
    BY <1>7
<1> HIDE DEF C, vals, page, qq, SegType
<1> DEFINE rest == SubSeq(os.lacing, vals + 1, Len(os.lacing))
           left == SubSeq(os.body, Bytes(os.lacing, vals) + 1, Len(os.body))
<1>9. o = [os EXCEPT !.bos = TRUE, !.pageno = Len(pp) + 1, !.lacing = rest, !.body = left]
  BY <1>2, <1>7 DEF AfterPage, vals
<1> HIDE DEF o
<1>10. /\ rest \in Seq(SegType) /\ Len(rest) = Len(os.lacing) - vals
       /\ \A i \in 1..(Len(os.lacing) - vals) : rest[i] = os.lacing[vals + i]
  BY <1>1, <1>3, <1>5
<1>11. vals \in Nat /\ vals \in 0..Len(os.lacing) /\ Len(os.lacing) - vals \in Nat
  BY <1>1, <1>3
<1>12. SameVals(rest, os.lacing, vals, Len(os.lacing) - vals)
  BY <1>10 DEF SameVals
<1> HIDE DEF rest
<1>13. /\ left \in Seq(Byte)
       /\ Bytes(rest, Len(os.lacing) - vals) = Len(left)
       /\ \A i \in 1..(Len(os.lacing) - vals) : Piece(rest, left, i) = Piece(os.lacing, os.body, vals + i)
  BY <1>5, <1>11, <1>12, PieceOfRest
<1> HIDE DEF left
<1>14. /\ o.body = left /\ o.lacing = rest /\ o.packet = 0 /\ o.bos = TRUE
       /\ o.eos = os.eos /\ o.pageno = Len(pp) + 1
       /\ o.packetno = os.packetno /\ o.granulepos = os.granulepos /\ o.serialno = os.serialno
  BY <1>2, <1>6, <1>9 DEF Stream
<1>15. o \in Stream
  <2>1. o = [body |-> o.body, lacing |-> o.lacing, packet |-> o.packet, bos |-> o.bos,
             eos |-> o.eos, pageno |-> o.pageno, packetno |-> o.packetno,
             granulepos |-> o.granulepos, serialno |-> o.serialno]
    BY <1>6, <1>9 DEF Stream
  <2>2. /\ os.eos \in BOOLEAN /\ os.packetno \in Nat /\ os.granulepos \in Int /\ os.serialno \in Nat
    BY <1>6 DEF Stream
  <2>3. o.pageno \in Int /\ o.packet \in Nat
    BY <1>7, <1>14
  <2>4. o.bos \in BOOLEAN
    BY <1>14
  <2> QED
    BY <1>10, <1>13, <1>14, <2>1, <2>2, <2>3, <2>4 DEF Stream
<1>16. StreamOK(o)
  <2>1. Bytes(o.lacing, Len(o.lacing)) = Len(o.body)
    BY <1>10, <1>13, <1>14
  <2>2. o.packet \in 0..Len(o.lacing)
    BY <1>10, <1>11, <1>14
  <2> QED
    BY <1>15, <2>1, <2>2 DEF StreamOK
<1>17. Len(sc) = Cut(qq, Len(qq)) + Len(o.lacing)
  <2>1. Cut(qq, Len(qq)) = C + vals
    BY <1>4, <1>8
  <2>2. Len(o.lacing) = Len(os.lacing) - vals
    BY <1>10, <1>14
  <2>3. C \in Nat /\ Len(os.lacing) \in Nat /\ Len(sc) = C + Len(os.lacing) /\ vals \in Nat
    BY <1>1, <1>11
  <2>4. \A a \in Nat, b \in Nat, c \in Nat : (a + c) + (b - c) = a + b
    OBVIOUS
  <2>5. (C + vals) + (Len(os.lacing) - vals) = C + Len(os.lacing)
    BY <2>3, <2>4, Zenon
  <2>6. Len(sc) = (C + vals) + (Len(os.lacing) - vals)
    BY <2>3, <2>5, Zenon
  <2> QED
    BY <2>1, <2>2, <2>6, Zenon
<1>18. ASSUME NEW i \in 1..Len(o.lacing)
       PROVE  WrittenOK(w, o, i, sc[Cut(qq, Len(qq)) + i])
  <2>1. vals + i \in 1..Len(os.lacing) /\ i \in 1..(Len(os.lacing) - vals)
    BY <1>1, <1>10, <1>11, <1>14
  <2>2. Cut(qq, Len(qq)) + i = C + (vals + i)
    BY <1>1, <1>4, <1>8, <1>11, <2>1
  <2>3. WrittenOK(w, os, vals + i, sc[C + (vals + i)])
    BY <1>1, <2>1
  <2>4. o.lacing[i] = os.lacing[vals + i]
        /\ Piece(o.lacing, o.body, i) = Piece(os.lacing, os.body, vals + i)
    BY <1>10, <1>13, <1>14, <2>1
  <2> QED
    BY <2>2, <2>3, <2>4 DEF WrittenOK, Carries
<1>19. o.bos = (qq # <<>>)
  BY <1>8, <1>14
<1>20. o.eos = TRUE => AtEnd(w)
  BY <1>2, <1>14
<1>21. WriterOK(w, qq, o, sc)
  BY <1>8, <1>14, <1>16, <1>17, <1>18, <1>19, <1>20 DEF WriterOK
<1> QED
  BY <1>21 DEF qq, page, o

LEMMA PagesEmitted ==
  ASSUME NEW w, NEW sc, NEW pp, NEW os,
         PacketsOK(w), IsScript(w, sc), WriterOK(w, pp, os, sc), PagesOK(w, pp, sc),
         os.lacing # <<>>, NEW nfill
  PROVE  PagesOK(w, Append(pp, PageOut(os, nfill)), sc)
<1> DEFINE page == PageOut(os, nfill)
           qq == Append(pp, page)
<1>1. pp \in Seq(PageType) /\ \A j \in 1..Len(pp) : PageOK(w, pp, sc, j)
  BY DEF PagesOK
<1>2. page \in PageType /\ PageOK(w, qq, sc, Len(pp) + 1)
  BY <1>1, PageEmitted
<1>3. \A j \in 0..Len(pp) : Cut(qq, j) = Cut(pp, j)
  BY <1>1, CutOfMore
<1>4. /\ Len(sc) = Cut(pp, Len(pp)) + Len(os.lacing) /\ Cut(pp, Len(pp)) \in Nat
      /\ Len(os.lacing) \in Nat
  BY <1>1, WriterPlaces
<1>5. Len(os.lacing) > 0
  <2>1. os.lacing \in Seq(SegType)
    BY StreamLaid DEF WriterOK
  <2> HIDE DEF SegType
  <2> QED
    BY <2>1
<1> HIDE DEF page
<1>6. /\ Len(pp) \in Nat /\ Len(qq) = Len(pp) + 1 /\ qq \in Seq(PageType)
      /\ \A j \in 1..Len(pp) : qq[j] = pp[j]
  <2> HIDE DEF PageType
  <2> QED
    BY <1>1, <1>2
<1> HIDE DEF qq
<1>7. ASSUME NEW j \in 1..Len(pp) PROVE PageOK(w, qq, sc, j)
  <2>1. PageOK(w, pp, sc, j) /\ qq[j] = pp[j]
    BY <1>1, <1>6
  <2>2. Cut(qq, j) = Cut(pp, j) /\ Cut(qq, j - 1) = Cut(pp, j - 1)
    <3>1. j \in 0..Len(pp) /\ j - 1 \in 0..Len(pp)
      BY <1>6
    <3> QED
      BY <1>3, <3>1
  <2>3. pp[j].eos # TRUE
    <3> SUFFICES ASSUME pp[j].eos = TRUE PROVE FALSE
      OBVIOUS
    <3>1. j = Len(pp) /\ Cut(pp, j) = Len(sc)
      BY <2>1 DEF PageOK
    <3> QED
      BY <1>4, <1>5, <3>1
  <2> QED
    BY <2>1, <2>2, <2>3 DEF PageOK
<1>8. \A j \in 1..Len(qq) : PageOK(w, qq, sc, j)
  BY <1>2, <1>6, <1>7
<1> QED
  BY <1>6, <1>8 DEF PagesOK, qq, page

-----------------------------------------------------------------------------
(* The items of the file.                                                  *)

LEMMA ItemsOf ==
  ASSUME NEW page \in PageType
  PROVE  /\ Len(page.body) \in Nat
         /\ Len(Items(page)) = HeadItems + Len(page.body)
         /\ Len(Items(page)) \in Nat
         /\ \E S : Items(page) \in Seq(S)
         /\ Items(page)[1] = [kind |-> "head", page |-> page, ok |-> TRUE]
         /\ Items(page)[2] = [kind |-> "table", len |-> Len(page.body)]
         /\ \A i \in 3..Len(Items(page)) :
              Items(page)[i] = [kind |-> "byte", byte |-> page.body[i - 2]]
<1> DEFINE h == [kind |-> "head", page |-> page, ok |-> TRUE]
           t == [kind |-> "table", len |-> Len(page.body)]
           B(i) == [kind |-> "byte", byte |-> page.body[i]]
           b == [i \in 1..Len(page.body) |-> B(i)]
           S == {h, t} \cup {B(i) : i \in 1..Len(page.body)}
<1>1. page.body \in Seq(Byte)
  BY DEF PageType
<1>2. Len(page.body) \in Nat
  BY <1>1
<1>3. h \in S /\ t \in S /\ \A i \in 1..Len(page.body) : B(i) \in S
  OBVIOUS
<1>4. Items(page) = <<h, t>> \o b
  BY DEF Items
<1> HIDE DEF h, t, B, S
<1>5. <<h, t>> \in Seq(S) /\ b \in Seq(S) /\ Len(b) = Len(page.body)
      /\ \A i \in 1..Len(page.body) : b[i] = B(i)
  BY <1>2, <1>3
<1>6. Len(<<h, t>>) = 2 /\ <<h, t>>[1] = h /\ <<h, t>>[2] = t
  OBVIOUS
<1> HIDE DEF b
<1>7. /\ Items(page) \in Seq(S) /\ Len(Items(page)) = 2 + Len(page.body)
      /\ Items(page)[1] = h /\ Items(page)[2] = t
      /\ \A i \in 3..Len(Items(page)) : Items(page)[i] = b[i - 2]
  BY <1>2, <1>4, <1>5, <1>6
<1>8. \A i \in 3..Len(Items(page)) : i - 2 \in 1..Len(page.body)
  BY <1>2, <1>7
<1> QED
  BY <1>2, <1>5, <1>7, <1>8 DEF h, t, B, HeadItems

\* The pages one after the other.
LEMMA ReachSteps ==
  ASSUME NEW pp \in Seq(PageType)
  PROVE  /\ Len(pp) \in Nat
         /\ Reach(pp, 0) = 0
         /\ \A j \in 1..Len(pp) :
              /\ Reach(pp, j) = Reach(pp, j - 1) + Len(Items(pp[j]))
              /\ Len(Items(pp[j])) \in Nat /\ Len(Items(pp[j])) > 1
              /\ Reach(pp, j - 1) < Reach(pp, j)
         /\ \A k \in 0..Len(pp) : /\ Reach(pp, k) \in Nat
                                  /\ \A j \in 0..k : Reach(pp, j) <= Reach(pp, k)
<1> DEFINE l == [k \in 1..Len(pp) |-> [val |-> Len(Items(pp[k]))]]
<1>1. Len(pp) \in Nat /\ \A j \in 1..Len(pp) : Len(Items(pp[j])) \in Nat /\ Len(Items(pp[j])) > 1
  <2>1. \A j \in 1..Len(pp) : pp[j] \in PageType
    OBVIOUS
  <2>2. ASSUME NEW j \in 1..Len(pp) PROVE Len(Items(pp[j])) \in Nat /\ Len(Items(pp[j])) > 1
    <3>1. /\ Len(Items(pp[j])) \in Nat /\ Len(Items(pp[j])) = HeadItems + Len(pp[j].body)
          /\ Len(pp[j].body) \in Nat
      BY <2>1, ItemsOf
    <3> QED
      BY <3>1 DEF HeadItems
  <2> QED
    BY <2>2
<1>2. \A j \in 1..Len(pp) : l[j].val = Len(Items(pp[j]))
  OBVIOUS
<1>3. \A j \in 1..Len(pp) : l[j].val \in Nat
  BY <1>1, <1>2
<1> HIDE DEF l
<1>4. \A k \in 0..Len(pp) : /\ Bytes(l, k) \in Nat
                            /\ \A j \in 0..k : Bytes(l, j) <= Bytes(l, k)
  BY <1>1, <1>3, BytesGrow
<1>5. ASSUME NEW j \in 1..Len(pp)
      PROVE  Bytes(l, j) = Bytes(l, j - 1) + l[j].val
  <2>1. j \in Nat /\ j > 0
    OBVIOUS
  <2> QED
    BY <2>1, BytesStep
<1>6. Bytes(l, 0) = 0
  BY BytesAdds
<1>7. \A j : Reach(pp, j) = Bytes(l, j)
  BY DEF Reach, l
<1>8. ASSUME NEW j \in 1..Len(pp)
      PROVE  Reach(pp, j - 1) < Reach(pp, j)
  <2>1. j - 1 \in 0..Len(pp) /\ Bytes(l, j - 1) \in Nat
    BY <1>1, <1>4
  <2> QED
    BY <1>1, <1>2, <1>5, <1>7, <2>1
<1> QED
  BY <1>1, <1>2, <1>4, <1>5, <1>6, <1>7, <1>8

LEMMA ReachGrows ==
  ASSUME NEW pp \in Seq(PageType), NEW j \in 0..Len(pp), NEW k \in 0..Len(pp), j < k
  PROVE  Reach(pp, j) < Reach(pp, k)
<1>1. k \in 1..Len(pp) /\ k - 1 \in 0..Len(pp) /\ j \in 0..(k - 1)
  OBVIOUS
<1>2. /\ Reach(pp, j) <= Reach(pp, k - 1) /\ Reach(pp, k - 1) < Reach(pp, k)
      /\ Reach(pp, j) \in Nat /\ Reach(pp, k - 1) \in Nat /\ Reach(pp, k) \in Nat
  BY <1>1, ReachSteps
<1> QED
  BY <1>2

LEMMA ReachOfMore ==
  ASSUME NEW pp \in Seq(PageType), NEW page
  PROVE  \A j \in 0..Len(pp) : Reach(Append(pp, page), j) = Reach(pp, j)
<1> TAKE j \in 0..Len(pp)
<1> DEFINE A(q) == [k \in 1..Len(q) |-> [val |-> Len(Items(q[k]))]]
<1>1. j \in Nat
  OBVIOUS
<1>2. \A i \in 1..j : A(Append(pp, page))[i].val = A(pp)[i].val
  OBVIOUS
<1> HIDE DEF A
<1>3. Bytes(A(Append(pp, page)), j) = Bytes(A(pp), j)
  BY <1>1, <1>2, BytesAgree
<1> QED
  BY <1>3 DEF Reach, A

\* Which of the kinds an item is.
LEMMA HeadIs ==
  ASSUME NEW pp, NEW x, ItemOK(pp, x), x.kind = "head"
  PROVE  /\ x.page \in PageType /\ x.page.pageno \in Nat
         /\ x.page.pageno < Len(pp) /\ x.page = pp[x.page.pageno + 1]
<1>1. ~(x \in [kind : {"table"}, len : Nat]) /\ ~(x \in [kind : {"byte"}, byte : Byte])
  OBVIOUS
<1>2. x # Junk
  BY DEF Junk
<1>3. /\ x \in [kind : {"head"}, page : PageType, ok : BOOLEAN]
      /\ x.page.pageno < Len(pp) /\ x.page = pp[x.page.pageno + 1]
  BY <1>1, <1>2 DEF ItemOK
<1>4. x.page \in PageType
  BY <1>3
<1> QED
  BY <1>3, <1>4 DEF PageType

LEMMA PageItemOK ==
  ASSUME NEW pp, NEW page \in PageType, page.pageno < Len(pp), page = pp[page.pageno + 1],
         NEW i \in 1..Len(Items(page))
  PROVE  /\ ItemOK(pp, Items(page)[i])
         /\ Items(page)[i].kind = "head" => i = 1 /\ Items(page)[i].page = page
<1>1. /\ Len(page.body) \in Nat
      /\ Len(Items(page)) = HeadItems + Len(page.body)
      /\ Items(page)[1] = [kind |-> "head", page |-> page, ok |-> TRUE]
      /\ Items(page)[2] = [kind |-> "table", len |-> Len(page.body)]
      /\ \A k \in 3..Len(Items(page)) :
           Items(page)[k] = [kind |-> "byte", byte |-> page.body[k - 2]]
  BY ItemsOf
<1> HIDE DEF PageType
<1>2. CASE i = 1
  <2>1. Items(page)[i] \in [kind : {"head"}, page : PageType, ok : BOOLEAN]
        /\ Items(page)[i].page = page /\ Items(page)[i].kind = "head"
    <3> DEFINE x == [kind |-> "head", page |-> page, ok |-> TRUE]
    <3>1. x \in [kind : {"head"}, page : PageType, ok : BOOLEAN] /\ x.page = page /\ x.kind = "head"
      OBVIOUS
    <3>2. Items(page)[i] = x
      BY <1>1, <1>2
    <3> QED
      BY <3>1, <3>2
  <2> QED
    BY <1>2, <2>1 DEF ItemOK
<1>3. CASE i = 2
  <2>1. Items(page)[i] \in [kind : {"table"}, len : Nat] /\ Items(page)[i].kind = "table"
    BY <1>1, <1>3
  <2> QED
    BY <2>1 DEF ItemOK
<1>4. CASE i # 1 /\ i # 2
  <2>1. i \in 3..Len(Items(page)) /\ i - 2 \in 1..Len(page.body)
    BY <1>1, <1>4 DEF HeadItems
  <2>2. page.body \in Seq(Byte)
    BY DEF PageType
  <2>3. page.body[i - 2] \in Byte
    <3> HIDE DEF Byte
    <3> QED
      BY <2>1, <2>2
  <2>4. Items(page)[i] = [kind |-> "byte", byte |-> page.body[i - 2]]
    BY <1>1, <2>1
  <2>5. Items(page)[i] \in [kind : {"byte"}, byte : Byte] /\ Items(page)[i].kind = "byte"
    BY <2>3, <2>4
  <2> QED
    BY <2>5 DEF ItemOK
<1> QED
  BY <1>2, <1>3, <1>4

LEMMA ItemOfMore ==
  ASSUME NEW pp \in Seq(PageType), NEW page \in PageType, NEW x, ItemOK(pp, x)
  PROVE  ItemOK(Append(pp, page), x)
<1>1. Len(pp) \in Nat /\ Len(Append(pp, page)) = Len(pp) + 1
      /\ \A j \in 1..Len(pp) : Append(pp, page)[j] = pp[j]
  <2> HIDE DEF PageType
  <2> QED
    OBVIOUS
<1>2. CASE x.kind = "head"
  <2>1. /\ x.page.pageno \in Nat
        /\ x.page.pageno < Len(pp) /\ x.page = pp[x.page.pageno + 1]
    BY <1>2, HeadIs
  <2>2. x \in [kind : {"head"}, page : PageType, ok : BOOLEAN]
    BY <1>2 DEF ItemOK, Junk
  <2>3. x.page.pageno + 1 \in 1..Len(pp) /\ x.page.pageno < Len(Append(pp, page))
    BY <1>1, <2>1
  <2>4. x.page = Append(pp, page)[x.page.pageno + 1]
    BY <1>1, <2>1, <2>3
  <2> QED
    BY <1>2, <2>2, <2>3, <2>4 DEF ItemOK
<1>3. CASE x.kind # "head"
  BY <1>3 DEF ItemOK
<1> QED
  BY <1>2, <1>3

\* A page that comes out goes to the end of the file.
LEMMA FileEmitted ==
  ASSUME NEW pp \in Seq(PageType), NEW page \in PageType, page.pageno = Len(pp),
         NEW f, FileOK(pp, f), WholeOK(pp, f)
  PROVE  /\ FileOK(Append(pp, page), f \o Items(page))
         /\ WholeOK(Append(pp, page), f \o Items(page))
<1> DEFINE qq == Append(pp, page)
           it == Items(page)
           h == f \o it
<1>1. /\ Len(pp) \in Nat /\ Len(qq) = Len(pp) + 1 /\ qq[Len(pp) + 1] = page
      /\ \A j \in 1..Len(pp) : qq[j] = pp[j]
      /\ qq \in Seq(PageType)
  <2> HIDE DEF PageType
  <2> QED
    OBVIOUS
<1>2. PICK Z : it \in Seq(Z)
  BY ItemsOf
<1>0. PICK S : f \in Seq(S)
  BY DEF FileOK
<1>3. Len(it) \in Nat /\ Len(it) > 1
  <2>1. Len(it) = HeadItems + Len(page.body) /\ Len(page.body) \in Nat
    BY ItemsOf
  <2> QED
    BY <2>1 DEF HeadItems
<1>4. \A i \in 1..Len(it) : /\ ItemOK(qq, it[i])
                            /\ it[i].kind = "head" => i = 1 /\ it[i].page = page
  <2>1. page.pageno < Len(qq) /\ page = qq[page.pageno + 1]
    BY <1>1
  <2> HIDE DEF qq
  <2> QED
    BY <2>1, PageItemOK
<1> HIDE DEF it
<1>5. /\ Len(f) \in Nat /\ Len(h) = Len(f) + Len(it)
      /\ \A a \in 1..Len(f) : h[a] = f[a]
      /\ \A i \in 1..Len(it) : h[Len(f) + i] = it[i]
      /\ h \in Seq(S \cup Z)
  BY <1>0, <1>2
<1>6. \A a \in 1..Len(f) : ItemOK(pp, f[a])
  BY DEF FileOK
<1>7. \A a \in 1..Len(f) : ItemOK(qq, h[a])
  <2> TAKE a \in 1..Len(f)
  <2> HIDE DEF h
  <2> QED
    BY <1>5, <1>6, ItemOfMore
<1>8. \A j \in 0..Len(pp) : Reach(qq, j) = Reach(pp, j)
  BY ReachOfMore
<1>9. Len(f) = Reach(pp, Len(pp))
  BY DEF WholeOK
<1>10. \A j \in 1..Len(pp) : \A i \in 1..Len(Items(pp[j])) : f[Reach(pp, j - 1) + i] = Items(pp[j])[i]
  BY DEF WholeOK
<1>11. \A a \in 1..Len(f) : f[a].kind = "head" => a = Reach(pp, f[a].page.pageno) + 1
  BY DEF WholeOK
<1> HIDE DEF qq, h
<1>12. ASSUME NEW a \in 1..Len(h), a \notin 1..Len(f)
       PROVE  \E i \in 1..Len(it) : a = Len(f) + i
  <2>1. a - Len(f) \in 1..Len(it) /\ a = Len(f) + (a - Len(f))
    BY <1>3, <1>5, <1>12
  <2> QED
    BY <2>1
<1>13. \A a \in 1..Len(h) : ItemOK(qq, h[a])
  <2> TAKE a \in 1..Len(h)
  <2>1. CASE a \in 1..Len(f)
    BY <1>7, <2>1
  <2>2. CASE a \notin 1..Len(f)
    BY <1>4, <1>5, <1>12, <2>2
  <2> QED
    BY <2>1, <2>2
<1>14. \A a \in 1..Len(h) : h[a].kind = "head" /\ a \notin 1..Len(f) =>
         a = Len(f) + 1 /\ h[a].page = page
  <2> TAKE a \in 1..Len(h)
  <2>1. SUFFICES ASSUME h[a].kind = "head", a \notin 1..Len(f)
                 PROVE  a = Len(f) + 1 /\ h[a].page = page
    OBVIOUS
  <2>2. PICK i \in 1..Len(it) : a = Len(f) + i
    BY <1>12, <2>1
  <2>3. h[a] = it[i]
    BY <1>5, <2>2
  <2> QED
    BY <1>4, <2>1, <2>2, <2>3
<1>15. \A a \in 1..Len(f) : h[a].kind = "head" => h[a].page.pageno \in 0..(Len(pp) - 1)
  <2> TAKE a \in 1..Len(f)
  <2>1. SUFFICES ASSUME h[a].kind = "head" PROVE h[a].page.pageno \in 0..(Len(pp) - 1)
    OBVIOUS
  <2>2. h[a] = f[a] /\ ItemOK(pp, f[a])
    BY <1>5, <1>6
  <2>3. h[a].page.pageno \in Nat /\ h[a].page.pageno < Len(pp)
    BY <2>1, <2>2, HeadIs
  <2> QED
    BY <1>1, <2>3
<1>16. ASSUME NEW a \in 1..Len(h), NEW b \in 1..Len(h), a < b,
              h[a].kind = "head", h[b].kind = "head"
       PROVE  h[a].page.pageno < h[b].page.pageno
  <2>1. CASE b \in 1..Len(f)
    <3>1. a \in 1..Len(f)
      BY <1>16, <2>1
    <3>2. f[a].kind = "head" /\ f[b].kind = "head" /\ h[a] = f[a] /\ h[b] = f[b]
      BY <1>5, <1>16, <2>1, <3>1
    <3>3. f[a].page.pageno < f[b].page.pageno
      BY <1>16, <2>1, <3>1, <3>2 DEF FileOK
    <3> QED
      BY <3>2, <3>3
  <2>2. CASE b \notin 1..Len(f)
    <3>1. b = Len(f) + 1 /\ h[b].page = page
      BY <1>14, <1>16, <2>2
    <3>2. a \in 1..Len(f)
      BY <1>5, <1>16, <3>1
    <3> QED
      BY <1>1, <1>15, <1>16, <3>1, <3>2
  <2> QED
    BY <2>1, <2>2
<1>17. FileOK(qq, h)
  <2>1. \E Y : h \in Seq(Y)
    BY <1>5
  <2> QED
    BY <1>13, <1>16, <2>1 DEF FileOK
<1>18. Len(h) = Reach(qq, Len(qq)) /\ Reach(qq, (Len(pp) + 1) - 1) = Len(f)
  <2>1. Len(pp) + 1 \in 1..Len(qq) /\ (Len(pp) + 1) - 1 = Len(pp) /\ Len(pp) \in 0..Len(pp)
    BY <1>1
  <2>2. Reach(qq, Len(pp) + 1) = Reach(qq, (Len(pp) + 1) - 1) + Len(Items(qq[Len(pp) + 1]))
    BY <1>1, <2>1, ReachSteps
  <2> QED
    BY <1>1, <1>5, <1>8, <1>9, <2>1, <2>2 DEF it
<1>19. ASSUME NEW j \in 1..Len(qq), NEW i \in 1..Len(Items(qq[j]))
       PROVE  h[Reach(qq, j - 1) + i] = Items(qq[j])[i]
  <2>1. CASE j \in 1..Len(pp)
    <3>1. qq[j] = pp[j] /\ j - 1 \in 0..Len(pp) /\ Reach(qq, j - 1) = Reach(pp, j - 1)
      BY <1>1, <1>8, <2>1
    <3>2. f[Reach(pp, j - 1) + i] = Items(pp[j])[i]
      BY <1>10, <1>19, <2>1, <3>1
    <3>3. Reach(pp, j - 1) + i \in 1..Len(f)
      <4>1. /\ Reach(pp, j) = Reach(pp, j - 1) + Len(Items(pp[j]))
            /\ Len(Items(pp[j])) \in Nat
            /\ Reach(pp, j - 1) \in Nat /\ Reach(pp, Len(pp)) \in Nat
            /\ Reach(pp, j) <= Reach(pp, Len(pp))
        <5>1. j \in 0..Len(pp) /\ Len(pp) \in 0..Len(pp)
          BY <1>1, <2>1
        <5> QED
          BY <2>1, <3>1, <5>1, ReachSteps
      <4>2. i \in 1..Len(Items(pp[j]))
        BY <3>1
      <4> QED
        BY <1>9, <4>1, <4>2
    <3> QED
      BY <1>5, <3>1, <3>2, <3>3
  <2>2. CASE j \notin 1..Len(pp)
    <3>1. j = Len(pp) + 1
      BY <1>1, <2>2
    <3> QED
      BY <1>1, <1>5, <1>18, <3>1 DEF it
  <2> QED
    BY <2>1, <2>2
<1>20. ASSUME NEW a \in 1..Len(h), h[a].kind = "head"
       PROVE  a = Reach(qq, h[a].page.pageno) + 1
  <2>1. CASE a \in 1..Len(f)
    <3>1. h[a] = f[a] /\ h[a].page.pageno \in 0..Len(pp)
      BY <1>1, <1>5, <1>15, <1>20, <2>1
    <3> QED
      BY <1>8, <1>11, <1>20, <2>1, <3>1
  <2>2. CASE a \notin 1..Len(f)
    <3>1. a = Len(f) + 1 /\ h[a].page = page
      BY <1>14, <1>20, <2>2
    <3>2. Reach(qq, Len(pp)) = Len(f)
      BY <1>1, <1>8, <1>9
    <3> QED
      BY <3>1, <3>2
  <2> QED
    BY <2>1, <2>2
<1>21. WholeOK(qq, h)
  BY <1>18, <1>19, <1>20 DEF WholeOK
<1> QED
  BY <1>17, <1>21 DEF qq, h, it

\* h has items of f, in the order they had; a head that is still one is the
\* head of the same page.
Left(pp, f, h, g) ==
  /\ \E S : h \in Seq(S)
  /\ g \in [1..Len(h) -> 1..Len(f)]
  /\ \A a, b \in 1..Len(h) : a < b => g[a] < g[b]
  /\ \A a \in 1..Len(h) : /\ ItemOK(pp, h[a])
                          /\ h[a].kind = "head" => /\ f[g[a]].kind = "head"
                                                   /\ h[a].page = f[g[a]].page

LEMMA FileLeft ==
  ASSUME NEW pp, NEW f, NEW h, NEW g, FileOK(pp, f), Left(pp, f, h, g)
  PROVE  FileOK(pp, h)
<1>1. /\ \E S : h \in Seq(S)
      /\ \A a \in 1..Len(h) : ItemOK(pp, h[a])
  BY DEF Left
<1>2. ASSUME NEW a \in 1..Len(h), NEW b \in 1..Len(h), a < b,
             h[a].kind = "head", h[b].kind = "head"
      PROVE  h[a].page.pageno < h[b].page.pageno
  <2>1. /\ g[a] \in 1..Len(f) /\ g[b] \in 1..Len(f) /\ g[a] < g[b]
        /\ f[g[a]].kind = "head" /\ h[a].page = f[g[a]].page
        /\ f[g[b]].kind = "head" /\ h[b].page = f[g[b]].page
    BY <1>2 DEF Left
  <2>2. f[g[a]].page.pageno < f[g[b]].page.pageno
    BY <2>1 DEF FileOK
  <2> QED
    BY <2>1, <2>2
<1> QED
  BY <1>1, <1>2 DEF FileOK

\* One item changes: its kind and page stay what they are if it still is a head.
LEMMA ItemChanged ==
  ASSUME NEW pp, NEW f, FileOK(pp, f), NEW i \in 1..Len(f), NEW x, ItemOK(pp, x),
         x.kind = "head" => f[i].kind = "head" /\ x.page = f[i].page
  PROVE  FileOK(pp, [f EXCEPT ![i] = x])
<1> DEFINE h == [f EXCEPT ![i] = x]
           g == [a \in 1..Len(f) |-> a]
<1>1. PICK S : f \in Seq(S)
  BY DEF FileOK
<1>2. h \in Seq(S \cup {x}) /\ Len(h) = Len(f) /\ h[i] = x
      /\ \A a \in 1..Len(f) : a # i => h[a] = f[a]
  BY <1>1
<1> HIDE DEF h
<1>3. g \in [1..Len(h) -> 1..Len(f)] /\ \A a \in 1..Len(h) : g[a] = a
  BY <1>2
<1> HIDE DEF g
<1>4. \A a \in 1..Len(h) : /\ ItemOK(pp, h[a])
                           /\ h[a].kind = "head" => /\ f[g[a]].kind = "head"
                                                    /\ h[a].page = f[g[a]].page
  BY <1>2, <1>3 DEF FileOK
<1>5. Left(pp, f, h, g)
  BY <1>2, <1>3, <1>4 DEF Left
<1> QED
  BY <1>5, FileLeft DEF h

LEMMA ItemLost ==
  ASSUME NEW pp, NEW f, FileOK(pp, f), NEW i \in 1..Len(f)
  PROVE  FileOK(pp, SubSeq(f, 1, i - 1) \o SubSeq(f, i + 1, Len(f)))
<1> DEFINE h == SubSeq(f, 1, i - 1) \o SubSeq(f, i + 1, Len(f))
           g == [a \in 1..(Len(f) - 1) |-> IF a < i THEN a ELSE a + 1]
<1>1. PICK S : f \in Seq(S)
  BY DEF FileOK
<1>0. Len(f) \in Nat
  BY <1>1
<1>2. h \in Seq(S) /\ Len(h) = Len(f) - 1
      /\ \A a \in 1..(Len(f) - 1) : h[a] = f[IF a < i THEN a ELSE a + 1]
  <2> DEFINE u == SubSeq(f, 1, i - 1)
             v == SubSeq(f, i + 1, Len(f))
  <2>1. u \in Seq(S) /\ Len(u) = i - 1 /\ \A a \in 1..(i - 1) : u[a] = f[a]
    BY <1>0, <1>1
  <2>2. v \in Seq(S) /\ Len(v) = Len(f) - i /\ \A a \in 1..(Len(f) - i) : v[a] = f[i + a]
    BY <1>0, <1>1
  <2>3. h = u \o v
    OBVIOUS
  <2> HIDE DEF u, v, h
  <2>6. /\ h \in Seq(S) /\ Len(h) = Len(u) + Len(v)
        /\ \A a \in 1..Len(u) : h[a] = u[a]
        /\ \A a \in 1..Len(v) : h[Len(u) + a] = v[a]
    <3>1. u \in Seq(S) /\ v \in Seq(S)
      BY <2>1, <2>2
    <3>2. /\ u \o v \in Seq(S) /\ Len(u \o v) = Len(u) + Len(v)
          /\ \A a \in 1..Len(u) : (u \o v)[a] = u[a]
          /\ \A a \in 1..Len(v) : (u \o v)[Len(u) + a] = v[a]
      BY <3>1
    <3> QED
      BY <2>3, <3>2, Zenon
  <2>4. h \in Seq(S) /\ Len(h) = Len(f) - 1
    BY <1>0, <2>1, <2>2, <2>6
  <2>5. ASSUME NEW a \in 1..(Len(f) - 1) PROVE h[a] = f[IF a < i THEN a ELSE a + 1]
    <3>1. CASE a < i
      <4>1. a \in 1..(i - 1)
        BY <3>1
      <4>2. h[a] = u[a]
        BY <2>1, <2>6, <4>1
      <4> QED
        BY <2>1, <3>1, <4>1, <4>2
    <3>2. CASE ~(a < i)
      <4>1. a - (i - 1) \in 1..(Len(f) - i) /\ i + (a - (i - 1)) = a + 1 /\ a = (i - 1) + (a - (i - 1))
        BY <1>0, <3>2
      <4>2. h[a] = v[a - (i - 1)]
        BY <2>1, <2>2, <2>6, <4>1
      <4>3. v[a - (i - 1)] = f[a + 1]
        BY <2>2, <4>1
      <4> QED
        BY <3>2, <4>2, <4>3
    <3> QED
      BY <3>1, <3>2
  <2> QED
    BY <2>4, <2>5
<1> HIDE DEF h
<1>3. /\ g \in [1..Len(h) -> 1..Len(f)]
      /\ \A a \in 1..Len(h) : g[a] = IF a < i THEN a ELSE a + 1
  BY <1>0, <1>2
<1> HIDE DEF g
<1>4. \A a, b \in 1..Len(h) : a < b => g[a] < g[b]
  BY <1>0, <1>2, <1>3
<1>5. \A a \in 1..Len(h) : h[a] = f[g[a]] /\ g[a] \in 1..Len(f)
  BY <1>2, <1>3
<1>6. \A a \in 1..Len(h) : ItemOK(pp, h[a])
  BY <1>5 DEF FileOK
<1>7. Left(pp, f, h, g)
  BY <1>2, <1>3, <1>4, <1>5, <1>6 DEF Left
<1> QED
  BY <1>7, FileLeft DEF h

LEMMA FileCut ==
  ASSUME NEW pp, NEW f, FileOK(pp, f), NEW i \in 0..Len(f)
  PROVE  FileOK(pp, SubSeq(f, 1, i))
<1> DEFINE h == SubSeq(f, 1, i)
           g == [a \in 1..i |-> a]
<1>1. PICK S : f \in Seq(S)
  BY DEF FileOK
<1>0. Len(f) \in Nat /\ i \in Nat
  BY <1>1
<1>2. h \in Seq(S) /\ Len(h) = i /\ \A a \in 1..i : h[a] = f[a]
  BY <1>0, <1>1
<1> HIDE DEF h
<1>3. /\ g \in [1..Len(h) -> 1..Len(f)]
      /\ \A a \in 1..Len(h) : g[a] = a
  BY <1>0, <1>2
<1> HIDE DEF g
<1>4. \A a, b \in 1..Len(h) : a < b => g[a] < g[b]
  BY <1>3
<1>5. \A a \in 1..Len(h) : h[a] = f[g[a]] /\ g[a] \in 1..Len(f)
  BY <1>2, <1>3
<1>6. \A a \in 1..Len(h) : ItemOK(pp, h[a])
  BY <1>5 DEF FileOK
<1>7. Left(pp, f, h, g)
  BY <1>2, <1>3, <1>4, <1>5, <1>6 DEF Left
<1> QED
  BY <1>7, FileLeft DEF h

-----------------------------------------------------------------------------
(* A page is taken.                                                        *)

\* After a packet ends and before another does, the next one does.
LEMMA NextEnds ==
  ASSUME NEW w, NEW sc, PacketsOK(w), IsScript(w, sc),
         NEW r \in 1..Len(sc), NEW t \in 1..Len(sc), r < t,
         Ends(w, sc[r]), Ends(w, sc[t])
  PROVE  \E e \in (r + 1)..t : sc[e] = Mark(sc[r].p + 1, Segs(w, sc[r].p + 1))
<1> DEFINE T == {e \in (r + 1)..t : Ends(w, sc[e])}
           k == sc[r].p + 1
<1>1. /\ Len(sc) \in Nat
      /\ \A q \in 1..Len(sc) : IsMark(w, sc[q]) /\ sc[q].p \in Nat /\ sc[q].s \in Nat
      /\ \A q \in 1..(Len(sc) - 1) : sc[q + 1] = NextMark(w, sc[q])
  BY ScriptMarks
<1>2. T \subseteq Nat /\ t \in T
  BY <1>1
<1>3. PICK e \in T : \A q \in T : e <= q
  <2> HIDE DEF T
  <2> QED
    BY <1>2, LeastNat
<1>4. e \in (r + 1)..t /\ e \in 1..Len(sc) /\ Ends(w, sc[e])
  BY <1>1, <1>3
<1> DEFINE Q == {q \in (r + 1)..e : sc[q].p # k}
<1>5. Q = {}
  <2> SUFFICES ASSUME Q # {} PROVE FALSE
    OBVIOUS
  <2>1. Q \subseteq Nat
    BY <1>1
  <2>2. PICK q \in Q : \A z \in Q : q <= z
    <3> HIDE DEF Q
    <3> QED
      BY <2>1, LeastNat
  <2>3. q \in (r + 1)..e /\ sc[q].p # k /\ q - 1 \in 1..(Len(sc) - 1) /\ (q - 1) + 1 = q
        /\ q - 1 \in 1..Len(sc)
    BY <1>1, <1>4, <2>2
  <2>4. sc[q] = NextMark(w, sc[q - 1])
    BY <1>1, <2>3
  <2>5. CASE q - 1 = r
    <3>1. sc[q].p = k
      BY <2>4, <2>5, MarkFields DEF NextMark
    <3> QED
      BY <2>3, <3>1
  <2>6. CASE q - 1 # r
    <3>1. q - 1 \in (r + 1)..e /\ q - 1 \in (r + 1)..t /\ ~(q <= q - 1) /\ ~(e <= q - 1)
      BY <1>1, <1>4, <2>3, <2>6
    <3>2. sc[q - 1].p = k
      BY <2>2, <3>1
    <3>3. ~Ends(w, sc[q - 1])
      BY <1>3, <3>1
    <3>4. sc[q].p = k
      BY <2>4, <3>2, <3>3, MarkFields DEF NextMark
    <3> QED
      BY <2>3, <3>4
  <2> QED
    BY <2>5, <2>6
<1>6. sc[e].p = k
  <2>1. e \in (r + 1)..e
    BY <1>1, <1>4
  <2> QED
    BY <1>5, <2>1
<1>7. sc[e] = Mark(k, Segs(w, k))
  <2>1. sc[e] = Mark(sc[e].p, sc[e].s)
    BY <1>1, <1>4 DEF IsMark
  <2>2. sc[e].s = Segs(w, sc[e].p)
    BY <1>4 DEF Ends
  <2> QED
    BY <1>6, <2>1, <2>2
<1> QED
  BY <1>4, <1>7

ValType == [val : 0..Full]

\* What PageOK says of places and segments.
LEMMA PagePlaces ==
  ASSUME NEW w, NEW pp, NEW sc, PacketsOK(w), IsScript(w, sc), PagesOK(w, pp, sc),
         NEW j \in 1..Len(pp)
  PROVE  LET c == Cut(pp, j - 1)
             n == Len(pp[j].segments)
         IN  /\ pp \in Seq(PageType) /\ Len(pp) \in Nat /\ pp[j] \in PageType
             /\ PageOK(w, pp, sc, j)
             /\ c \in Nat /\ n \in Nat /\ n > 0 /\ Len(sc) \in Nat
             /\ Cut(pp, j) = c + n /\ c + n <= Len(sc)
             /\ \A i \in 1..n :
                  /\ c + i \in 1..Len(sc)
                  /\ IsMark(w, sc[c + i])
                  /\ pp[j].segments[i] \in 0..Full
                  /\ pp[j].segments[i] = SegVal(w, sc[c + i])
                  /\ pp[j].segments[i] < Full <=> Ends(w, sc[c + i])
                  /\ pp[j].segments[i] = Full <=> ~Ends(w, sc[c + i])
                  /\ Piece(LacingOf(pp[j]), pp[j].body, i) = Chunk(w, sc[c + i])
             /\ Laid(ValType, LacingOf(pp[j]), pp[j].body)
             /\ Len(LacingOf(pp[j])) = n
             /\ \A i \in 1..n : LacingOf(pp[j])[i].val = pp[j].segments[i]
<1> DEFINE c == Cut(pp, j - 1)
           page == pp[j]
           n == Len(page.segments)
           l == LacingOf(page)
<1>1. pp \in Seq(PageType) /\ PageOK(w, pp, sc, j)
  BY DEF PagesOK
<1>2. /\ page \in PageType /\ Len(page.segments) > 0 /\ Cut(pp, j) <= Len(sc)
      /\ Bytes(l, n) = Len(page.body)
      /\ \A i \in 1..n : Carries(w, l, page.body, i, sc[c + i])
  BY <1>1 DEF PageOK
<1>3. /\ Len(pp) \in Nat /\ Cut(pp, j) = c + n /\ n \in Nat /\ c \in Nat
  <2>1. j - 1 \in 0..Len(pp)
    BY <1>1
  <2> QED
    BY <1>1, <2>1, CutSteps
<1>4. Len(sc) \in Nat /\ \A r \in 1..Len(sc) : IsMark(w, sc[r])
  BY ScriptMarks
<1>5. page.segments \in Seq(0..Full) /\ page.body \in Seq(Byte)
  BY <1>2 DEF PageType
<1> HIDE DEF c, page
<1>6. /\ Len(l) = n /\ l \in Seq([val : 0..Full])
      /\ \A i \in 1..n : l[i].val = page.segments[i]
      /\ \A i \in 1..n : page.segments[i] \in 0..Full
  <2> DEFINE M == [val : 0..Full]
  <2>1. \A i \in 1..n : page.segments[i] \in 0..Full
    <3> DEFINE S == 0..Full
    <3>1. page.segments \in Seq(S)
      BY <1>5
    <3> HIDE DEF S
    <3>2. \A i \in 1..n : page.segments[i] \in S
      BY <3>1
    <3> QED
      BY <3>2 DEF S
  <2>2. \A i \in 1..n : [val |-> page.segments[i]] \in M
    BY <2>1
  <2>3. l = [i \in 1..n |-> [val |-> page.segments[i]]]
    BY DEF LacingOf
  <2>4. \A i \in 1..n : l[i].val = page.segments[i]
    BY <2>3
  <2> HIDE DEF M
  <2>5. Len(l) = n /\ l \in Seq(M)
    BY <1>3, <2>2, <2>3
  <2> QED
    BY <2>1, <2>4, <2>5 DEF M
<1> HIDE DEF l, n
<1>7. ASSUME NEW i \in 1..n
      PROVE  /\ c + i \in 1..Len(sc)
             /\ IsMark(w, sc[c + i])
             /\ page.segments[i] = SegVal(w, sc[c + i])
             /\ page.segments[i] < Full <=> Ends(w, sc[c + i])
             /\ page.segments[i] = Full <=> ~Ends(w, sc[c + i])
             /\ Piece(l, page.body, i) = Chunk(w, sc[c + i])
  <2>1. c + i \in 1..Len(sc)
    BY <1>2, <1>3, <1>4
  <2>2. IsMark(w, sc[c + i])
    BY <1>4, <2>1
  <2>3. page.segments[i] = SegVal(w, sc[c + i]) /\ Piece(l, page.body, i) = Chunk(w, sc[c + i])
    BY <1>2, <1>6 DEF Carries
  <2>4. SegVal(w, sc[c + i]) < Full <=> Ends(w, sc[c + i])
    BY <2>2, SegValOf
  <2>5. SegVal(w, sc[c + i]) = Full <=> ~Ends(w, sc[c + i])
    BY <2>2, SegValOf
  <2> QED
    BY <2>1, <2>2, <2>3, <2>4, <2>5
<1>8. Laid(ValType, l, page.body)
  <2>1. Full \in Nat
    BY FramingAssumption
  <2>2. \A i \in 1..Len(l) : l[i].val \in Nat
    BY <1>6, <2>1
  <2>3. Bytes(l, Len(l)) = Len(page.body)
    BY <1>2, <1>6
  <2> QED
    BY <1>5, <1>6, <2>2, <2>3 DEF Laid, ValType
<1>9. n > 0 /\ c + n <= Len(sc)
  BY <1>2, <1>3 DEF n
<1> QED
  BY <1>1, <1>2, <1>3, <1>4, <1>6, <1>7, <1>8, <1>9 DEF c, page, n, l

\* ogg_stream_pagein in parts: the segments it adds, the last of them that
\* ends a packet, and the stream after it.
LastEnd(page, skip) ==
  LET ends == {i \in (skip + 1)..Len(page.segments) : page.segments[i] < Full}
  IN  IF ends = {} THEN 0 ELSE CHOOSE i \in ends : \A j \in ends : j <= i

NewOf(page, skip) ==
  [i \in 1..(Len(page.segments) - skip) |->
     Segment(page.segments[skip + i], page.bos /\ skip = 0 /\ i = 1,
             IF skip + i = LastEnd(page, skip) THEN page.granulepos ELSE -1)]

LeftOf(page, skip) ==
  SubSeq(page.body, Bytes(LacingOf(page), skip) + 1, Len(page.body))

LEMMA LastEndIs ==
  ASSUME NEW page \in PageType, NEW skip \in 0..Len(page.segments)
  PROVE  LET n == Len(page.segments)
             last == LastEnd(page, skip)
         IN  /\ last \in Nat
             /\ last = 0 => \A i \in (skip + 1)..n : page.segments[i] = Full
             /\ last # 0 => /\ last \in (skip + 1)..n /\ page.segments[last] < Full
                            /\ \A i \in (last + 1)..n : page.segments[i] = Full
<1> DEFINE n == Len(page.segments)
           last == LastEnd(page, skip)
           ends == {i \in (skip + 1)..n : page.segments[i] < Full}
<1>1. page.segments \in Seq(0..Full)
  BY DEF PageType
<1>2. n \in Nat /\ \A i \in 1..n : page.segments[i] \in 0..Full
  <2> DEFINE S == 0..Full
  <2>1. page.segments \in Seq(S)
    BY <1>1
  <2> HIDE DEF S
  <2>2. n \in Nat /\ \A i \in 1..n : page.segments[i] \in S
    BY <2>1
  <2> QED
    BY <2>2 DEF S
<1>3. Full \in Nat
  BY FramingAssumption
<1>4. last = IF ends = {} THEN 0 ELSE CHOOSE i \in ends : \A j \in ends : j <= i
  BY DEF LastEnd
<1>5. skip \in Nat /\ skip <= n
  BY <1>2
<1>6. \A i \in (skip + 1)..n : i \notin ends => page.segments[i] = Full
  BY <1>2, <1>3, <1>5
<1> HIDE DEF last
<1>7. CASE ends = {}
  <2>1. last = 0
    BY <1>4, <1>7
  <2> QED
    BY <1>6, <1>7, <2>1 DEF last
<1>8. CASE ends # {}
  <2> DEFINE back == {n - i : i \in ends}
  <2>1. back \subseteq Nat /\ back # {}
    <3>1. \A i \in ends : n - i \in Nat
      BY <1>2, <1>5
    <3>2. back # {}
      BY <1>8
    <3> HIDE DEF ends
    <3> QED
      BY <3>1, <3>2
  <2>2. PICK z \in back : \A y \in back : z <= y
    <3> HIDE DEF back
    <3> QED
      BY <2>1, LeastNat
  <2>3. PICK i \in ends : z = n - i
    BY <2>2
  <2>4. \A k \in ends : k <= i
    <3> TAKE k \in ends
    <3>1. n - k \in back /\ k \in Int /\ i \in Int
      BY <1>5
    <3>2. n - i <= n - k
      BY <2>2, <2>3, <3>1
    <3> QED
      BY <1>2, <3>1, <3>2
  <2>5. last \in ends /\ \A k \in ends : k <= last
    <3> HIDE DEF ends
    <3> QED
      BY <1>4, <1>8, <2>4
  <2>6. last \in (skip + 1)..n /\ page.segments[last] < Full
    BY <2>5
  <2>7. \A k \in (last + 1)..n : k \notin ends /\ k \in (skip + 1)..n
    BY <1>2, <1>5, <2>5, <2>6
  <2>8. last \in Nat /\ last # 0
    BY <1>5, <2>6
  <2> QED
    BY <1>6, <2>6, <2>7, <2>8 DEF last
<1> QED
  BY <1>7, <1>8

\* Segment i of those a page adds is the one of the mark.
AddedOK(w, pp, sc, new, left, i, x) ==
  /\ new[i].hole = FALSE /\ new[i].eos = FALSE
  /\ Carries(w, new, left, i, x)
  /\ new[i].first = TRUE => x.p = 1
  /\ Ends(w, x) => \/ new[i].granule = x.p - 1
                   \/ new[i].granule = -1 /\ x.p < MaxPackets /\ EndTogether(w, pp, sc, x.p)

NewOK(w, pp, sc, j, skip) ==
  LET new == NewOf(pp[j], skip)
      n   == Len(pp[j].segments)
  IN  /\ Laid(SegType, new, LeftOf(pp[j], skip))
      /\ Len(new) = n - skip
      /\ \A i \in 1..(n - skip) : new[i].val = pp[j].segments[skip + i]
      /\ \A i \in 1..(n - skip) :
           AddedOK(w, pp, sc, new, LeftOf(pp[j], skip), i, sc[Cut(pp, j - 1) + skip + i])

\* The granule position of a segment that ends a packet: that of the page if
\* it is the last to, else none, and the next packet ends here as well.
LEMMA GranuleIn ==
  ASSUME NEW w, NEW pp, NEW sc, PacketsOK(w), IsScript(w, sc), PagesOK(w, pp, sc),
         NEW j \in 1..Len(pp), NEW skip \in 0..Len(pp[j].segments),
         NEW i \in (skip + 1)..Len(pp[j].segments),
         Ends(w, sc[Cut(pp, j - 1) + i])
  PROVE  LET x == sc[Cut(pp, j - 1) + i]
         IN  IF i = LastEnd(pp[j], skip) THEN pp[j].granulepos = x.p - 1
             ELSE x.p < MaxPackets /\ EndTogether(w, pp, sc, x.p)
<1> DEFINE c == Cut(pp, j - 1)
           n == Len(pp[j].segments)
           last == LastEnd(pp[j], skip)
           x == sc[c + i]
<1>1. /\ PageOK(w, pp, sc, j) /\ pp[j] \in PageType
      /\ c \in Nat /\ n \in Nat /\ n > 0 /\ Len(sc) \in Nat
      /\ Cut(pp, j) = c + n /\ c + n <= Len(sc)
      /\ \A k \in 1..n :
           /\ c + k \in 1..Len(sc)
           /\ IsMark(w, sc[c + k])
           /\ pp[j].segments[k] < Full <=> Ends(w, sc[c + k])
           /\ pp[j].segments[k] = Full <=> ~Ends(w, sc[c + k])
  BY PagePlaces
<1>2. /\ last \in Nat
      /\ last = 0 => \A k \in (skip + 1)..n : pp[j].segments[k] = Full
      /\ last # 0 => /\ last \in (skip + 1)..n /\ pp[j].segments[last] < Full
                     /\ \A k \in (last + 1)..n : pp[j].segments[k] = Full
  BY <1>1, LastEndIs
<1>3. skip \in Nat /\ i \in 1..n
  BY <1>1
<1>4. \A k \in 1..n :
        /\ Ends(w, sc[c + k])
        /\ \A m \in (k + 1)..n : ~Ends(w, sc[c + m])
        => pp[j].granulepos = sc[c + k].p - 1
  BY <1>1 DEF PageOK
<1>5. Ends(w, sc[c + i])
  OBVIOUS
<1> HIDE DEF c, n, last
<1>6. last # 0
  BY <1>1, <1>2, <1>3, <1>5 DEF n
<1>7. last \in 1..n /\ Ends(w, sc[c + last])
  BY <1>1, <1>2, <1>3, <1>6
<1>8. CASE i = last
  <2>1. \A m \in (i + 1)..n : ~Ends(w, sc[c + m])
    <3> TAKE m \in (i + 1)..n
    <3>1. m \in (last + 1)..n /\ m \in 1..n
      BY <1>1, <1>3, <1>8
    <3>2. pp[j].segments[m] = Full
      BY <1>2, <1>6, <3>1
    <3> QED
      BY <1>1, <3>1, <3>2
  <2>2. pp[j].granulepos = sc[c + i].p - 1
    BY <1>3, <1>4, <1>5, <2>1
  <2> QED
    BY <1>8, <2>2 DEF c, last
<1>9. CASE i # last
  <2>1. i < last
    <3> SUFFICES ASSUME ~(i < last) PROVE FALSE
      OBVIOUS
    <3>1. i \in (last + 1)..n
      BY <1>1, <1>3, <1>7, <1>9
    <3>2. pp[j].segments[i] = Full
      BY <1>2, <1>6, <3>1
    <3> QED
      BY <1>1, <1>3, <1>5, <3>2
  <2>2. c + i \in 1..Len(sc) /\ c + last \in 1..Len(sc) /\ c + i < c + last
    BY <1>1, <1>3, <1>7, <2>1
  <2>3. PICK e \in ((c + i) + 1)..(c + last) : sc[e] = Mark(x.p + 1, Segs(w, x.p + 1))
    BY <1>5, <1>7, <2>2, NextEnds
  <2>4. /\ x.p \in Nat /\ x.p \in 1..Len(w) /\ x = Mark(x.p, x.s) /\ x.s = Segs(w, x.p)
    <3>1. IsMark(w, x)
      BY <1>1, <1>3
    <3>2. x.p \in Nat
      BY <2>2, ScriptMarks
    <3> QED
      BY <1>5, <3>1, <3>2 DEF IsMark, Ends
  <2>5. c + i \in (c + 1)..Cut(pp, j) /\ e \in (c + 1)..Cut(pp, j) /\ e \in 1..Len(sc)
    BY <1>1, <1>3, <1>7, <2>2, <2>3
  <2>6. EndsOn(w, pp, sc, x.p, j) /\ EndsOn(w, pp, sc, x.p + 1, j)
    <3>1. x = Mark(x.p, Segs(w, x.p))
      BY <2>4
    <3> QED
      BY <2>3, <2>5, <3>1 DEF EndsOn, c
  <2>7. EndTogether(w, pp, sc, x.p)
    BY <2>6 DEF EndTogether
  <2>8. x.p < MaxPackets
    <3>1. IsMark(w, sc[e]) /\ sc[e].p = x.p + 1
      BY <2>3, <2>5, ScriptMarks, MarkFields
    <3>2. x.p + 1 \in 1..Len(w)
      BY <3>1 DEF IsMark
    <3>3. Len(w) <= MaxPackets /\ Len(w) \in Nat
      <4>1. w \in Seq([data : Seq(Byte), granulepos : Int, eos : BOOLEAN]) /\ Len(w) <= MaxPackets
        BY DEF PacketsOK
      <4>2. Len(w) \in Nat
        BY <4>1
      <4> QED
        BY <4>1, <4>2
    <3> QED
      BY <2>4, <3>2, <3>3, StreamAssumption
  <2> QED
    BY <1>9, <2>7, <2>8 DEF c, last
<1> QED
  BY <1>8, <1>9

LEMMA NewSegments ==
  ASSUME NEW w, NEW pp, NEW sc, PacketsOK(w), IsScript(w, sc), PagesOK(w, pp, sc),
         NEW j \in 1..Len(pp), NEW skip \in 0..Len(pp[j].segments)
  PROVE  NewOK(w, pp, sc, j, skip)
<1> DEFINE c == Cut(pp, j - 1)
           page == pp[j]
           n == Len(page.segments)
           last == LastEnd(page, skip)
           new == NewOf(page, skip)
           left == LeftOf(page, skip)
           l == LacingOf(page)
           seg(i) == Segment(page.segments[skip + i], page.bos /\ skip = 0 /\ i = 1,
                             IF skip + i = last THEN page.granulepos ELSE -1)
<1>1. /\ PageOK(w, pp, sc, j) /\ page \in PageType /\ pp \in Seq(PageType)
      /\ c \in Nat /\ n \in Nat /\ n > 0 /\ Len(sc) \in Nat
      /\ Cut(pp, j) = c + n /\ c + n <= Len(sc)
      /\ \A k \in 1..n :
           /\ c + k \in 1..Len(sc)
           /\ IsMark(w, sc[c + k])
           /\ page.segments[k] \in 0..Full
           /\ page.segments[k] = SegVal(w, sc[c + k])
           /\ Piece(l, page.body, k) = Chunk(w, sc[c + k])
  BY PagePlaces
<1>0. /\ Laid(ValType, l, page.body)
      /\ Len(l) = n
      /\ \A i \in 1..n : l[i].val = page.segments[i]
  BY PagePlaces
<1>2. page.granulepos \in Int /\ page.bos \in BOOLEAN /\ page.bos = (j = 1)
  BY <1>1 DEF PageType, PageOK
<1>3. new = [i \in 1..(n - skip) |-> seg(i)]
  BY DEF NewOf
<1>4. left = SubSeq(page.body, Bytes(l, skip) + 1, Len(page.body))
  BY DEF LeftOf
<1>5. skip \in Nat /\ n - skip \in Nat /\ skip <= n
  BY <1>1
<1>6. \A i \in 1..(n - skip) : skip + i \in 1..n /\ skip + i \in (skip + 1)..n
  BY <1>1, <1>5
<1> HIDE DEF l, left, last, n, page, c
<1>8. ASSUME NEW i \in 1..(n - skip)
      PROVE  /\ seg(i) \in SegType /\ seg(i).val = page.segments[skip + i]
             /\ seg(i).hole = FALSE /\ seg(i).eos = FALSE
             /\ seg(i).first = (page.bos /\ skip = 0 /\ i = 1)
             /\ seg(i).granule = IF skip + i = last THEN page.granulepos ELSE -1
  <2>1. page.segments[skip + i] \in 0..Full
    BY <1>1, <1>6
  <2>2. (page.bos /\ skip = 0 /\ i = 1) \in BOOLEAN
    BY <1>2
  <2>3. (IF skip + i = last THEN page.granulepos ELSE -1) \in Int
    BY <1>2
  <2>4. seg(i) = [val |-> page.segments[skip + i], first |-> (page.bos /\ skip = 0 /\ i = 1),
                  eos |-> FALSE, hole |-> FALSE,
                  granule |-> IF skip + i = last THEN page.granulepos ELSE -1]
    BY DEF Segment
  <2>5. \A v \in 0..Full, f \in BOOLEAN, g \in Int :
          [val |-> v, first |-> f, eos |-> FALSE, hole |-> FALSE, granule |-> g] \in SegType
    BY DEF SegType
  <2> HIDE DEF SegType, seg
  <2>6. seg(i) \in SegType
    BY <2>1, <2>2, <2>3, <2>4, <2>5
  <2> QED
    BY <2>4, <2>6
<1> HIDE DEF seg
<1>9. new \in Seq(SegType) /\ Len(new) = n - skip /\ \A i \in 1..(n - skip) : new[i] = seg(i)
  <2>1. \A i \in 1..(n - skip) : seg(i) \in SegType
    BY <1>8
  <2> DEFINE m == n - skip
  <2>2. m \in Nat
    BY <1>5
  <2> HIDE DEF SegType, m
  <2> QED
    BY <1>3, <2>1, <2>2 DEF m
<1> HIDE DEF new
<1>10. /\ \A i \in 1..(n - skip) : new[i].val = page.segments[skip + i]
       /\ SameVals(new, l, skip, n - skip)
  BY <1>0, <1>6, <1>8, <1>9 DEF SameVals
<1>11. /\ left \in Seq(Byte)
       /\ Bytes(new, n - skip) = Len(left)
       /\ \A i \in 1..(n - skip) : Piece(new, left, i) = Piece(l, page.body, skip + i)
  <2>1. skip \in 0..Len(l) /\ Len(l) - skip = n - skip
    BY <1>0, <1>1, <1>5
  <2>2. SameVals(new, l, skip, Len(l) - skip)
    BY <1>10, <2>1
  <2>3. /\ left \in Seq(Byte)
        /\ Bytes(new, Len(l) - skip) = Len(left)
        /\ \A i \in 1..(Len(l) - skip) : Piece(new, left, i) = Piece(l, page.body, skip + i)
    <3> DEFINE d == SubSeq(page.body, Bytes(l, skip) + 1, Len(page.body))
    <3>1. /\ d \in Seq(Byte)
          /\ Bytes(new, Len(l) - skip) = Len(d)
          /\ \A i \in 1..(Len(l) - skip) : Piece(new, d, i) = Piece(l, page.body, skip + i)
      BY <1>0, <2>1, <2>2, PieceOfRest
    <3>2. left = d
      BY <1>4
    <3> QED
      BY <3>1, <3>2
  <2> QED
    BY <2>1, <2>3
<1>12. Laid(SegType, new, left)
  <2>1. Full \in Nat
    BY FramingAssumption
  <2>2. \A i \in 1..Len(new) : new[i].val \in Nat
    <3> TAKE i \in 1..Len(new)
    <3>1. i \in 1..(n - skip) /\ skip + i \in 1..n
      BY <1>6, <1>9
    <3>2. new[i].val \in 0..Full
      BY <1>1, <1>10, <3>1
    <3> QED
      BY <2>1, <3>2
  <2> QED
    BY <1>9, <1>11, <2>2 DEF Laid
<1>13. ASSUME NEW i \in 1..(n - skip)
       PROVE  AddedOK(w, pp, sc, new, left, i, sc[c + skip + i])
  <2>1. skip + i \in 1..n /\ c + skip + i = c + (skip + i)
    BY <1>1, <1>5, <1>6
  <2>2. Carries(w, new, left, i, sc[c + (skip + i)])
    BY <1>1, <1>10, <1>11, <2>1 DEF Carries
  <2>3. new[i].hole = FALSE /\ new[i].eos = FALSE
    BY <1>8, <1>9
  <2>4. new[i].first = TRUE => sc[c + (skip + i)].p = 1
    <3> SUFFICES ASSUME new[i].first = TRUE PROVE sc[c + (skip + i)].p = 1
      OBVIOUS
    <3>1. page.bos /\ skip = 0 /\ i = 1
      <4>1. new[i] = seg(i) /\ seg(i).first = (page.bos /\ skip = 0 /\ i = 1)
        BY <1>8, <1>9
      <4> QED
        BY <4>1
    <3>2. j = 1
      BY <1>2, <3>1
    <3>3. c = 0
      BY <1>1, <3>2, CutSteps DEF c
    <3>4. Len(sc) > 0 /\ c + (skip + i) = 1
      BY <1>1, <3>1, <3>3
    <3>5. sc[1] = Mark(1, 1)
      BY <3>4, ScriptMarks
    <3> QED
      BY <3>4, <3>5, MarkFields
  <2>5. Ends(w, sc[c + (skip + i)]) =>
          LET x == sc[c + (skip + i)]
          IN  \/ new[i].granule = x.p - 1
              \/ new[i].granule = -1 /\ x.p < MaxPackets /\ EndTogether(w, pp, sc, x.p)
    <3> SUFFICES ASSUME Ends(w, sc[c + (skip + i)])
                 PROVE  LET x == sc[c + (skip + i)]
                        IN  \/ new[i].granule = x.p - 1
                            \/ new[i].granule = -1 /\ x.p < MaxPackets /\ EndTogether(w, pp, sc, x.p)
      OBVIOUS
    <3>1. LET x == sc[c + (skip + i)]
          IN  IF skip + i = last THEN page.granulepos = x.p - 1
              ELSE x.p < MaxPackets /\ EndTogether(w, pp, sc, x.p)
      <4>1. skip + i \in (skip + 1)..n
        BY <1>6
      <4> QED
        BY <4>1, GranuleIn DEF c, last, page, n
    <3>2. new[i].granule = IF skip + i = last THEN page.granulepos ELSE -1
      <4>1. new[i] = seg(i)
        BY <1>9
      <4>2. seg(i).granule = IF skip + i = last THEN page.granulepos ELSE -1
        BY <1>8
      <4> QED
        BY <4>1, <4>2
    <3> QED
      BY <3>1, <3>2
  <2> QED
    BY <2>1, <2>2, <2>3, <2>4, <2>5 DEF AddedOK
<1> QED
  BY <1>9, <1>10, <1>12, <1>13 DEF NewOK, c, page, n, new, left

\* The reader, ready for page j: what it holds goes up to the end of page
\* j - 1, or to a hole.
MidOK(w, pp, sc, os, pos, j) ==
  /\ os.pageno \in -1..(j - 1)
  /\ os.pageno = -1 => os.lacing = <<>>
  /\ Holds(w, pp, sc, os, pos, Cut(pp, j - 1))
  /\ \A i \in 1..Len(os.lacing) : os.lacing[i].hole = TRUE => os.lacing[i] = Hole

LEMMA HoleFields ==
  /\ Hole \in SegType
  /\ Hole.val = 0 /\ Hole.first = FALSE /\ Hole.eos = FALSE /\ Hole.hole = TRUE
<1>1. Hole = [val |-> 0, first |-> FALSE, eos |-> FALSE, hole |-> TRUE, granule |-> -1]
  <2>1. Hole = [[val |-> 0, first |-> FALSE, eos |-> FALSE, hole |-> FALSE, granule |-> -1]
                  EXCEPT !.hole = TRUE]
    BY Zenon DEF Hole, Segment
  <2> QED
    BY <2>1
<1>2. Full \in Nat
  BY FramingAssumption
<1> QED
  BY <1>1, <1>2 DEF SegType

\* The places of a reader before the last page.
LEMMA CutsBefore ==
  ASSUME NEW pp \in Seq(PageType), NEW j \in 1..Len(pp), NEW q \in Int, q <= j - 1
  PROVE  /\ Cut(pp, j - 1) \in Nat
         /\ q >= 0 => Cut(pp, q) \in Nat /\ Cut(pp, q) <= Cut(pp, j - 1)
<1>1. j - 1 \in 0..Len(pp) /\ (q >= 0 => q \in 0..(j - 1) /\ q \in 0..Len(pp))
  OBVIOUS
<1> QED
  BY <1>1, CutSteps

\* Nothing is taken back: the page is the next, or the first.
LEMMA ResumedSame ==
  ASSUME NEW w, NEW pp, NEW sc, NEW j \in 1..Len(pp), pp \in Seq(PageType),
         NEW os, NEW pos, NEW g, ReaderOK(w, pp, sc, os, pos), GotOK(w, pp, sc, os, pos, g),
         pp[j].pageno = j - 1, os.pageno = j - 1 \/ os.pageno = -1
  PROVE  /\ Resumed(os, pp[j]) = os
         /\ MidOK(w, pp, sc, os, pos, j)
         /\ GotAt(w, pp, sc, os, pos, g, Cut(pp, j - 1))
<1>1. /\ os.pageno \in -1..Len(pp)
      /\ os.pageno = -1 => os.lacing = <<>>
      /\ Holds(w, pp, sc, os, pos, Cut(pp, os.pageno))
  BY DEF ReaderOK
<1>2. StreamOK(os)
  BY <1>1 DEF Holds
<1>3. os.lacing \in Seq(SegType) /\ os.body \in Seq(Byte) /\ os.packet \in 0..Len(os.lacing)
      /\ Bytes(os.lacing, Len(os.lacing)) = Len(os.body) /\ os \in Stream
  BY <1>2, StreamLaid DEF StreamOK
<1>4. Resumed(os, pp[j]) = os
  <2>1. CASE os.pageno = j - 1
    BY <2>1 DEF Resumed
  <2>2. CASE os.pageno # j - 1
    <3>1. os.pageno = -1 /\ os.lacing = <<>>
      BY <1>1, <2>2
    <3>2. os.packet = 0 /\ Len(os.lacing) = 0
      BY <1>3, <3>1
    <3>3. Bytes(os.lacing, 0) = 0
      BY BytesAdds
    <3>4. Len(os.body) = 0
      BY <1>3, <3>2, <3>3
    <3>5. os.body = <<>>
      <4> HIDE DEF Byte
      <4> QED
        BY <1>3, <3>4
    <3>6. SubSeq(os.lacing, 1, os.packet) = os.lacing
      BY <3>1, <3>2
    <3>7. SubSeq(os.body, 1, Len(os.body) - (Bytes(os.lacing, Len(os.lacing)) - Bytes(os.lacing, os.packet))) = os.body
      BY <3>2, <3>3, <3>4, <3>5
    <3>8. Resumed(os, pp[j]) =
            [os EXCEPT !.lacing = SubSeq(os.lacing, 1, os.packet),
                       !.body = SubSeq(os.body, 1, Len(os.body) - (Bytes(os.lacing, Len(os.lacing)) - Bytes(os.lacing, os.packet)))]
      BY <2>2, <3>1 DEF Resumed
    <3>9. Resumed(os, pp[j]) = [os EXCEPT !.lacing = os.lacing, !.body = os.body]
      BY <3>6, <3>7, <3>8
    <3>10. [os EXCEPT !.lacing = os.lacing, !.body = os.body] = os
      BY <1>3 DEF Stream
    <3> QED
      BY <3>9, <3>10
  <2> QED
    BY <2>1, <2>2
<1>5. CASE os.pageno = j - 1
  <2>1. Len(pp) \in Nat
    BY CutSteps
  <2>2. os.pageno \in -1..(j - 1) /\ os.pageno # Len(pp)
    BY <1>5, <2>1
  <2>3. \A i \in 1..Len(os.lacing) : os.lacing[i].hole = TRUE => os.lacing[i] = Hole
    BY <1>1, <2>2 DEF Holds, HeldOK
  <2>4. MidOK(w, pp, sc, os, pos, j)
    BY <1>1, <1>5, <2>2, <2>3 DEF MidOK
  <2>5. GotAt(w, pp, sc, os, pos, g, Cut(pp, j - 1))
    BY <1>5 DEF GotOK
  <2> QED
    BY <1>4, <2>4, <2>5
<1>6. CASE os.pageno = -1
  <2>1. os.lacing = <<>> /\ Len(os.lacing) = 0
    BY <1>1, <1>6
  <2>2. Holds(w, pp, sc, os, pos, Cut(pp, j - 1))
    BY <1>1, <2>1 DEF Holds, LastOK
  <2>3. os.pageno \in -1..(j - 1)
    BY <1>6
  <2>4. MidOK(w, pp, sc, os, pos, j)
    BY <2>1, <2>2, <2>3 DEF MidOK
  <2>5. Got(g) = {}
    BY <1>6 DEF GotOK
  <2>6. GotAt(w, pp, sc, os, pos, g, Cut(pp, j - 1))
    BY <2>5 DEF GotOK, GotAt
  <2> QED
    BY <1>4, <2>4, <2>6
<1> QED
  BY <1>5, <1>6

\* Of the first n segments of os, o holds those that are not holes.
Keeps(os, pos, n, o, p2) ==
  \A i \in 1..n : os.lacing[i].hole = FALSE => HeldAt(o, p2, pos[i])

\* After a page that was lost, the packet begun is taken back.
LEMMA ResumedGap ==
  ASSUME NEW w, NEW pp, NEW sc, NEW j \in 1..Len(pp), pp \in Seq(PageType),
         NEW os, NEW pos, NEW g, ReaderOK(w, pp, sc, os, pos), GotOK(w, pp, sc, os, pos, g),
         pp[j].pageno = j - 1, os.pageno < j - 1, os.pageno # -1
  PROVE  LET at == Resumed(os, pp[j])
         IN  \E p2 : /\ MidOK(w, pp, sc, at, p2, j)
                     /\ GotAt(w, pp, sc, at, p2, g, Cut(pp, j - 1))
                     /\ Keeps(os, pos, os.packet, at, p2)
<1> DEFINE at == Resumed(os, pp[j])
           n == os.packet
           l == os.lacing
           m == Append(SubSeq(l, 1, n), Hole)
           b == SubSeq(os.body, 1, Bytes(l, n))
           p2 == [i \in 1..(n + 1) |-> IF i <= n THEN pos[i] ELSE 0]
           c == Cut(pp, j - 1)
<1>1. /\ os.pageno \in -1..Len(pp) /\ os.pageno # 0
      /\ Holds(w, pp, sc, os, pos, Cut(pp, os.pageno))
  BY DEF ReaderOK
<1>2. StreamOK(os) /\ pos \in [1..Len(l) -> Nat]
      /\ (\A i \in 1..Len(l) : HeldOK(w, pp, sc, os, pos, i))
      /\ ChainOK(sc, os, pos) /\ OrderOK(os, pos) /\ WholesOK(os)
  BY <1>1 DEF Holds
<1>3. /\ Laid(SegType, l, os.body) /\ l \in Seq(SegType) /\ Len(l) \in Nat
      /\ os.body \in Seq(Byte)
      /\ Bytes(l, Len(l)) = Len(os.body) /\ os \in Stream
  BY <1>2, StreamLaid DEF StreamOK
<1>4. n \in 0..Len(l) /\ n \in Nat
  BY <1>2, <1>3 DEF StreamOK
<1>5. Len(pp) \in Nat /\ os.pageno \in Int /\ os.pageno <= j - 1 /\ os.pageno >= 0
      /\ os.pageno \in -1..(j - 1) /\ os.pageno # Len(pp)
  <2>1. Len(pp) \in Nat
    BY CutSteps
  <2> QED
    BY <1>1, <2>1
<1>6. c \in Nat /\ Cut(pp, os.pageno) \in Nat /\ Cut(pp, os.pageno) <= c
  BY <1>5, CutsBefore
<1>7. Bytes(l, n) \in 0..Len(os.body) /\ Len(os.body) \in Nat
  BY <1>3, <1>4, LaidBytes
<1> HIDE DEF c
<1>8. at = [os EXCEPT !.lacing = m, !.body = b, !.packet = n + 1]
  <2>1. Len(os.body) - (Bytes(l, Len(l)) - Bytes(l, n)) = Bytes(l, n)
    BY <1>3, <1>7
  <2>2. pp[j].pageno # os.pageno
    BY <1>5
  <2> DEFINE partial == Bytes(l, Len(l)) - Bytes(l, n)
             whole == [os EXCEPT !.lacing = SubSeq(l, 1, n),
                                 !.body = SubSeq(os.body, 1, Len(os.body) - partial)]
  <2>3. at = [whole EXCEPT !.lacing = Append(whole.lacing, Hole), !.packet = whole.packet + 1]
    BY <2>2, Zenon DEF Resumed
  <2>4. whole = [os EXCEPT !.lacing = SubSeq(l, 1, n), !.body = b]
    BY <2>1
  <2>5. whole.lacing = SubSeq(l, 1, n) /\ whole.packet = n
    BY <1>3, <2>4 DEF Stream
  <2>6. at = [whole EXCEPT !.lacing = m, !.packet = n + 1]
    BY <2>3, <2>5
  <2> HIDE DEF whole, m, b
  <2> QED
    BY <1>3, <2>4, <2>6 DEF Stream
<1> HIDE DEF at
<1>9. m \in Seq(SegType) /\ Len(m) = n + 1 /\ m[n + 1] = Hole /\ \A i \in 1..n : m[i] = l[i]
  <2> HIDE DEF SegType
  <2>1. SubSeq(l, 1, n) \in Seq(SegType) /\ Len(SubSeq(l, 1, n)) = n
        /\ \A i \in 1..n : SubSeq(l, 1, n)[i] = l[i]
    BY <1>3, <1>4
  <2> QED
    BY <1>4, <2>1, HoleFields
<1>10. SameVals(m, l, 0, n)
  BY <1>9 DEF SameVals
<1> HIDE DEF m
<1>11. /\ Bytes(m, n) = Bytes(l, n)
       /\ b \in Seq(Byte) /\ Len(b) = Bytes(l, n)
       /\ \A i \in 1..n : Piece(m, b, i) = Piece(l, os.body, i)
  BY <1>3, <1>4, <1>10, PieceOfPrefix
<1> HIDE DEF b
<1>12. Bytes(m, n + 1) = Len(b)
  <2>1. n + 1 > 0 /\ n + 1 \in Nat /\ (n + 1) - 1 = n
    BY <1>4
  <2>2. Bytes(m, n + 1) = Bytes(m, (n + 1) - 1) + m[n + 1].val
    BY <2>1, BytesStep
  <2> QED
    BY <1>7, <1>9, <1>11, <2>1, <2>2, HoleFields
<1>13. /\ at.lacing = m /\ at.body = b /\ at.packet = n + 1 /\ at.pageno = os.pageno
       /\ at.bos = os.bos /\ at.eos = os.eos /\ at.packetno = os.packetno
       /\ at.granulepos = os.granulepos /\ at.serialno = os.serialno
       /\ at = [body |-> at.body, lacing |-> at.lacing, packet |-> at.packet, bos |-> at.bos,
                eos |-> at.eos, pageno |-> at.pageno, packetno |-> at.packetno,
                granulepos |-> at.granulepos, serialno |-> at.serialno]
  BY <1>3, <1>8 DEF Stream
<1>14. StreamOK(at)
  <2>1. at \in Stream
    <3>1. /\ os.bos \in BOOLEAN /\ os.eos \in BOOLEAN /\ os.pageno \in Int /\ os.packetno \in Nat
          /\ os.granulepos \in Int /\ os.serialno \in Nat
      BY <1>3 DEF Stream
    <3>2. n + 1 \in Nat
      BY <1>4
    <3> HIDE DEF SegType, Byte
    <3> QED
      BY <1>9, <1>11, <1>13, <3>1, <3>2 DEF Stream
  <2>2. at.packet \in 0..Len(at.lacing) /\ Bytes(at.lacing, Len(at.lacing)) = Len(at.body)
    BY <1>4, <1>9, <1>12, <1>13
  <2> QED
    BY <2>1, <2>2 DEF StreamOK
<1>15. /\ p2 \in [1..(n + 1) -> Nat] /\ \A i \in 1..n : p2[i] = pos[i]
  <2>1. \A i \in 1..(n + 1) : (IF i <= n THEN pos[i] ELSE 0) \in Nat
    <3> TAKE i \in 1..(n + 1)
    <3>1. CASE i <= n
      <4>1. i \in 1..Len(l)
        BY <1>3, <1>4, <3>1
      <4> QED
        BY <1>2, <3>1, <4>1
    <3> QED
      BY <3>1
  <2>2. \A i \in 1..n : i \in 1..(n + 1) /\ i <= n
    BY <1>4
  <2> QED
    BY <2>1, <2>2
<1> HIDE DEF p2
<1>16. ASSUME NEW i \in 1..(n + 1), i # n + 1
       PROVE  i \in 1..n /\ i \in 1..Len(l)
  <2>1. n \in Nat /\ Len(l) \in Nat /\ n <= Len(l)
    BY <1>3, <1>4
  <2> QED
    BY <1>16, <2>1
<1>17. ASSUME NEW i \in 1..(n + 1) PROVE HeldOK(w, pp, sc, at, p2, i)
  <2>1. CASE i = n + 1
    BY <1>9, <1>13, <2>1, HoleFields DEF HeldOK
  <2>2. CASE i # n + 1
    <3>1. /\ i \in 1..n /\ HeldOK(w, pp, sc, os, pos, i)
      BY <1>2, <1>16, <2>2
    <3>2. at.lacing[i] = l[i] /\ p2[i] = pos[i] /\ at.pageno = os.pageno
          /\ Piece(at.lacing, at.body, i) = Piece(l, os.body, i)
      BY <1>9, <1>11, <1>13, <1>15, <3>1
    <3> QED
      BY <3>1, <3>2 DEF HeldOK, Carries
  <2> QED
    BY <2>1, <2>2
<1>18. ASSUME NEW i \in 1..n
       PROVE  Begins(sc, at, p2, i) = Begins(sc, os, pos, i)
  BY <1>9, <1>13, <1>15 DEF Begins
<1>19. ChainOK(sc, at, p2)
  <2>1. Begins(sc, at, p2, n + 1)
    BY <1>9, <1>13, HoleFields DEF Begins
  <2>2. Begins(sc, at, p2, 1)
    <3>1. CASE n = 0
      BY <2>1, <3>1
    <3>2. CASE n # 0
      <4>1. 1 \in 1..n /\ Len(l) > 0
        BY <1>3, <1>4, <3>2
      <4>2. Begins(sc, os, pos, 1)
        BY <1>2, <4>1 DEF ChainOK
      <4> QED
        BY <1>18, <4>1, <4>2
    <3> QED
      BY <3>1, <3>2
  <2>3. ASSUME NEW i \in 1..n PROVE Linked(sc, at, p2, i)
    <3>1. at.lacing[i] = l[i] /\ p2[i] = pos[i]
      BY <1>9, <1>13, <1>15
    <3>2. CASE i = n
      <4>1. l[n].val < Full
        BY <1>2, <1>4, <3>2 DEF WholesOK
      <4>2. at.lacing[i].val # Full
        BY <3>1, <3>2, <4>1, FramingAssumption
      <4>3. at.lacing[i + 1].hole = TRUE
        BY <1>9, <1>13, <3>2, HoleFields
      <4>4. Begins(sc, at, p2, i + 1)
        BY <2>1, <3>2
      <4> QED
        BY <4>2, <4>3, <4>4 DEF Linked
    <3>3. CASE i # n
      <4>1. i + 1 \in 1..n /\ i \in 1..(Len(l) - 1)
        BY <1>3, <1>4, <3>3
      <4>2. Linked(sc, os, pos, i)
        BY <1>2, <4>1 DEF ChainOK
      <4>3. at.lacing[i + 1] = l[i + 1] /\ p2[i + 1] = pos[i + 1]
            /\ Begins(sc, at, p2, i + 1) = Begins(sc, os, pos, i + 1)
        BY <1>9, <1>13, <1>15, <1>18, <4>1
      <4> QED
        BY <3>1, <4>2, <4>3 DEF Linked
    <3> QED
      BY <3>2, <3>3
  <2>4. Len(at.lacing) - 1 = n
    BY <1>4, <1>9, <1>13
  <2> QED
    BY <2>2, <2>3, <2>4 DEF ChainOK
<1>20. OrderOK(at, p2)
  <2> SUFFICES ASSUME NEW i \in 1..(n + 1), NEW k \in 1..(n + 1), i < k,
                      at.lacing[i].hole = FALSE, at.lacing[k].hole = FALSE
               PROVE  p2[i] < p2[k]
    BY <1>9, <1>13 DEF OrderOK
  <2>1. k # n + 1
    BY <1>9, <1>13, HoleFields
  <2>2. i # n + 1
    BY <1>4
  <2>3. i \in 1..n /\ k \in 1..n /\ i \in 1..Len(l) /\ k \in 1..Len(l)
    BY <1>16, <2>1, <2>2
  <2>4. l[i].hole = FALSE /\ l[k].hole = FALSE /\ p2[i] = pos[i] /\ p2[k] = pos[k]
    BY <1>9, <1>13, <1>15, <2>3
  <2> QED
    BY <1>2, <2>3, <2>4 DEF OrderOK
<1>21. LastOK(at, p2, c)
  BY <1>9, <1>13, HoleFields DEF LastOK
<1>22. WholesOK(at)
  <2>1. at.lacing[at.packet].val < Full
    BY <1>9, <1>13, HoleFields, FramingAssumption
  <2>2. (at.packet + 1)..Len(at.lacing) = {}
    BY <1>4, <1>9, <1>13
  <2> QED
    BY <2>1, <2>2 DEF WholesOK
<1>23. ASSUME NEW i \in 1..(n + 1), at.lacing[i].hole = TRUE PROVE at.lacing[i] = Hole
  <2>1. CASE i = n + 1
    BY <1>9, <1>13, <2>1
  <2>2. CASE i # n + 1
    <3>1. /\ i \in 1..n /\ HeldOK(w, pp, sc, os, pos, i)
      BY <1>2, <1>16, <2>2
    <3>2. at.lacing[i] = l[i]
      BY <1>9, <1>13, <3>1
    <3> QED
      BY <1>5, <1>23, <3>1, <3>2 DEF HeldOK
  <2> QED
    BY <2>1, <2>2
<1>24. Holds(w, pp, sc, at, p2, c)
  <2>1. Len(at.lacing) = n + 1
    BY <1>9, <1>13
  <2> QED
    BY <1>14, <1>15, <1>17, <1>19, <1>20, <1>21, <1>22, <2>1 DEF Holds
<1>25. MidOK(w, pp, sc, at, p2, j)
  <2>1. Len(at.lacing) = n + 1 /\ at.pageno \in -1..(j - 1) /\ at.pageno # -1
    BY <1>5, <1>9, <1>13
  <2> QED
    BY <1>23, <1>24, <2>1 DEF MidOK, c
<1>26. GotAt(w, pp, sc, os, pos, g, Cut(pp, os.pageno))
  BY DEF GotOK
<1>27. ASSUME NEW i \in Got(g) PROVE EndedBefore(w, sc, at, p2, g[i].p, c)
  <2>1. PICK r \in 1..Len(sc) :
          /\ EndOf(w, sc, g[i].p, r) /\ r <= Cut(pp, os.pageno)
          /\ \A k \in 1..Len(l) : l[k].hole = FALSE => r < pos[k]
    BY <1>26 DEF GotAt, EndedBefore
  <2>2. r <= c
    BY <1>6, <2>1
  <2>3. ASSUME NEW k \in 1..(n + 1), at.lacing[k].hole = FALSE PROVE r < p2[k]
    <3>1. k # n + 1
      BY <1>9, <1>13, <2>3, HoleFields
    <3>2. k \in 1..n /\ k \in 1..Len(l)
      BY <1>16, <3>1
    <3>3. l[k].hole = FALSE /\ p2[k] = pos[k]
      BY <1>9, <1>13, <1>15, <2>3, <3>2
    <3> QED
      BY <2>1, <3>2, <3>3
  <2> QED
    BY <1>9, <1>13, <2>1, <2>2, <2>3 DEF EndedBefore
<1>28. Len(g) \in Got(g) => NextIs(w, sc, at, p2, Id(g[Len(g)].p), c)
  <2> SUFFICES ASSUME Len(g) \in Got(g) PROVE NextIs(w, sc, at, p2, Id(g[Len(g)].p), c)
    OBVIOUS
  <2>1. NextIs(w, sc, os, pos, Id(g[Len(g)].p), Cut(pp, os.pageno))
    BY <1>26 DEF GotAt
  <2>2. at.lacing # <<>>
    BY <1>4, <1>9, <1>13
  <2>3. at.lacing[1].hole = FALSE => sc[p2[1]] = Mark(Id(g[Len(g)].p) + 1, 1)
    <3> SUFFICES ASSUME at.lacing[1].hole = FALSE PROVE sc[p2[1]] = Mark(Id(g[Len(g)].p) + 1, 1)
      OBVIOUS
    <3>1. 1 # n + 1 /\ 1 \in 1..(n + 1)
      BY <1>4, <1>9, <1>13, HoleFields
    <3>2. 1 \in 1..n /\ 1 \in 1..Len(l)
      BY <1>16, <3>1
    <3>3. l[1].hole = FALSE /\ p2[1] = pos[1] /\ l # <<>>
      <4>1. l[1].hole = FALSE
        BY <1>9, <1>13, <3>2
      <4>2. p2[1] = pos[1]
        BY <1>15, <3>2
      <4>3. l # <<>>
        BY <3>2
      <4> QED
        BY <4>1, <4>2, <4>3
    <3> QED
      BY <2>1, <3>3 DEF NextIs
  <2> QED
    BY <2>2, <2>3 DEF NextIs
<1>29. GotAt(w, pp, sc, at, p2, g, c)
  BY <1>26, <1>27, <1>28 DEF GotAt
<1>30. Keeps(os, pos, n, at, p2)
  <2> SUFFICES ASSUME NEW i \in 1..n, l[i].hole = FALSE PROVE HeldAt(at, p2, pos[i])
    BY DEF Keeps
  <2>1. at.lacing[i].hole = FALSE /\ p2[i] = pos[i]
    BY <1>9, <1>13, <1>15
  <2>2. i \in 1..Len(at.lacing)
    BY <1>4, <1>9, <1>13
  <2> QED
    BY <2>1, <2>2 DEF HeldAt
<1> QED
  BY <1>25, <1>29, <1>30 DEF at, c

\* The segments a page does not add, of n after place c, are the rest of a
\* packet whose beginning is not here.
SkipOK(sc, os, c, n, skip) ==
  LET ends == os.lacing = <<>> \/ os.lacing[Len(os.lacing)].hole = TRUE
  IN  /\ skip \in 0..n
      /\ ends /\ skip < n => sc[c + skip + 1].s = 1
      /\ ~ends => skip = 0
      /\ sc[c + 1].s = 1 => skip = 0
      /\ \A m \in 1..skip : sc[c + m].s # 1

LEMMA OrphansAre ==
  ASSUME NEW w, NEW pp, NEW sc, PacketsOK(w), IsScript(w, sc), PagesOK(w, pp, sc),
         NEW j \in 1..Len(pp), NEW os, NEW pos, MidOK(w, pp, sc, os, pos, j)
  PROVE  SkipOK(sc, os, Cut(pp, j - 1), Len(pp[j].segments), Orphans(os, pp[j]))
<1> DEFINE skip == Orphans(os, pp[j])
           page == pp[j]
           n == Len(page.segments)
           c == Cut(pp, j - 1)
           l == LacingOf(page)
           ends == os.lacing = <<>> \/ os.lacing[Len(os.lacing)].hole = TRUE
<1>1. /\ PageOK(w, pp, sc, j)
      /\ c \in Nat /\ n \in Nat /\ n > 0 /\ Len(sc) \in Nat
      /\ c + n <= Len(sc)
      /\ \A k \in 1..n :
           /\ c + k \in 1..Len(sc)
           /\ page.segments[k] \in 0..Full
           /\ page.segments[k] < Full <=> Ends(w, sc[c + k])
  BY PagePlaces
<1>0. /\ Len(l) = n /\ \A i \in 1..n : l[i].val = page.segments[i]
  BY PagePlaces
<1>2. page.continued = (sc[c + 1].s # 1)
  BY <1>1 DEF PageOK
<1>3. StreamOK(os) /\ \A i \in 1..Len(os.lacing) : os.lacing[i].hole = TRUE => os.lacing[i] = Hole
  BY DEF MidOK, Holds
<1>4. ends <=> (os.lacing = <<>> \/ os.lacing[Len(os.lacing)] = Hole)
  <2>1. os.lacing \in Seq(SegType)
    BY <1>3, StreamLaid
  <2>2. os.lacing # <<>> => Len(os.lacing) \in 1..Len(os.lacing)
    <3> HIDE DEF SegType
    <3> QED
      BY <2>1
  <2> QED
    BY <1>3, <2>2, HoleFields
<1>5. skip = IF page.continued /\ ends THEN PacketEnd(l, 1, n) ELSE 0
  BY <1>0, <1>4 DEF Orphans, LacingOf
<1> HIDE DEF c, n, l, page, skip, ends
<1>6. CASE ~(page.continued /\ ends)
  <2>1. skip = 0
    BY <1>5, <1>6
  <2>2. ends => sc[c + 1].s = 1
    BY <1>2, <1>6
  <2>3. c + 0 + 1 = c + 1 /\ 0 \in 0..n /\ 1..0 = {}
    BY <1>1
  <2>4. \A m \in 1..skip : sc[c + m].s # 1
    BY <2>1, <2>3
  <2> QED
    BY <2>1, <2>2, <2>3, <2>4 DEF SkipOK, c, n, page, skip, ends
<1>7. CASE page.continued /\ ends
  <2>1. Valued(l, 1, n)
    <3>1. \A i \in 1..n : l[i].val \in 0..Full
      BY <1>0, <1>1
    <3>2. 1 \in Nat /\ n \in Nat /\ 1 <= n
      BY <1>1
    <3> QED
      BY <3>1, <3>2, Zenon DEF Valued
  <2>2. /\ skip \in 1..n
        /\ l[skip].val < Full \/ skip = n
        /\ \A i \in 1..(skip - 1) : l[i].val = Full
    BY <1>5, <1>7, <2>1, PacketEndIs
  <2>3. sc[c + 1].s # 1
    BY <1>2, <1>7
  <2>4. ASSUME skip < n PROVE sc[c + skip + 1].s = 1
    <3>1. page.segments[skip] < Full
      BY <1>0, <2>2, <2>4
    <3>2. Ends(w, sc[c + skip])
      BY <1>1, <2>2, <3>1
    <3>3. c + skip \in 1..(Len(sc) - 1)
      BY <1>1, <2>2, <2>4
    <3>4. sc[(c + skip) + 1] = NextMark(w, sc[c + skip])
      BY <3>3, ScriptMarks
    <3> QED
      BY <3>2, <3>4, MarkFields DEF NextMark
  <2>5. ASSUME NEW m \in 1..skip PROVE sc[c + m].s # 1
    <3>1. CASE m = 1
      BY <2>3, <3>1
    <3>2. CASE m # 1
      <4>1. /\ m - 1 \in 1..(skip - 1) /\ m - 1 \in 1..n /\ c + m = (c + (m - 1)) + 1
            /\ c + (m - 1) \in 1..(Len(sc) - 1)
        BY <1>1, <2>2, <3>2
      <4>2. ~Ends(w, sc[c + (m - 1)])
        <5>1. l[m - 1].val = Full /\ l[m - 1].val = page.segments[m - 1]
          BY <1>0, <2>2, <4>1
        <5>2. ~(page.segments[m - 1] < Full)
          BY <5>1, FramingAssumption
        <5> QED
          BY <1>1, <4>1, <5>2
      <4>3. sc[(c + (m - 1)) + 1] = NextMark(w, sc[c + (m - 1)])
        BY <4>1, ScriptNext
      <4>4. sc[c + m].s = sc[c + (m - 1)].s + 1
        BY <4>1, <4>2, <4>3, MarkFields DEF NextMark
      <4>5. sc[c + (m - 1)].s \in Nat /\ sc[c + (m - 1)].s > 0
        <5>1. c + (m - 1) \in 1..Len(sc)
          BY <1>1, <4>1
        <5> QED
          BY <5>1, ScriptMarks, SegsOf DEF IsMark
      <4> QED
        BY <4>4, <4>5
    <3> QED
      BY <3>1, <3>2
  <2> QED
    BY <1>1, <1>7, <2>2, <2>3, <2>4, <2>5 DEF SkipOK, c, n, page, skip, ends
<1> QED
  BY <1>6, <1>7

\* The last segment of a last page is marked as the end of the stream.
Marked(l, e) == IF e /\ l # <<>> THEN [l EXCEPT ![Len(l)].eos = TRUE] ELSE l

\* The stream after a page, in parts.
After(at, page, skip) ==
  LET last == LastEnd(page, skip)
  IN  [at EXCEPT
        !.body = at.body \o LeftOf(page, skip),
        !.lacing = Marked(at.lacing \o NewOf(page, skip), page.eos),
        !.packet = IF last = 0 THEN at.packet ELSE Len(at.lacing) + last - skip,
        !.eos = at.eos \/ page.eos,
        !.pageno = page.pageno + 1]

LEMMA PageInIs ==
  ASSUME NEW os, NEW page \in PageType,
         Orphans(Resumed(os, page), page) \in 0..Len(page.segments)
  PROVE  PageIn(os, page) = After(Resumed(os, page), page, Orphans(Resumed(os, page), page))
<1> DEFINE at == Resumed(os, page)
           skip == Orphans(at, page)
           size == Bytes([i \in 1..skip |-> [val |-> page.segments[i]]], skip)
<1>1. size = Bytes(LacingOf(page), skip)
  <2> HIDE DEF skip
  <2> DEFINE k == [i \in 1..skip |-> [val |-> page.segments[i]]]
             l == LacingOf(page)
  <2>1. skip \in 0..Len(page.segments)
    BY DEF skip
  <2>2. skip \in Nat
    BY <2>1
  <2>3. \A i \in 1..skip : i \in 1..Len(page.segments)
    <3>1. page.segments \in Seq(0..Full)
      BY DEF PageType
    <3>2. Len(page.segments) \in Nat
      <4> DEFINE S == 0..Full
      <4>1. page.segments \in Seq(S)
        BY <3>1
      <4> HIDE DEF S
      <4> QED
        BY <4>1
    <3> QED
      BY <2>1, <3>2
  <2>4. \A i \in 1..skip : k[i].val = l[i].val
    BY <2>3 DEF LacingOf
  <2> HIDE DEF k, l
  <2>5. Bytes(k, skip) = Bytes(l, skip)
    BY <2>2, <2>4, BytesAgree
  <2> QED
    BY <2>5 DEF k, l
<1>2. LeftOf(page, skip) = SubSeq(page.body, size + 1, Len(page.body))
  BY <1>1 DEF LeftOf
<1> QED
  <2> DEFINE lacing == at.lacing \o NewOf(page, skip)
             last == LastEnd(page, skip)
             E(d) == [at EXCEPT
                       !.body = at.body \o d,
                       !.lacing = IF page.eos /\ lacing # <<>>
                                  THEN [lacing EXCEPT ![Len(lacing)].eos = TRUE]
                                  ELSE lacing,
                       !.packet = IF last = 0 THEN at.packet ELSE Len(at.lacing) + last - skip,
                       !.eos = at.eos \/ page.eos,
                       !.pageno = page.pageno + 1]
  <2>1. PageIn(os, page) = E(SubSeq(page.body, size + 1, Len(page.body)))
    BY Zenon DEF PageIn, NewOf, LastEnd
  <2>2. After(at, page, skip) = E(LeftOf(page, skip))
    BY Zenon DEF After, Marked
  <2> HIDE DEF E, at, skip, size
  <2>3. PageIn(os, page) = After(at, page, skip)
    BY <1>2, <2>1, <2>2
  <2> QED
    BY <2>3 DEF at, skip

\* The segments m are the segments l, but for the mark of e_o_s on the last.
Remarked(m, l, b, e) ==
  \A i \in 1..Len(l) :
    /\ m[i].val = l[i].val /\ m[i].first = l[i].first
    /\ m[i].hole = l[i].hole /\ m[i].granule = l[i].granule
    /\ m[i] = l[i] \/ (e = TRUE /\ i = Len(l))
    /\ SamePiece(m, b, i, l, b, i)

\* The same segments, the last of them marked as the end of the stream.
LEMMA MarkedSegs ==
  ASSUME NEW l, NEW b, Laid(SegType, l, b), NEW e \in BOOLEAN,
         NEW m, m = Marked(l, e)
  PROVE  /\ Laid(SegType, m, b) /\ Len(m) = Len(l) /\ Len(l) \in Nat
         /\ Remarked(m, l, b, e)
<1>1. l \in Seq(SegType) /\ b \in Seq(Byte) /\ (\A i \in 1..Len(l) : l[i].val \in Nat)
      /\ Bytes(l, Len(l)) = Len(b)
  BY DEF Laid
<1>2. Len(l) \in Nat /\ \A i \in 1..Len(l) : l[i] \in SegType
  <2> HIDE DEF SegType
  <2> QED
    BY <1>1
<1>3. CASE ~(e /\ l # <<>>)
  <2>1. m = l
    BY <1>3 DEF Marked
  <2> QED
    BY <1>2, <2>1 DEF Remarked, SamePiece
<1>4. CASE e /\ l # <<>>
  <2> DEFINE k == Len(l)
             z == [l[k] EXCEPT !.eos = TRUE]
  <2>1. k \in 1..k
    <3> HIDE DEF SegType
    <3> QED
      BY <1>1, <1>4
  <2>2. m = [l EXCEPT ![k] = z]
    BY <1>4 DEF Marked
  <2>3. l[k] \in SegType
    BY <1>2, <2>1
  <2>4. z \in SegType /\ z.val = l[k].val /\ z.first = l[k].first /\ z.hole = l[k].hole
        /\ z.granule = l[k].granule
    BY <2>3 DEF SegType
  <2> HIDE DEF z
  <2>5. m \in Seq(SegType) /\ Len(m) = Len(l) /\ m[k] = z
        /\ \A i \in 1..Len(l) : i # k => m[i] = l[i]
    <3>1. l \in Seq(SegType) /\ k \in 1..Len(l) /\ z \in SegType
      BY <1>1, <2>1, <2>4
    <3> HIDE DEF SegType, k
    <3>2. /\ [l EXCEPT ![k] = z] \in Seq(SegType) /\ Len([l EXCEPT ![k] = z]) = Len(l)
          /\ [l EXCEPT ![k] = z][k] = z
          /\ \A i \in 1..Len(l) : i # k => [l EXCEPT ![k] = z][i] = l[i]
      BY <3>1
    <3> QED
      BY <2>2, <3>2
  <2>6. \A i \in 1..Len(l) : /\ m[i].val = l[i].val /\ m[i].first = l[i].first
                             /\ m[i].hole = l[i].hole /\ m[i].granule = l[i].granule
                             /\ m[i] = l[i] \/ (e = TRUE /\ i = Len(l))
    BY <1>4, <2>4, <2>5
  <2>7. Bytes(m, Len(l)) = Bytes(l, Len(l))
    BY <1>2, <2>6, BytesAgree
  <2>8. Laid(SegType, m, b)
    BY <1>1, <2>5, <2>6, <2>7 DEF Laid
  <2>9. ASSUME NEW i \in 1..Len(l) PROVE Piece(m, b, i) = Piece(l, b, i)
    <3>1. i - 1 \in Nat /\ \A q \in 1..(i - 1) : m[q].val = l[q].val
      BY <1>2, <2>6
    <3>2. Bytes(m, i - 1) = Bytes(l, i - 1)
      BY <3>1, BytesAgree
    <3>3. m[i].val = l[i].val
      BY <2>6
    <3>4. \A t \in 1..l[i].val : b[Bytes(m, i - 1) + t] = b[Bytes(l, i - 1) + t]
      BY <3>2
    <3> QED
      BY <3>3, <3>4 DEF Piece
  <2> QED
    BY <1>2, <2>5, <2>6, <2>8, <2>9 DEF Remarked, SamePiece
<1> QED
  BY <1>3, <1>4

\* Segment i of what is held after a page: one held before, or one it adds.
JoinedOK(at, o, page, skip, i) ==
  LET N   == Len(at.lacing)
      x   == o.lacing[i]
      was == IF i <= N THEN at.lacing[i] ELSE NewOf(page, skip)[i - N]
  IN  /\ x.val = was.val /\ x.first = was.first /\ x.hole = was.hole /\ x.granule = was.granule
      /\ x = was \/ (page.eos = TRUE /\ i = Len(o.lacing))
      /\ Piece(o.lacing, o.body, i) =
           IF i <= N THEN Piece(at.lacing, at.body, i)
           ELSE Piece(NewOf(page, skip), LeftOf(page, skip), i - N)

LEMMA AfterFields ==
  ASSUME NEW at, StreamOK(at), NEW page \in PageType, NEW skip \in 0..Len(page.segments),
         Len(NewOf(page, skip)) = Len(page.segments) - skip,
         Laid(SegType, NewOf(page, skip), LeftOf(page, skip))
  PROVE  LET o == After(at, page, skip)
             last == LastEnd(page, skip)
         IN  /\ StreamOK(o)
             /\ Len(at.lacing) \in Nat /\ Len(page.segments) \in Nat
             /\ Len(o.lacing) = Len(at.lacing) + (Len(page.segments) - skip)
             /\ o.packet = IF last = 0 THEN at.packet ELSE Len(at.lacing) + last - skip
             /\ o.pageno = page.pageno + 1
             /\ \A i \in 1..Len(o.lacing) : JoinedOK(at, o, page, skip, i)
<1> DEFINE o == After(at, page, skip)
           last == LastEnd(page, skip)
           n == Len(page.segments)
           new == NewOf(page, skip)
           left == LeftOf(page, skip)
           l == at.lacing
           N == Len(l)
           j == l \o new
           b == at.body \o left
           m == Marked(j, page.eos)
<1>1. /\ Laid(SegType, l, at.body) /\ l \in Seq(SegType) /\ N \in Nat
      /\ at.packet \in 0..N /\ at \in Stream
  BY StreamLaid DEF StreamOK
<1>2. page.segments \in Seq(0..Full) /\ page.eos \in BOOLEAN /\ page.pageno \in Nat
  BY DEF PageType
<1>3. n \in Nat /\ skip \in Nat /\ n - skip \in Nat
  <2>1. n \in Nat
    <3> DEFINE S == 0..Full
    <3>1. page.segments \in Seq(S)
      BY <1>2
    <3> HIDE DEF S
    <3> QED
      BY <3>1
  <2> QED
    BY <2>1
<1>4. /\ last \in Nat /\ (last # 0 => last \in (skip + 1)..n)
  BY LastEndIs
<1>5. Laid(SegType, new, left) /\ Len(new) = n - skip
  OBVIOUS
<1>6. o = [at EXCEPT !.body = b, !.lacing = m,
             !.packet = IF last = 0 THEN at.packet ELSE N + last - skip,
             !.eos = at.eos \/ page.eos, !.pageno = page.pageno + 1]
  BY Zenon DEF After
<1> HIDE DEF o, last, n, new, left
<1>7. Laid(SegType, j, b) /\ Len(j) = N + (n - skip)
  <2>1. Laid(SegType, j, b)
    BY <1>1, <1>5, LaidBoth
  <2>2. new \in Seq(SegType)
    BY <1>5 DEF Laid
  <2> HIDE DEF SegType
  <2> QED
    BY <1>1, <1>5, <2>1, <2>2
<1>8. ASSUME NEW i \in 1..N
      PROVE  j[i] = l[i] /\ Piece(j, b, i) = Piece(l, at.body, i)
  <2>1. new \in Seq(SegType) /\ left \in Seq(Byte)
    BY <1>5 DEF Laid
  <2> QED
    BY <1>1, <2>1, PieceOfFirst
<1>9. ASSUME NEW i \in 1..(n - skip)
      PROVE  j[N + i] = new[i] /\ Piece(j, b, N + i) = Piece(new, left, i)
  <2>1. i \in 1..Len(new)
    BY <1>5
  <2>2. /\ (l \o new)[N + i] = new[i]
        /\ SamePiece(l \o new, at.body \o left, N + i, new, left, i)
    BY <1>1, <1>5, <2>1, PieceOfSecond
  <2> QED
    BY <2>2 DEF SamePiece
<1> HIDE DEF j, b
<1>0. m = Marked(j, page.eos)
  OBVIOUS
<1> HIDE DEF m
<1>10. /\ Laid(SegType, m, b) /\ Len(m) = Len(j) /\ Len(j) \in Nat
       /\ Remarked(m, j, b, page.eos)
  BY <1>0, <1>2, <1>7, MarkedSegs
<1>11. /\ o.body = b /\ o.lacing = m /\ o.bos = at.bos
       /\ o.packet = (IF last = 0 THEN at.packet ELSE N + last - skip)
       /\ o.eos = (at.eos \/ page.eos) /\ o.pageno = page.pageno + 1
       /\ o.packetno = at.packetno /\ o.granulepos = at.granulepos /\ o.serialno = at.serialno
       /\ o = [body |-> o.body, lacing |-> o.lacing, packet |-> o.packet, bos |-> o.bos,
               eos |-> o.eos, pageno |-> o.pageno, packetno |-> o.packetno,
               granulepos |-> o.granulepos, serialno |-> o.serialno]
  BY <1>1, <1>6 DEF Stream
<1>12. m \in Seq(SegType) /\ b \in Seq(Byte) /\ Bytes(m, Len(m)) = Len(b)
  BY <1>10 DEF Laid
<1>13. o.packet \in 0..Len(m)
  <2>1. Len(m) = N + (n - skip)
    BY <1>7, <1>10
  <2>2. CASE last = 0
    <3>1. o.packet = at.packet
      BY <1>11, <2>2
    <3> QED
      BY <1>1, <1>3, <2>1, <3>1
  <2>3. CASE last # 0
    <3>1. o.packet = N + last - skip
      BY <1>11, <2>3
    <3>2. last \in (skip + 1)..n
      BY <1>4, <2>3
    <3> QED
      BY <1>1, <1>3, <2>1, <3>1, <3>2
  <2> QED
    BY <2>2, <2>3
<1>14. o \in Stream
  <2>1. /\ at.bos \in BOOLEAN /\ at.packetno \in Nat
        /\ at.granulepos \in Int /\ at.serialno \in Nat
    BY <1>1 DEF Stream
  <2>2. o.packet \in Nat /\ o.pageno \in Int
    BY <1>2, <1>10, <1>11, <1>13
  <2>3. o.eos \in BOOLEAN
    BY <1>11
  <2> HIDE DEF SegType, Byte
  <2> QED
    BY <1>11, <1>12, <2>1, <2>2, <2>3 DEF Stream
<1>15. StreamOK(o)
  BY <1>11, <1>12, <1>13, <1>14 DEF StreamOK
<1>16. ASSUME NEW i \in 1..Len(m) PROVE JoinedOK(at, o, page, skip, i)
  <2>1. i \in 1..Len(j) /\ Len(m) = Len(j)
    BY <1>10
  <2>2. CASE i <= N
    <3>1. i \in 1..N
      BY <1>1, <2>2
    <3> QED
      BY <1>8, <1>10, <1>11, <2>1, <2>2, <3>1 DEF JoinedOK, Remarked, SamePiece
  <2>3. CASE ~(i <= N)
    <3>1. i - N \in 1..(n - skip) /\ N + (i - N) = i
      BY <1>1, <1>3, <1>7, <2>1, <2>3
    <3>2. j[i] = new[i - N] /\ Piece(j, b, i) = Piece(new, left, i - N)
      BY <1>9, <3>1
    <3> QED
      BY <1>10, <1>11, <2>1, <2>3, <3>2 DEF JoinedOK, Remarked, SamePiece, new, left
  <2> QED
    BY <2>2, <2>3
<1> QED
  BY <1>1, <1>3, <1>7, <1>10, <1>11, <1>15, <1>16 DEF o, last, n

\* Each of n segments after place c is held now, but for the rest of a packet
\* whose beginning is not here.
Adds(sc, at, o, p2, c, n) ==
  \A i \in 1..n :
    \/ HeldAt(o, p2, c + i)
    \/ /\ \A m \in 1..i : sc[c + m].s # 1
       /\ at.lacing = <<>> \/ at.lacing[Len(at.lacing)].hole = TRUE

\* The segments held after page j, and where they come from.
LEMMA PageAdded ==
  ASSUME NEW w, NEW pp, NEW sc, PacketsOK(w), IsScript(w, sc), PagesOK(w, pp, sc),
         NEW j \in 1..Len(pp), NEW at, NEW pos, NEW g,
         MidOK(w, pp, sc, at, pos, j), GotAt(w, pp, sc, at, pos, g, Cut(pp, j - 1))
  PROVE  LET o == After(at, pp[j], Orphans(at, pp[j]))
         IN  /\ \E p2 : /\ ReaderOK(w, pp, sc, o, p2) /\ GotOK(w, pp, sc, o, p2, g)
                         /\ Keeps(at, pos, Len(at.lacing), o, p2)
                         /\ Adds(sc, at, o, p2, Cut(pp, j - 1), Len(pp[j].segments))
             /\ o.pageno = j
             /\ (\A i \in 1..Len(at.lacing) : at.lacing[i].hole = FALSE) =>
                  \A i \in 1..Len(o.lacing) : o.lacing[i].hole = FALSE
<1> DEFINE page == pp[j]
           skip == Orphans(at, page)
           o == After(at, page, skip)
           N == Len(at.lacing)
           n == Len(page.segments)
           c == Cut(pp, j - 1)
           M == Len(o.lacing)
           new == NewOf(page, skip)
           left == LeftOf(page, skip)
           last == LastEnd(page, skip)
           p2 == [i \in 1..M |-> IF i <= N THEN pos[i] ELSE c + skip + (i - N)]
           ends == at.lacing = <<>> \/ at.lacing[N].hole = TRUE
<1>1. /\ pp \in Seq(PageType) /\ Len(pp) \in Nat /\ page \in PageType
      /\ PageOK(w, pp, sc, j)
      /\ c \in Nat /\ n \in Nat /\ n > 0 /\ Len(sc) \in Nat
      /\ Cut(pp, j) = c + n /\ c + n <= Len(sc)
      /\ \A i \in 1..n :
           /\ c + i \in 1..Len(sc)
           /\ page.segments[i] < Full <=> Ends(w, sc[c + i])
  BY PagePlaces
<1>2. /\ at.pageno \in -1..(j - 1)
      /\ at.pageno = -1 => at.lacing = <<>>
      /\ Holds(w, pp, sc, at, pos, c)
      /\ \A i \in 1..N : at.lacing[i].hole = TRUE => at.lacing[i] = Hole
  BY DEF MidOK
<1>3. /\ StreamOK(at) /\ pos \in [1..N -> Nat]
      /\ (\A i \in 1..N : HeldOK(w, pp, sc, at, pos, i))
      /\ ChainOK(sc, at, pos) /\ OrderOK(at, pos) /\ LastOK(at, pos, c) /\ WholesOK(at)
  BY <1>2 DEF Holds
<1>4. /\ skip \in 0..n
      /\ ends /\ skip < n => sc[c + skip + 1].s = 1
      /\ ~ends => skip = 0
      /\ sc[c + 1].s = 1 => skip = 0
      /\ \A m \in 1..skip : sc[c + m].s # 1
  <2>1. SkipOK(sc, at, c, n, skip)
    BY OrphansAre
  <2> QED
    BY <2>1 DEF SkipOK
<1>5. NewOK(w, pp, sc, j, skip)
  BY <1>4, NewSegments
<1>6. /\ Laid(SegType, new, left) /\ Len(new) = n - skip
      /\ \A i \in 1..(n - skip) : new[i].val = page.segments[skip + i]
      /\ \A i \in 1..(n - skip) : AddedOK(w, pp, sc, new, left, i, sc[c + skip + i])
  BY <1>5 DEF NewOK
<1>7. /\ StreamOK(o) /\ N \in Nat
      /\ M = N + (n - skip)
      /\ o.packet = IF last = 0 THEN at.packet ELSE N + last - skip
      /\ o.pageno = page.pageno + 1
      /\ \A i \in 1..M : JoinedOK(at, o, page, skip, i)
  BY <1>1, <1>3, <1>4, <1>6, AfterFields
<1>8. /\ last \in Nat
      /\ last = 0 => \A i \in (skip + 1)..n : page.segments[i] = Full
      /\ last # 0 => /\ last \in (skip + 1)..n /\ page.segments[last] < Full
                     /\ \A i \in (last + 1)..n : page.segments[i] = Full
  BY <1>1, <1>4, LastEndIs
<1>9. o.pageno = j
  BY <1>1, <1>7 DEF PageOK
<1>10. /\ page.eos = TRUE => j = Len(pp) /\ c + n = Len(sc) /\ AtEnd(w)
  BY <1>1 DEF PageOK
<1>11. /\ skip \in Nat /\ n - skip \in Nat /\ M \in Nat
  <2>1. skip \in 0..n /\ n \in Nat /\ N \in Nat
    BY <1>1, <1>4, <1>7
  <2>2. skip \in Nat /\ n - skip \in Nat
    BY <2>1
  <2>3. M = N + (n - skip)
    BY <1>7
  <2> QED
    BY <2>1, <2>2, <2>3
<1> HIDE DEF page, skip, o, N, n, c, new, left, last, ends
<1>12. \A i \in 1..N : i \in 1..M /\ p2[i] = pos[i]
  BY <1>7, <1>11
<1>13. \A i \in 1..(n - skip) : /\ N + i \in 1..M
                                /\ p2[N + i] = c + skip + i /\ c + skip + i \in 1..Len(sc)
                                /\ c + skip + i <= c + n /\ c + skip + i > c
  BY <1>1, <1>7, <1>11
<1>14. \A i \in 1..M : i \in 1..N \/ (i - N \in 1..(n - skip) /\ N + (i - N) = i)
  BY <1>7, <1>11
<1>15. p2 \in [1..M -> Nat]
  <2>1. ASSUME NEW i \in 1..M PROVE (IF i <= N THEN pos[i] ELSE c + skip + (i - N)) \in Nat
    <3>1. CASE i <= N
      BY <1>3, <1>7, <3>1
    <3>2. CASE ~(i <= N)
      BY <1>1, <1>7, <1>11, <3>2
    <3> QED
      BY <3>1, <3>2
  <2> QED
    BY <2>1
<1> HIDE DEF p2, M
\* What was held stays.
<1>16. ASSUME NEW i \in 1..N
       PROVE  /\ o.lacing[i].val = at.lacing[i].val /\ o.lacing[i].first = at.lacing[i].first
              /\ o.lacing[i].hole = at.lacing[i].hole /\ o.lacing[i].granule = at.lacing[i].granule
              /\ o.lacing[i] = at.lacing[i] \/ (page.eos = TRUE /\ i = M)
              /\ Piece(o.lacing, o.body, i) = Piece(at.lacing, at.body, i)
  <2>1. JoinedOK(at, o, page, skip, i) /\ i <= N
    BY <1>7, <1>12
  <2> QED
    BY <2>1 DEF JoinedOK, N, M
\* What the page adds.
<1>17. ASSUME NEW i \in 1..(n - skip)
       PROVE  /\ o.lacing[N + i].val = new[i].val /\ o.lacing[N + i].first = new[i].first
              /\ o.lacing[N + i].hole = FALSE /\ o.lacing[N + i].granule = new[i].granule
              /\ new[i].eos = FALSE
              /\ o.lacing[N + i] = new[i] \/ (page.eos = TRUE /\ N + i = M)
              /\ Piece(o.lacing, o.body, N + i) = Piece(new, left, i)
  <2>1. JoinedOK(at, o, page, skip, N + i)
    BY <1>7, <1>13
  <2>2. ~(N + i <= N) /\ (N + i) - N = i
    BY <1>7
  <2>3. new[i].hole = FALSE /\ new[i].eos = FALSE
    BY <1>6 DEF AddedOK
  <2> QED
    BY <2>1, <2>2, <2>3 DEF JoinedOK, N, M, new, left
\* What is held goes no further than the page before.
<1>18. ASSUME NEW i \in 1..N, at.lacing[i].hole = FALSE
       PROVE  pos[i] \in 1..Len(sc) /\ pos[i] <= c /\ pos[i] <= c + n
  <2>1. pos[i] \in 1..Len(sc) /\ pos[i] <= Cut(pp, at.pageno)
    BY <1>3, <1>18 DEF HeldOK
  <2>2. at.pageno # -1
    <3>1. at.lacing # <<>>
      BY <1>7 DEF N
    <3> QED
      BY <1>2, <3>1
  <2>3. j \in Int /\ at.pageno \in Int /\ at.pageno >= 0 /\ at.pageno <= j - 1
    BY <1>2, <2>2
  <2>4. Cut(pp, at.pageno) \in Nat /\ Cut(pp, at.pageno) <= c
    BY <1>1, <2>3, CutsBefore DEF c
  <2> QED
    BY <1>1, <2>1, <2>4
<1>19. N > 0 /\ at.lacing[N].hole = FALSE => ~ends /\ skip = 0 /\ M = N + n /\ pos[N] = c
  <2>1. SUFFICES ASSUME N > 0, at.lacing[N].hole = FALSE
                 PROVE  ~ends /\ skip = 0 /\ M = N + n /\ pos[N] = c
    OBVIOUS
  <2>2. at.lacing # <<>>
    BY <2>1 DEF N
  <2>3. ~ends
    BY <2>1, <2>2 DEF ends
  <2>4. skip = 0
    BY <1>4, <2>3
  <2>5. pos[N] = c
    BY <1>3, <2>1 DEF LastOK, N
  <2> QED
    BY <1>1, <1>7, <2>3, <2>4, <2>5 DEF M
<1>20. LastOK(o, p2, c + n)
  <2>1. SUFFICES ASSUME M > 0, o.lacing[M].hole = FALSE PROVE p2[M] = c + n
    BY DEF LastOK, M
  <2>2. CASE n - skip > 0
    <3>1. n - skip \in 1..(n - skip) /\ N + (n - skip) = M
      BY <1>7, <1>11, <2>2 DEF M
    <3>2. p2[N + (n - skip)] = c + skip + (n - skip)
      BY <1>13, <3>1
    <3> QED
      BY <1>1, <1>11, <3>1, <3>2
  <2>3. CASE ~(n - skip > 0)
    <3>1. M = N /\ N > 0 /\ N \in 1..N
      BY <1>7, <1>11, <2>1, <2>3 DEF M
    <3>2. at.lacing[N].hole = FALSE
      BY <1>16, <2>1, <3>1
    <3> QED
      BY <1>1, <1>19, <2>3, <3>1, <3>2
  <2> QED
    BY <2>2, <2>3
<1>21. ASSUME NEW i \in 1..N PROVE HeldOK(w, pp, sc, o, p2, i)
  <2>1. HeldOK(w, pp, sc, at, pos, i) /\ p2[i] = pos[i]
    BY <1>3, <1>12
  <2>2. CASE at.lacing[i].hole
    <3>1. at.lacing[i].val = 0 /\ at.lacing[i].first = FALSE
      BY <2>1, <2>2 DEF HeldOK
    <3>2. at.lacing[i] = Hole
      BY <1>2, <2>2, HoleFields
    <3>3. o.lacing[i] = Hole \/ o.pageno = Len(pp)
      BY <1>9, <1>10, <1>16, <3>2
    <3> QED
      BY <1>16, <2>2, <3>1, <3>3 DEF HeldOK
  <2>3. CASE ~at.lacing[i].hole
    <3>1. at.lacing[i].hole = FALSE
      <4>1. at.lacing \in Seq(SegType) /\ Len(at.lacing) = N
        BY <1>3, StreamLaid DEF N
      <4>2. at.lacing[i] \in SegType
        <5> HIDE DEF SegType
        <5> QED
          BY <4>1
      <4>3. at.lacing[i].hole \in BOOLEAN
        BY <4>2 DEF SegType
      <4> QED
        BY <2>3, <4>3
    <3>2. pos[i] \in 1..Len(sc) /\ pos[i] <= Cut(pp, o.pageno)
      BY <1>1, <1>9, <1>18, <3>1
    <3>3. /\ Carries(w, at.lacing, at.body, i, sc[pos[i]])
          /\ Ends(w, sc[pos[i]]) =>
               \/ at.lacing[i].granule = sc[pos[i]].p - 1
               \/ /\ at.lacing[i].granule = -1 /\ sc[pos[i]].p < MaxPackets
                  /\ EndTogether(w, pp, sc, sc[pos[i]].p)
          /\ at.lacing[i].eos = TRUE => pos[i] = Len(sc) /\ AtEnd(w)
          /\ at.lacing[i].first = TRUE => sc[pos[i]].p = 1
      BY <2>1, <2>3 DEF HeldOK
    <3>4. Carries(w, o.lacing, o.body, i, sc[pos[i]])
      BY <1>16, <3>3 DEF Carries
    <3>5. ASSUME page.eos = TRUE /\ i = M PROVE pos[i] = Len(sc) /\ AtEnd(w)
      <4>1. p2[i] = c + n
        <5>1. M > 0 /\ o.lacing[M].hole = FALSE
          <6>1. o.lacing[i].hole = FALSE
            BY <1>16, <3>1
          <6>2. i > 0
            BY <1>7
          <6> QED
            BY <3>5, <6>1, <6>2
        <5> QED
          BY <1>20, <3>5, <5>1 DEF LastOK, M
      <4> QED
        BY <1>10, <2>1, <3>5, <4>1
    <3>6. o.lacing[i].eos = TRUE => pos[i] = Len(sc) /\ AtEnd(w)
      BY <1>16, <3>3, <3>5
    <3> QED
      BY <1>16, <2>1, <3>1, <3>2, <3>3, <3>4, <3>6, Zenon DEF HeldOK
  <2> QED
    BY <2>2, <2>3
<1>22. ASSUME NEW i \in 1..(n - skip) PROVE HeldOK(w, pp, sc, o, p2, N + i)
  <2> DEFINE x == sc[c + skip + i]
  <2>1. AddedOK(w, pp, sc, new, left, i, x)
    BY <1>6
  <2>2. /\ Carries(w, new, left, i, x)
        /\ new[i].first = TRUE => x.p = 1
        /\ Ends(w, x) => \/ new[i].granule = x.p - 1
                         \/ new[i].granule = -1 /\ x.p < MaxPackets /\ EndTogether(w, pp, sc, x.p)
    BY <2>1 DEF AddedOK
  <2>3. p2[N + i] \in 1..Len(sc) /\ p2[N + i] <= Cut(pp, o.pageno) /\ sc[p2[N + i]] = x
    BY <1>1, <1>9, <1>13
  <2> HIDE DEF x
  <2>4. Carries(w, o.lacing, o.body, N + i, x)
    BY <1>17, <2>2 DEF Carries
  <2>5. o.lacing[N + i].eos = TRUE => p2[N + i] = Len(sc) /\ AtEnd(w)
    <3>1. SUFFICES ASSUME o.lacing[N + i].eos = TRUE PROVE p2[N + i] = Len(sc) /\ AtEnd(w)
      OBVIOUS
    <3>2. page.eos = TRUE /\ N + i = M
      BY <1>17, <3>1
    <3>3. M > 0
      BY <1>13, <3>2
    <3>4. p2[M] = c + n
      BY <1>17, <1>20, <3>2, <3>3 DEF LastOK, M
    <3> QED
      BY <1>10, <3>2, <3>4
  <2>6. /\ o.lacing[N + i].hole = FALSE /\ o.lacing[N + i].first = new[i].first
        /\ o.lacing[N + i].granule = new[i].granule
    BY <1>17
  <2> QED
    BY <2>2, <2>3, <2>4, <2>5, <2>6, Zenon DEF HeldOK
<1>23. ASSUME NEW i \in 1..M PROVE HeldOK(w, pp, sc, o, p2, i)
  BY <1>14, <1>21, <1>22
<1>24. ChainOK(sc, o, p2)
  <2>1. ASSUME M > 0 PROVE Begins(sc, o, p2, 1)
    <3>1. CASE N > 0
      <4>1. 1 \in 1..N
        BY <1>7, <3>1
      <4>2. Begins(sc, at, pos, 1)
        BY <1>3, <3>1 DEF ChainOK, N
      <4> QED
        BY <1>12, <1>16, <4>1, <4>2 DEF Begins
    <3>2. CASE ~(N > 0)
      <4>1. N = 0 /\ n - skip > 0 /\ 1 \in 1..(n - skip) /\ N + 1 = 1 /\ skip < n
        BY <1>1, <1>7, <1>11, <2>1, <3>2 DEF M
      <4>2. at.lacing = <<>>
        <5>1. at.lacing \in Seq(SegType)
          BY <1>3, StreamLaid
        <5> HIDE DEF SegType
        <5> QED
          BY <4>1, <5>1 DEF N
      <4>3. ends
        BY <4>2 DEF ends
      <4>4. sc[c + skip + 1].s = 1
        BY <1>4, <4>1, <4>3
      <4>5. p2[1] = c + skip + 1
        BY <1>13, <4>1
      <4> QED
        BY <4>4, <4>5 DEF Begins
    <3> QED
      BY <3>1, <3>2
  <2>2. ASSUME NEW i \in 1..(M - 1) PROVE Linked(sc, o, p2, i)
    <3>0. i \in 1..M /\ i + 1 \in 1..M
      BY <1>11
    <3>1. CASE i < N
      <4>1. i \in 1..(N - 1) /\ i \in 1..N /\ i + 1 \in 1..N
        BY <1>7, <3>1
      <4>2. Linked(sc, at, pos, i)
        BY <1>3, <4>1 DEF ChainOK, N
      <4>3. /\ o.lacing[i].hole = at.lacing[i].hole /\ o.lacing[i].val = at.lacing[i].val
            /\ o.lacing[i + 1].hole = at.lacing[i + 1].hole
            /\ p2[i] = pos[i] /\ p2[i + 1] = pos[i + 1]
        BY <1>12, <1>16, <4>1
      <4> QED
        BY <4>2, <4>3, Zenon DEF Linked, Begins
    <3>2. CASE i = N
      <4>1. 1 \in 1..(n - skip) /\ skip < n /\ N \in 1..N /\ N > 0
        <5>1. N + 1 \in 1..M /\ N \in 1..M
          BY <3>0, <3>2
        <5>2. N + 1 <= N + (n - skip) /\ N >= 1
          <6>1. N \in Nat /\ M \in Nat /\ M = N + (n - skip)
            BY <1>7, <1>11
          <6> HIDE DEF M
          <6> QED
            BY <5>1, <6>1
        <5>3. N \in Nat /\ n - skip \in Nat /\ n \in Nat /\ skip \in Nat
          BY <1>1, <1>7, <1>11
        <5> QED
          BY <5>2, <5>3
      <4>2. o.lacing[N + 1].hole = FALSE /\ p2[N + 1] = c + skip + 1
        BY <1>13, <1>17, <4>1
      <4>3. CASE o.lacing[N].hole
        <5>1. at.lacing[N].hole = TRUE
          <6>1. at.lacing[N].hole
            BY <1>16, <4>1, <4>3
          <6>2. HeldOK(w, pp, sc, at, pos, N) /\ at.lacing[N] = at.lacing[N]
            BY <1>3, <4>1
          <6>3. at.lacing \in Seq(SegType) /\ Len(at.lacing) = N
            BY <1>3, StreamLaid DEF N
          <6>4. at.lacing[N] \in SegType
            <7> HIDE DEF SegType
            <7> QED
              BY <4>1, <6>3
          <6>5. at.lacing[N].hole \in BOOLEAN
            BY <6>4 DEF SegType
          <6> QED
            BY <6>1, <6>5
        <5>2. ends
          BY <5>1 DEF ends
        <5>3. sc[c + skip + 1].s = 1
          BY <1>4, <4>1, <5>2
        <5>4. Begins(sc, o, p2, N + 1)
          BY <4>2, <5>3 DEF Begins
        <5> QED
          BY <3>2, <4>3, <5>4, Zenon DEF Linked
      <4>4. CASE ~o.lacing[N].hole
        <5>1. at.lacing[N].hole = FALSE
          <6>1. ~at.lacing[N].hole
            BY <1>16, <4>1, <4>4
          <6>3. at.lacing \in Seq(SegType) /\ Len(at.lacing) = N
            BY <1>3, StreamLaid DEF N
          <6>4. at.lacing[N] \in SegType
            <7> HIDE DEF SegType
            <7> QED
              BY <4>1, <6>3
          <6>5. at.lacing[N].hole \in BOOLEAN
            BY <6>4 DEF SegType
          <6> QED
            BY <6>1, <6>5
        <5>2. skip = 0 /\ pos[N] = c
          BY <1>19, <4>1, <5>1
        <5>3. p2[N + 1] = p2[N] + 1
          BY <1>1, <1>12, <4>1, <4>2, <5>2
        <5> QED
          BY <3>2, <4>2, <4>4, <5>3 DEF Linked
      <4> QED
        BY <4>3, <4>4
    <3>3. CASE i > N
      <4>1. i - N \in 1..(n - skip) /\ (i - N) + 1 \in 1..(n - skip) /\ N + (i - N) = i
            /\ N + ((i - N) + 1) = i + 1
        BY <1>7, <1>11, <3>0, <3>3 DEF M
      <4>2. p2[i] = c + skip + (i - N) /\ p2[i + 1] = c + skip + ((i - N) + 1)
        BY <1>13, <4>1
      <4>3. o.lacing[i].hole = FALSE /\ o.lacing[i + 1].hole = FALSE
        BY <1>17, <4>1
      <4>4. p2[i + 1] = p2[i] + 1
        BY <1>1, <1>11, <4>1, <4>2
      <4> QED
        BY <4>3, <4>4 DEF Linked
    <3> QED
      BY <1>7, <3>1, <3>2, <3>3
  <2> QED
    BY <2>1, <2>2 DEF ChainOK, M
<1>25. OrderOK(o, p2)
  <2>1. SUFFICES ASSUME NEW i \in 1..M, NEW k \in 1..M, i < k, o.lacing[i].hole = FALSE,
                        o.lacing[k].hole = FALSE
                 PROVE  p2[i] < p2[k]
    BY DEF OrderOK, M
  <2>2. CASE k \in 1..N
    <3>1. i \in 1..N
      BY <1>7, <2>1, <2>2
    <3> QED
      BY <1>3, <1>12, <1>16, <2>1, <2>2, <3>1 DEF OrderOK, N
  <2>3. CASE k \notin 1..N /\ i \in 1..N
    <3>1. at.lacing[i].hole = FALSE
      BY <1>16, <2>1, <2>3
    <3>2. p2[i] \in Int /\ p2[i] <= c
      <4>1. pos[i] \in 1..Len(sc) /\ pos[i] <= c
        BY <1>18, <2>3, <3>1
      <4>2. p2[i] = pos[i]
        BY <1>12, <2>3
      <4> QED
        BY <4>1, <4>2
    <3>3. k - N \in 1..(n - skip) /\ N + (k - N) = k
      BY <1>14, <2>3
    <3>4. p2[k] = c + skip + (k - N)
      BY <1>13, <3>3
    <3> QED
      BY <1>1, <1>11, <3>2, <3>3, <3>4
  <2>4. CASE k \notin 1..N /\ i \notin 1..N
    <3>1. i - N \in 1..(n - skip) /\ N + (i - N) = i /\ k - N \in 1..(n - skip) /\ N + (k - N) = k
      BY <1>14, <2>4
    <3>2. p2[i] = c + skip + (i - N) /\ p2[k] = c + skip + (k - N)
      BY <1>13, <3>1
    <3> QED
      BY <1>1, <1>7, <1>11, <2>1, <3>1, <3>2
  <2> QED
    BY <2>2, <2>3, <2>4
<1>26. WholesOK(o)
  <2>1. /\ at.packet > 0 => at.lacing[at.packet].val < Full
        /\ \A i \in (at.packet + 1)..N : at.lacing[i].val = Full
        /\ at.packet \in 0..N
    BY <1>3 DEF WholesOK, StreamOK, N
  <2>2. ASSUME NEW i \in 1..(n - skip)
        PROVE  o.lacing[N + i].val = page.segments[skip + i]
    BY <1>6, <1>17
  <2>3. CASE last = 0
    <3>1. o.packet = at.packet
      BY <1>7, <2>3
    <3>2. at.packet > 0 => o.lacing[at.packet].val < Full
      <4>1. at.packet > 0 => at.packet \in 1..N
        BY <1>7, <2>1
      <4> QED
        BY <1>16, <2>1, <4>1
    <3>3. ASSUME NEW i \in (at.packet + 1)..M PROVE o.lacing[i].val = Full
      <4>1. i \in 1..M
        BY <1>7, <1>11, <2>1
      <4>2. CASE i \in 1..N
        <5>1. i \in (at.packet + 1)..N
          BY <1>7, <2>1, <4>2
        <5> QED
          BY <1>16, <2>1, <4>2, <5>1
      <4>3. CASE i \notin 1..N
        <5>1. i - N \in 1..(n - skip) /\ N + (i - N) = i
          BY <1>14, <4>1, <4>3
        <5>2. skip + (i - N) \in (skip + 1)..n
          BY <1>1, <1>11, <5>1
        <5> QED
          BY <1>8, <2>2, <2>3, <5>1, <5>2
      <4> QED
        BY <4>2, <4>3
    <3> QED
      BY <3>1, <3>2, <3>3 DEF WholesOK, M
  <2>4. CASE last # 0
    <3>1. /\ o.packet = N + last - skip
          /\ last \in (skip + 1)..n /\ page.segments[last] < Full
          /\ \A i \in (last + 1)..n : page.segments[i] = Full
      BY <1>7, <1>8, <2>4
    <3>2. /\ last - skip \in 1..(n - skip) /\ N + (last - skip) = N + last - skip
          /\ skip + (last - skip) = last
      BY <1>1, <1>7, <1>11, <3>1
    <3>3. o.lacing[o.packet].val < Full
      BY <2>2, <3>1, <3>2
    <3>4. ASSUME NEW i \in (o.packet + 1)..M PROVE o.lacing[i].val = Full
      <4>1. i - N \in 1..(n - skip) /\ N + (i - N) = i /\ skip + (i - N) \in (last + 1)..n
        BY <1>1, <1>7, <1>11, <3>1, <3>2 DEF M
      <4> QED
        BY <2>2, <3>1, <4>1
    <3> QED
      BY <3>3, <3>4 DEF WholesOK, M
  <2> QED
    BY <2>3, <2>4
<1>27. ReaderOK(w, pp, sc, o, p2)
  <2>1. Holds(w, pp, sc, o, p2, Cut(pp, o.pageno))
    BY <1>1, <1>7, <1>9, <1>15, <1>20, <1>23, <1>24, <1>25, <1>26 DEF Holds, M
  <2>2. o.pageno \in -1..Len(pp) /\ o.pageno # 0 /\ o.pageno # -1
    BY <1>1, <1>9
  <2> QED
    BY <2>1, <2>2 DEF ReaderOK
<1>28. GotAt(w, pp, sc, at, pos, g, c)
  BY DEF c
<1>29. ASSUME NEW p, EndedBefore(w, sc, at, pos, p, c)
       PROVE  EndedBefore(w, sc, o, p2, p, c + n)
  <2>1. PICK r \in 1..Len(sc) : /\ EndOf(w, sc, p, r) /\ r <= c
                                /\ \A k \in 1..N : at.lacing[k].hole = FALSE => r < pos[k]
    BY <1>29 DEF EndedBefore, N
  <2>2. ASSUME NEW k \in 1..M, o.lacing[k].hole = FALSE PROVE r < p2[k]
    <3>1. CASE k \in 1..N
      BY <1>12, <1>16, <2>1, <2>2, <3>1
    <3>2. CASE k \notin 1..N
      <4>1. k - N \in 1..(n - skip) /\ N + (k - N) = k
        BY <1>14, <3>2
      <4>2. p2[k] = c + skip + (k - N)
        BY <1>13, <4>1
      <4> QED
        BY <1>1, <1>11, <2>1, <4>1, <4>2
    <3> QED
      BY <3>1, <3>2
  <2>3. r <= c + n
    BY <1>1, <2>1
  <2> QED
    BY <2>1, <2>2, <2>3 DEF EndedBefore, M
<1>30. ASSUME NEW k, NextIs(w, sc, at, pos, k, c) PROVE NextIs(w, sc, o, p2, k, c + n)
  <2>1. CASE N > 0
    <3>1. at.lacing # <<>> /\ o.lacing # <<>> /\ 1 \in 1..N
      <4>1. o.lacing \in Seq(SegType) /\ M > 0
        BY <1>7, <1>11, <2>1, StreamLaid DEF M
      <4>2. o.lacing # <<>>
        BY <4>1 DEF M
      <4> QED
        BY <1>7, <2>1, <4>2 DEF N
    <3>2. at.lacing[1].hole = FALSE => sc[pos[1]] = Mark(k + 1, 1)
      BY <1>30, <3>1 DEF NextIs
    <3> QED
      BY <1>12, <1>16, <3>1, <3>2 DEF NextIs
  <2>2. CASE ~(N > 0)
    <3>1. N = 0 /\ at.lacing = <<>>
      <4>1. at.lacing \in Seq(SegType)
        BY <1>3, StreamLaid
      <4> HIDE DEF SegType
      <4> QED
        BY <1>7, <2>2, <4>1 DEF N
    <3>2. c > 0 /\ sc[c] = Mark(k, Segs(w, k))
      BY <1>30, <3>1 DEF NextIs
    <3>3. c \in 1..(Len(sc) - 1)
      BY <1>1, <3>2
    <3>4. sc[c + 1] = NextMark(w, sc[c])
      BY <3>3, ScriptMarks
    <3>5. sc[c + 1] = Mark(k + 1, 1)
      BY <3>2, <3>4, MarkFields DEF NextMark, Ends
    <3>6. skip = 0
      BY <1>4, <3>5, MarkFields
    <3>7. 1 \in 1..(n - skip) /\ N + 1 = 1 /\ M > 0 /\ c + skip + 1 = c + 1
      BY <1>1, <1>7, <3>1, <3>6
    <3>8. p2[1] = c + 1 /\ o.lacing[1].hole = FALSE
      BY <1>13, <1>17, <3>7
    <3>9. o.lacing # <<>>
      BY <3>7 DEF M
    <3> QED
      BY <3>5, <3>8, <3>9 DEF NextIs
  <2> QED
    BY <2>1, <2>2
<1>31. GotAt(w, pp, sc, o, p2, g, c + n)
  <2>1. /\ \E S : g \in Seq(S)
        /\ InOrder(g)
        /\ Len(g) \in Got(g) => NextIs(w, sc, at, pos, Id(g[Len(g)].p), c)
    BY <1>28 DEF GotAt
  <2>2. ASSUME NEW i \in Got(g)
        PROVE  /\ IsPacket(w, pp, sc, g[i].p, Id(g[i].p))
               /\ EndedBefore(w, sc, o, p2, g[i].p, c + n)
    <3>1. /\ IsPacket(w, pp, sc, g[i].p, Id(g[i].p))
          /\ EndedBefore(w, sc, at, pos, g[i].p, c)
      BY <1>28 DEF GotAt
    <3> QED
      BY <1>29, <3>1
  <2>3. Len(g) \in Got(g) => NextIs(w, sc, o, p2, Id(g[Len(g)].p), c + n)
    BY <1>30, <2>1
  <2> QED
    BY <2>1, <2>2, <2>3 DEF GotAt
<1>32. GotOK(w, pp, sc, o, p2, g)
  <2>1. o.pageno # -1 /\ Cut(pp, o.pageno) = c + n
    BY <1>1, <1>9
  <2> QED
    BY <1>31, <2>1 DEF GotOK
<1>33. ASSUME \A i \in 1..N : at.lacing[i].hole = FALSE, NEW i \in 1..M
       PROVE  o.lacing[i].hole = FALSE
  <2>1. CASE i \in 1..N
    BY <1>16, <1>33, <2>1
  <2>2. CASE i \notin 1..N
    <3>1. i - N \in 1..(n - skip) /\ N + (i - N) = i
      BY <1>14, <2>2
    <3> QED
      BY <1>17, <3>1
  <2> QED
    BY <2>1, <2>2
<1>34. Keeps(at, pos, N, o, p2)
  <2> SUFFICES ASSUME NEW i \in 1..N, at.lacing[i].hole = FALSE PROVE HeldAt(o, p2, pos[i])
    BY DEF Keeps
  <2>1. i \in 1..M /\ p2[i] = pos[i] /\ o.lacing[i].hole = FALSE
    BY <1>12, <1>16
  <2> QED
    BY <2>1 DEF HeldAt, M
<1>35. ASSUME NEW i \in 1..n
       PROVE  HeldAt(o, p2, c + i) \/ ((\A m \in 1..i : sc[c + m].s # 1) /\ ends)
  <2>1. CASE i <= skip
    <3>1. ends
      BY <1>4, <2>1
    <3>2. \A m \in 1..i : m \in 1..skip
      BY <1>11, <2>1
    <3> QED
      BY <1>4, <3>1, <3>2
  <2>2. CASE ~(i <= skip)
    <3>1. i - skip \in 1..(n - skip) /\ c + skip + (i - skip) = c + i
      BY <1>1, <1>11, <2>2
    <3>2. N + (i - skip) \in 1..M /\ p2[N + (i - skip)] = c + i /\ o.lacing[N + (i - skip)].hole = FALSE
      BY <1>13, <1>17, <3>1
    <3> QED
      BY <3>2 DEF HeldAt, M
  <2> QED
    BY <2>1, <2>2
<1>36. Adds(sc, at, o, p2, c, n)
  BY <1>35 DEF Adds, ends, N
<1> QED
  BY <1>9, <1>27, <1>32, <1>33, <1>34, <1>36 DEF o, skip, page, N, M, c, n

\* What page j leaves of the segments held, and what it adds: all its own,
\* or all but the rest of a packet whose beginning is not here.
Joins(pp, sc, j, os, pos, o, p2) ==
  /\ Keeps(os, pos, os.packet, o, p2)
  /\ \A i \in 1..Len(pp[j].segments) :
       \/ HeldAt(o, p2, Cut(pp, j - 1) + i)
       \/ /\ \A m \in 1..i : sc[Cut(pp, j - 1) + m].s # 1
          /\ os.pageno = j - 1 =>
               os.lacing = <<>> \/ os.lacing[Len(os.lacing)].hole = TRUE

\* What a reader is once it has taken page j.
InReader(w, pp, sc, j, os, pos, o, g) ==
  /\ \E p2 : /\ ReaderOK(w, pp, sc, o, p2) /\ GotOK(w, pp, sc, o, p2, g)
              /\ Joins(pp, sc, j, os, pos, o, p2)
  /\ o.pageno = j
  /\ /\ os.pageno = j - 1 \/ os.pageno = -1
     /\ \A i \in 1..Len(os.lacing) : os.lacing[i].hole = FALSE
     => \A i \in 1..Len(o.lacing) : o.lacing[i].hole = FALSE

\* ogg_stream_pagein: whatever pages came before it, page j leaves the reader
\* with segments of the script, and holes where some are missing.
LEMMA PageTaken ==
  ASSUME NEW w, NEW pp, NEW sc, PacketsOK(w), IsScript(w, sc), PagesOK(w, pp, sc),
         NEW j \in 1..Len(pp), NEW os, NEW pos, NEW g,
         ReaderOK(w, pp, sc, os, pos), GotOK(w, pp, sc, os, pos, g),
         os.pageno <= j - 1
  PROVE  InReader(w, pp, sc, j, os, pos, PageIn(os, pp[j]), g)
<1> DEFINE at == Resumed(os, pp[j])
           same == os.pageno = j - 1 \/ os.pageno = -1
<1>1. /\ pp \in Seq(PageType) /\ pp[j] \in PageType /\ Len(pp) \in Nat
      /\ PageOK(w, pp, sc, j)
  BY PagePlaces
<1>2. pp[j].pageno = j - 1
  BY <1>1 DEF PageOK
<1>3. os.pageno \in -1..Len(pp)
  BY DEF ReaderOK
<1>4. ASSUME same
      PROVE  /\ at = os
             /\ MidOK(w, pp, sc, os, pos, j)
             /\ GotAt(w, pp, sc, os, pos, g, Cut(pp, j - 1))
  BY <1>1, <1>2, <1>4, ResumedSame
<1>5. PICK p1 : /\ MidOK(w, pp, sc, at, p1, j) /\ GotAt(w, pp, sc, at, p1, g, Cut(pp, j - 1))
                /\ Keeps(os, pos, os.packet, at, p1)
  <2>1. CASE same
    <3>1. Len(os.lacing) \in Nat /\ os.packet \in 0..Len(os.lacing)
      BY StreamLaid DEF ReaderOK, Holds, StreamOK
    <3>2. \A i \in 1..os.packet : i \in 1..Len(os.lacing)
      BY <3>1
    <3>3. Keeps(os, pos, os.packet, os, pos)
      BY <3>2 DEF Keeps, HeldAt
    <3> QED
      BY <1>4, <2>1, <3>3
  <2>2. CASE ~same
    <3>1. os.pageno < j - 1 /\ os.pageno # -1
      BY <1>1, <1>3, <2>2
    <3> QED
      BY <1>1, <1>2, <3>1, ResumedGap
  <2> QED
    BY <2>1, <2>2
<1> HIDE DEF at
<1>6. SkipOK(sc, at, Cut(pp, j - 1), Len(pp[j].segments), Orphans(at, pp[j]))
  BY <1>5, OrphansAre
<1>7. Orphans(at, pp[j]) \in 0..Len(pp[j].segments)
  BY <1>6 DEF SkipOK
<1>8. PageIn(os, pp[j]) = After(at, pp[j], Orphans(at, pp[j]))
  BY <1>1, <1>7, PageInIs DEF at
<1> DEFINE o == After(at, pp[j], Orphans(at, pp[j]))
<1>9. /\ \E p2 : /\ ReaderOK(w, pp, sc, o, p2) /\ GotOK(w, pp, sc, o, p2, g)
                  /\ Keeps(at, p1, Len(at.lacing), o, p2)
                  /\ Adds(sc, at, o, p2, Cut(pp, j - 1), Len(pp[j].segments))
      /\ o.pageno = j
      /\ (\A i \in 1..Len(at.lacing) : at.lacing[i].hole = FALSE) =>
           \A i \in 1..Len(o.lacing) : o.lacing[i].hole = FALSE
  BY <1>5, PageAdded
<1> HIDE DEF o
<1>10. PageIn(os, pp[j]) = o
  BY <1>8 DEF o
<1>11. ASSUME NEW p2, Keeps(at, p1, Len(at.lacing), o, p2),
              Adds(sc, at, o, p2, Cut(pp, j - 1), Len(pp[j].segments))
       PROVE  Joins(pp, sc, j, os, pos, o, p2)
  <2>1. Keeps(os, pos, os.packet, o, p2)
    <3> SUFFICES ASSUME NEW i \in 1..os.packet, os.lacing[i].hole = FALSE
                 PROVE  HeldAt(o, p2, pos[i])
      BY DEF Keeps
    <3>1. PICK k \in 1..Len(at.lacing) : at.lacing[k].hole = FALSE /\ p1[k] = pos[i]
      BY <1>5 DEF Keeps, HeldAt
    <3> QED
      BY <1>11, <3>1 DEF Keeps
  <2>2. os.pageno = j - 1 => at = os
    BY <1>4
  <2> QED
    BY <1>11, <2>1, <2>2 DEF Joins, Adds
<1> QED
  BY <1>4, <1>9, <1>10, <1>11 DEF InReader

-----------------------------------------------------------------------------
(* A packet is taken.                                                      *)

\* Every byte belongs to a segment.
LEMMA ByteIn ==
  ASSUME NEW l, NEW n \in Nat, \A i \in 1..n : l[i].val \in Nat,
         NEW q \in 1..Bytes(l, n)
  PROVE  \E i \in 1..n : \E t \in 1..l[i].val : q = Bytes(l, i - 1) + t
<1> DEFINE T == {i \in 0..n : q <= Bytes(l, i)}
<1>1. \A k \in 0..n : Bytes(l, k) \in Nat
  BY BytesGrow
<1>2. n \in T /\ T \subseteq Nat
  BY <1>1
<1>3. PICK i \in T : \A j \in T : i <= j
  <2> HIDE DEF T
  <2> QED
    BY <1>2, LeastNat
<1>4. Bytes(l, 0) = 0
  BY BytesAdds
<1>5. i \in 1..n /\ i \in Nat /\ i > 0 /\ i - 1 \in 0..n
  BY <1>1, <1>3, <1>4
<1>6. q > Bytes(l, i - 1)
  <2>1. i - 1 \notin T
    BY <1>3, <1>5
  <2> QED
    BY <1>1, <1>5, <2>1
<1>7. Bytes(l, i) = Bytes(l, i - 1) + l[i].val
  BY <1>5, BytesStep
<1>8. q <= Bytes(l, i) /\ l[i].val \in Nat
  BY <1>3, <1>5
<1>9. q - Bytes(l, i - 1) \in 1..l[i].val /\ q = Bytes(l, i - 1) + (q - Bytes(l, i - 1))
  BY <1>1, <1>5, <1>6, <1>7, <1>8
<1> QED
  BY <1>5, <1>9

\* The first segments of l are those of packet k.
LeadsWith(w, l, b, k) ==
  \A i \in 1..Segs(w, k) : Carries(w, l, b, i, Mark(k, i))

\* The segments of a packet hold its bytes.
LEMMA PacketData ==
  ASSUME NEW w, PacketsOK(w), NEW k \in 1..Len(w),
         NEW A, NEW l, NEW b, Laid(A, l, b), Segs(w, k) <= Len(l), LeadsWith(w, l, b, k)
  PROVE  SubSeq(b, 1, Bytes(l, Segs(w, k))) = w[k].data
<1> DEFINE n == Segs(w, k)
           m == Laced(Len(w[k].data), 0, 0)
           d == w[k].data
<1>1. LacedOK(w, k, 0, m)
  BY LacedMarks
<1>2. /\ Laid(SegType, m, d) /\ Len(m) = n
      /\ \A s \in 1..n : Carries(w, m, d, s, Mark(k, s))
  BY <1>1 DEF LacedOK
<1>3. n \in Nat /\ n > 0 /\ n \in 0..Len(l) /\ Len(l) \in Nat
  BY SegsOf, LaidBytes
<1> HIDE DEF m, n, d
<1>4. b \in Seq(Byte) /\ d \in Seq(Byte) /\ Bytes(m, n) = Len(d) /\ \A i \in 1..n : m[i].val \in Nat
  BY <1>2 DEF Laid
<1>5. ASSUME NEW i \in 1..n PROVE l[i].val = m[i].val /\ Piece(l, b, i) = Piece(m, d, i)
  BY <1>2 DEF Carries, LeadsWith, n
<1>6. \A i \in 0..n : Bytes(l, i) = Bytes(m, i)
  <2> TAKE i \in 0..n
  <2>1. i \in Nat /\ \A s \in 1..i : l[s].val = m[s].val
    BY <1>3, <1>5
  <2> QED
    BY <2>1, BytesAgree
<1>7. Bytes(l, n) = Len(d) /\ Bytes(l, n) \in 0..Len(b) /\ Len(b) \in Nat /\ Len(d) \in Nat
  BY <1>3, <1>4, <1>6, LaidBytes
<1>8. ASSUME NEW q \in 1..Len(d) PROVE b[q] = d[q]
  <2>1. PICK i \in 1..n : \E t \in 1..m[i].val : q = Bytes(m, i - 1) + t
    BY <1>3, <1>4, ByteIn
  <2>2. PICK t \in 1..m[i].val : q = Bytes(m, i - 1) + t
    BY <2>1
  <2>3. Bytes(l, i - 1) = Bytes(m, i - 1)
    <3>1. i - 1 \in 0..n
      BY <1>3
    <3> QED
      BY <1>6, <3>1
  <2>4. Piece(l, b, i)[t] = b[Bytes(l, i - 1) + t]
    BY <1>5 DEF Piece
  <2>5. Piece(m, d, i)[t] = d[Bytes(m, i - 1) + t]
    BY DEF Piece
  <2> QED
    BY <1>5, <2>2, <2>3, <2>4, <2>5
<1>9. SubSeq(b, 1, Len(d)) = d
  <2> HIDE DEF Byte
  <2>1. SubSeq(b, 1, Len(d)) \in Seq(Byte) /\ Len(SubSeq(b, 1, Len(d))) = Len(d)
        /\ \A q \in 1..Len(d) : SubSeq(b, 1, Len(d))[q] = b[q]
    BY <1>4, <1>7
  <2>2. \A q \in 1..Len(d) : SubSeq(b, 1, Len(d))[q] = d[q]
    BY <1>8, <2>1
  <2> DEFINE u == SubSeq(b, 1, Len(d))
  <2>3. u \in Seq(Byte) /\ Len(u) = Len(d) /\ \A q \in 1..Len(d) : u[q] = d[q]
    BY <2>1, <2>2
  <2> HIDE DEF u
  <2>4. u = d
    BY <1>4, <2>3
  <2> QED
    BY <2>4 DEF u
<1> QED
  BY <1>7, <1>9 DEF n, d

\* The n segments a packetout takes: a hole, or those of a packet, the first n
\* of them.
Takes(os, n) ==
  /\ n \in 1..os.packet
  /\ IF os.lacing[1].hole THEN n = 1
     ELSE /\ os.lacing[n].val < Full
          /\ \A i \in 1..(n - 1) : os.lacing[i].val = Full

LEMMA TakesIs ==
  ASSUME NEW os, StreamOK(os), WholesOK(os), PacketWaits(os)
  PROVE  /\ Takes(os, IF HoleWaits(os) THEN 1 ELSE FirstPacketEnd(os))
         /\ Len(os.lacing) > 0
<1>1. /\ Len(os.lacing) \in Nat /\ os.packet \in 1..Len(os.lacing)
      /\ \A i \in 1..Len(os.lacing) : os.lacing[i].val \in 0..Full
  BY StreamLaid DEF StreamOK, PacketWaits
<1>2. CASE os.lacing[1].hole
  BY <1>1, <1>2 DEF Takes, HoleWaits
<1>3. CASE ~os.lacing[1].hole
  <2> DEFINE n == FirstPacketEnd(os)
  <2>1. Valued(os.lacing, 1, Len(os.lacing))
    <3>1. 1 \in Nat /\ Len(os.lacing) \in Nat /\ 1 <= Len(os.lacing)
      BY <1>1
    <3> QED
      BY <1>1, <3>1, Zenon DEF Valued
  <2>2. /\ n \in 1..Len(os.lacing)
        /\ \A i \in 1..(n - 1) : os.lacing[i].val = Full
        /\ \/ os.lacing[n].val < Full
           \/ n = Len(os.lacing) /\ \A i \in 1..Len(os.lacing) : os.lacing[i].val = Full
    BY <2>1, PacketEndIs DEF FirstPacketEnd
  <2> HIDE DEF n
  <2>3. os.lacing[os.packet].val < Full /\ Full \in Nat
    BY <1>1, FramingAssumption DEF WholesOK
  <2>4. os.lacing[n].val < Full
    BY <1>1, <2>2, <2>3
  <2>5. n <= os.packet
    <3> SUFFICES ASSUME os.packet < n PROVE FALSE
      BY <1>1, <2>2
    <3>1. os.packet \in 1..(n - 1)
      BY <1>1, <2>2
    <3> QED
      BY <2>2, <2>3, <3>1
  <2>6. n \in 1..os.packet
    BY <1>1, <2>2, <2>5
  <2>7. ~HoleWaits(os)
    BY <1>3 DEF HoleWaits
  <2> QED
    BY <1>1, <1>3, <2>2, <2>4, <2>6, <2>7 DEF Takes, n
<1> QED
  BY <1>2, <1>3

\* The stream without its first n segments.
Dropped(os, n) ==
  [os EXCEPT !.body = SubSeq(os.body, Bytes(os.lacing, n) + 1, Len(os.body)),
             !.lacing = SubSeq(os.lacing, n + 1, Len(os.lacing)),
             !.packet = os.packet - n,
             !.packetno = os.packetno + 1]

\* Segment i of o is segment n + i of os, with its bytes.
DropOK(os, o, n) ==
  /\ Len(o.lacing) = Len(os.lacing) - n
  /\ \A i \in 1..(Len(os.lacing) - n) : /\ o.lacing[i] = os.lacing[n + i]
                                        /\ SamePiece(o.lacing, o.body, i, os.lacing, os.body, n + i)

LEMMA DroppedFields ==
  ASSUME NEW os, StreamOK(os), NEW n, n \in 1..os.packet
  PROVE  LET o == Dropped(os, n)
         IN  /\ StreamOK(o)
             /\ o.packet = os.packet - n
             /\ o.pageno = os.pageno
             /\ DropOK(os, o, n)
<1> DEFINE o == Dropped(os, n)
           l == os.lacing
           L == Len(l)
           m == SubSeq(l, n + 1, L)
           b == SubSeq(os.body, Bytes(l, n) + 1, Len(os.body))
<1>1. /\ Laid(SegType, l, os.body) /\ l \in Seq(SegType) /\ L \in Nat
      /\ os.body \in Seq(Byte) /\ os.packet \in 0..L /\ os \in Stream
      /\ \A i \in 1..L : l[i].val \in 0..Full
  BY StreamLaid DEF StreamOK
<1>2. n \in 0..L /\ n \in Nat /\ L - n \in Nat /\ os.packet - n \in 0..(L - n)
  BY <1>1
<1>3. m \in Seq(SegType) /\ Len(m) = L - n /\ \A i \in 1..(L - n) : m[i] = l[n + i]
  <2> HIDE DEF SegType
  <2> QED
    BY <1>1, <1>2
<1>4. SameVals(m, l, n, L - n)
  BY <1>3 DEF SameVals
<1> HIDE DEF m
<1>5. /\ b \in Seq(Byte)
      /\ Bytes(m, L - n) = Len(b)
      /\ \A i \in 1..(L - n) : Piece(m, b, i) = Piece(l, os.body, n + i)
  <2>1. Laid(SegType, l, os.body) /\ n \in 0..Len(l) /\ SameVals(m, l, n, Len(l) - n)
    BY <1>1, <1>2, <1>4
  <2> HIDE DEF L, l, SegType
  <2>2. /\ SubSeq(os.body, Bytes(l, n) + 1, Len(os.body)) \in Seq(Byte)
        /\ Bytes(m, Len(l) - n) = Len(SubSeq(os.body, Bytes(l, n) + 1, Len(os.body)))
        /\ \A i \in 1..(Len(l) - n) :
             Piece(m, SubSeq(os.body, Bytes(l, n) + 1, Len(os.body)), i) = Piece(l, os.body, n + i)
    BY <2>1, PieceOfRest
  <2> QED
    BY <2>2 DEF L
<1>6. o = [os EXCEPT !.body = b, !.lacing = m, !.packet = os.packet - n,
             !.packetno = os.packetno + 1]
  BY Zenon DEF Dropped, m
<1> HIDE DEF o, b
<1>7. /\ o.body = b /\ o.lacing = m /\ o.bos = os.bos /\ o.eos = os.eos
      /\ o.packet = os.packet - n /\ o.pageno = os.pageno
      /\ o.packetno = os.packetno + 1 /\ o.granulepos = os.granulepos /\ o.serialno = os.serialno
      /\ o = [body |-> o.body, lacing |-> o.lacing, packet |-> o.packet, bos |-> o.bos,
              eos |-> o.eos, pageno |-> o.pageno, packetno |-> o.packetno,
              granulepos |-> o.granulepos, serialno |-> o.serialno]
  BY <1>1, <1>6 DEF Stream
<1>8. /\ o.packet \in Nat /\ o.packetno \in Nat /\ o.bos \in BOOLEAN /\ o.eos \in BOOLEAN
      /\ o.pageno \in Int /\ o.granulepos \in Int /\ o.serialno \in Nat
  <2>1. /\ os.bos \in BOOLEAN /\ os.eos \in BOOLEAN /\ os.pageno \in Int /\ os.packetno \in Nat
        /\ os.granulepos \in Int /\ os.serialno \in Nat
    BY <1>1 DEF Stream
  <2> QED
    BY <1>2, <1>7, <2>1
<1>9. o \in Stream
  <2> HIDE DEF SegType, Byte
  <2> QED
    BY <1>3, <1>5, <1>7, <1>8 DEF Stream
<1>10. StreamOK(o)
  BY <1>2, <1>3, <1>5, <1>7, <1>9 DEF StreamOK
<1>11. DropOK(os, o, n)
  BY <1>3, <1>5, <1>7 DEF DropOK, SamePiece
<1> QED
  BY <1>7, <1>10, <1>11 DEF o

\* What is held after a packetout is the rest of what was.
LEMMA RestHeld ==
  ASSUME NEW w, NEW pp, NEW sc, PacketsOK(w), IsScript(w, sc),
         NEW os, NEW pos, NEW c, Holds(w, pp, sc, os, pos, c), NEW n, Takes(os, n),
         NEW o, o = Dropped(os, n),
         NEW p2, p2 = [i \in 1..(Len(os.lacing) - n) |-> pos[n + i]]
  PROVE  /\ Holds(w, pp, sc, o, p2, c)
         /\ n \in 1..Len(os.lacing)
<1> DEFINE l == os.lacing
           L == Len(l)
           K == L - n
<1>1. /\ StreamOK(os) /\ pos \in [1..L -> Nat]
      /\ (\A i \in 1..L : HeldOK(w, pp, sc, os, pos, i))
      /\ ChainOK(sc, os, pos) /\ OrderOK(os, pos) /\ LastOK(os, pos, c) /\ WholesOK(os)
  BY DEF Holds
<1>2. /\ L \in Nat /\ os.packet \in 0..L /\ \A i \in 1..L : l[i] \in SegType
  BY <1>1, StreamLaid DEF StreamOK
<1>3. n \in 1..os.packet
  BY DEF Takes
<1>4. /\ StreamOK(o) /\ o.packet = os.packet - n /\ o.pageno = os.pageno /\ DropOK(os, o, n)
  BY <1>1, <1>3, DroppedFields
<1>5. /\ n \in 1..L /\ n \in Nat /\ K \in Nat /\ L = n + K
  BY <1>2, <1>3
<1>6. /\ Len(o.lacing) = K
      /\ \A i \in 1..K : /\ o.lacing[i] = l[n + i]
                         /\ Piece(o.lacing, o.body, i) = Piece(l, os.body, n + i)
  BY <1>4 DEF DropOK, SamePiece
<1> HIDE DEF K
<1>7. \A i \in 1..K : p2[i] = pos[n + i] /\ n + i \in 1..L /\ pos[n + i] \in Nat
  <2>1. \A i \in 1..K : n + i \in 1..L
    BY <1>5
  <2>2. \A i \in 1..K : p2[i] = pos[n + i]
    BY DEF K
  <2> QED
    BY <1>1, <2>1, <2>2
<1>8. p2 \in [1..K -> Nat]
  BY <1>7 DEF K
<1> HIDE DEF L, l
<1>9. \A i \in 1..L : l[i].hole \in BOOLEAN /\ l[i].val \in 0..Full
  BY <1>2 DEF SegType
<1>10. ASSUME NEW i \in 1..K PROVE HeldOK(w, pp, sc, o, p2, i)
  <2>1. HeldOK(w, pp, sc, os, pos, n + i)
    BY <1>1, <1>7
  <2>2. /\ o.lacing[i] = os.lacing[n + i] /\ p2[i] = pos[n + i]
        /\ Piece(o.lacing, o.body, i) = Piece(os.lacing, os.body, n + i)
    BY <1>6, <1>7 DEF l
  <2>3. Carries(w, os.lacing, os.body, n + i, sc[pos[n + i]]) =>
          Carries(w, o.lacing, o.body, i, sc[pos[n + i]])
    BY <2>2 DEF Carries
  <2> QED
    BY <1>4, <2>1, <2>2, <2>3, Zenon DEF HeldOK
<1>11. ASSUME K > 0 PROVE Begins(sc, o, p2, 1)
  <2>1. 1 \in 1..K /\ n \in 1..(L - 1)
    BY <1>5, <1>11
  <2>2. Linked(sc, os, pos, n)
    BY <1>1, <2>1 DEF ChainOK, L, l
  <2>3. /\ o.lacing[1] = os.lacing[n + 1] /\ p2[1] = pos[n + 1]
    BY <1>6, <1>7, <2>1 DEF l
  <2>4. CASE l[n].hole
    <3>1. Begins(sc, os, pos, n + 1)
      BY <2>2, <2>4 DEF Linked, l
    <3> QED
      BY <2>3, <3>1 DEF Begins
  <2>5. CASE ~l[n].hole
    <3>1. l[n].val < Full
      <4>1. CASE os.lacing[1].hole
        <5>1. n = 1
          BY <4>1 DEF Takes
        <5> QED
          BY <2>5, <4>1, <5>1 DEF l
      <4>2. CASE ~os.lacing[1].hole
        BY <4>2 DEF Takes, l
      <4> QED
        BY <4>1, <4>2
    <3>2. CASE l[n + 1].hole
      <4>1. l[n + 1].hole = TRUE
        BY <1>7, <1>9, <2>1, <3>2
      <4> QED
        BY <2>3, <4>1 DEF Begins, l
    <3>3. CASE ~l[n + 1].hole
      <4>1. l[n + 1].hole = FALSE
        BY <1>7, <1>9, <2>1, <3>3
      <4>2. pos[n + 1] = pos[n] + 1
        BY <2>2, <2>5, <4>1 DEF Linked, l
      <4>3. HeldOK(w, pp, sc, os, pos, n) /\ HeldOK(w, pp, sc, os, pos, n + 1)
        BY <1>1, <1>5, <1>7, <2>1 DEF L, l
      <4>4. pos[n] \in 1..Len(sc) /\ Carries(w, l, os.body, n, sc[pos[n]])
        BY <2>5, <4>3 DEF HeldOK, l
      <4>5. pos[n + 1] \in 1..Len(sc)
        BY <3>3, <4>3 DEF HeldOK, l
      <4>6. pos[n] \in 1..(Len(sc) - 1) /\ IsMark(w, sc[pos[n]])
        BY <4>2, <4>4, <4>5, ScriptMarks
      <4>7. sc[pos[n] + 1] = NextMark(w, sc[pos[n]])
        BY <4>6, ScriptNext
      <4>8. Ends(w, sc[pos[n]])
        <5>1. SegVal(w, sc[pos[n]]) < Full
          BY <3>1, <4>4 DEF Carries
        <5> QED
          BY <4>6, <5>1, SegValOf
      <4>9. sc[pos[n + 1]].s = 1
        BY <4>2, <4>7, <4>8, MarkFields DEF NextMark
      <4> QED
        BY <2>3, <4>9 DEF Begins
    <3> QED
      BY <3>2, <3>3
  <2> QED
    BY <2>4, <2>5
<1>12. ASSUME NEW i \in 1..(K - 1) PROVE Linked(sc, o, p2, i)
  <2>1. i \in 1..K /\ i + 1 \in 1..K /\ n + i \in 1..(L - 1) /\ n + (i + 1) = (n + i) + 1
    BY <1>5
  <2>2. Linked(sc, os, pos, n + i)
    BY <1>1, <2>1 DEF ChainOK, L, l
  <2>3. /\ o.lacing[i] = os.lacing[n + i] /\ p2[i] = pos[n + i]
        /\ o.lacing[i + 1] = os.lacing[(n + i) + 1] /\ p2[i + 1] = pos[(n + i) + 1]
    BY <1>6, <1>7, <2>1 DEF l
  <2> QED
    BY <2>2, <2>3, Zenon DEF Linked, Begins
<1>13. ChainOK(sc, o, p2)
  BY <1>6, <1>11, <1>12 DEF ChainOK
<1>14. OrderOK(o, p2)
  <2> SUFFICES ASSUME NEW i \in 1..K, NEW k \in 1..K, i < k, o.lacing[i].hole = FALSE,
                      o.lacing[k].hole = FALSE
               PROVE  p2[i] < p2[k]
    BY <1>6 DEF OrderOK
  <2>1. /\ n + i \in 1..L /\ n + k \in 1..L /\ n + i < n + k
        /\ p2[i] = pos[n + i] /\ p2[k] = pos[n + k]
    BY <1>5, <1>7
  <2>2. os.lacing[n + i].hole = FALSE /\ os.lacing[n + k].hole = FALSE
    BY <1>6 DEF l
  <2> QED
    BY <1>1, <2>1, <2>2 DEF OrderOK, L, l
<1>15. LastOK(o, p2, c)
  <2> SUFFICES ASSUME K > 0, o.lacing[K].hole = FALSE PROVE p2[K] = c
    BY <1>6 DEF LastOK
  <2>1. K \in 1..K /\ n + K = L /\ L > 0
    BY <1>5
  <2>2. o.lacing[K] = os.lacing[L] /\ p2[K] = pos[L]
    BY <1>6, <1>7, <2>1 DEF l
  <2> QED
    BY <1>1, <2>1, <2>2 DEF LastOK, L, l
<1>16. WholesOK(o)
  <2>1. /\ os.packet > 0 => os.lacing[os.packet].val < Full
        /\ \A i \in (os.packet + 1)..L : os.lacing[i].val = Full
    BY <1>1 DEF WholesOK, L, l
  <2>2. ASSUME o.packet > 0 PROVE o.lacing[o.packet].val < Full
    <3>1. o.packet \in 1..K /\ n + o.packet = os.packet /\ os.packet > 0
      BY <1>2, <1>3, <1>4, <1>5, <2>2
    <3>2. o.lacing[o.packet] = os.lacing[os.packet]
      BY <1>6, <3>1 DEF l
    <3> QED
      BY <2>1, <3>1, <3>2
  <2>3. ASSUME NEW i \in (o.packet + 1)..K PROVE o.lacing[i].val = Full
    <3>1. i \in 1..K /\ n + i \in (os.packet + 1)..L
      BY <1>2, <1>3, <1>4, <1>5
    <3> QED
      BY <1>6, <2>1, <3>1 DEF l
  <2> QED
    BY <1>6, <2>2, <2>3 DEF WholesOK
<1> QED
  BY <1>4, <1>5, <1>6, <1>8, <1>10, <1>13, <1>14, <1>15, <1>16 DEF Holds, L, l

\* Segment i of a reader is the i-th of packet k, and comes i - 1 places after
\* the first.
RunsTo(sc, os, pos, k, i) ==
  /\ os.lacing[i].hole = FALSE
  /\ pos[i] \in 1..Len(sc) /\ pos[i] = pos[1] + (i - 1)
  /\ sc[pos[i]] = Mark(k, i)

IsRun(w, sc, os, pos, k, n) ==
  /\ k \in 1..Len(w) /\ n = Segs(w, k)
  /\ \A i \in 1..n : RunsTo(sc, os, pos, k, i)

\* The segments that a packetout takes for a packet are all segments of one.
LEMMA PacketRun ==
  ASSUME NEW w, NEW pp, NEW sc, PacketsOK(w), IsScript(w, sc),
         NEW os, NEW pos, NEW c, Holds(w, pp, sc, os, pos, c), NEW n, Takes(os, n),
         os.lacing[1].hole = FALSE, NEW k, k = sc[pos[1]].p
  PROVE  IsRun(w, sc, os, pos, k, n)
<1> DEFINE l == os.lacing
           L == Len(l)
           T == {i \in 1..n : ~RunsTo(sc, os, pos, k, i)}
<1>1. /\ StreamOK(os) /\ pos \in [1..L -> Nat]
      /\ (\A i \in 1..L : HeldOK(w, pp, sc, os, pos, i))
      /\ ChainOK(sc, os, pos)
  BY DEF Holds
<1>2. /\ L \in Nat /\ os.packet \in 0..L /\ \A i \in 1..L : l[i] \in SegType
  BY <1>1, StreamLaid DEF StreamOK
<1>3. n \in 1..os.packet /\ l[n].val < Full /\ \A i \in 1..(n - 1) : l[i].val = Full
  BY DEF Takes
<1>4. n \in Nat /\ 1 \in 1..n /\ L > 0 /\ \A i \in 1..n : i \in 1..L
  BY <1>2, <1>3
<1>5. ASSUME NEW i \in 1..L, l[i].hole = FALSE
      PROVE  /\ pos[i] \in 1..Len(sc) /\ IsMark(w, sc[pos[i]])
             /\ l[i].val < Full <=> Ends(w, sc[pos[i]])
             /\ l[i].val = Full <=> ~Ends(w, sc[pos[i]])
  <2>1. pos[i] \in 1..Len(sc) /\ l[i].val = SegVal(w, sc[pos[i]])
    BY <1>1, <1>5 DEF HeldOK, Carries
  <2>2. IsMark(w, sc[pos[i]])
    BY <2>1, ScriptMarks
  <2> QED
    BY <2>1, <2>2, SegValOf
<1>6. RunsTo(sc, os, pos, k, 1)
  <2>1. Begins(sc, os, pos, 1)
    BY <1>1, <1>4 DEF ChainOK
  <2>2. pos[1] \in 1..Len(sc) /\ IsMark(w, sc[pos[1]])
    BY <1>4, <1>5
  <2>3. sc[pos[1]].s = 1
    BY <2>1 DEF Begins
  <2>4. sc[pos[1]] = Mark(k, 1)
    BY <2>2, <2>3 DEF IsMark
  <2>5. pos[1] = pos[1] + (1 - 1)
    BY <2>2
  <2> QED
    BY <2>2, <2>4, <2>5 DEF RunsTo
<1>7. T = {}
  <2> SUFFICES ASSUME T # {} PROVE FALSE
    OBVIOUS
  <2>1. T \subseteq Nat
    BY <1>4
  <2>2. PICK i \in T : \A j \in T : i <= j
    <3> HIDE DEF T
    <3> QED
      BY <2>1, LeastNat
  <2>3. i \in 1..n /\ i # 1
    BY <1>6, <2>2
  <2>4. i \in Nat /\ i - 1 \in 1..n /\ i - 1 \in 1..(n - 1) /\ (i - 1) + 1 = i /\ i - 1 \notin T
    BY <1>4, <2>2, <2>3
  <2>5. RunsTo(sc, os, pos, k, i - 1)
    BY <2>4
  <2>6. /\ l[i - 1].hole = FALSE /\ pos[i - 1] \in 1..Len(sc)
        /\ pos[i - 1] = pos[1] + ((i - 1) - 1) /\ sc[pos[i - 1]] = Mark(k, i - 1)
    BY <2>5 DEF RunsTo
  <2>7. l[i - 1].val = Full
    BY <1>3, <2>4
  <2>8. Linked(sc, os, pos, i - 1)
    <3>1. i - 1 \in 1..(L - 1)
      BY <1>2, <1>3, <2>4
    <3> QED
      BY <1>1, <3>1 DEF ChainOK
  <2>9. l[i].hole = FALSE /\ pos[i] = pos[i - 1] + 1
    <3>1. l[(i - 1) + 1].hole = FALSE /\ pos[(i - 1) + 1] = pos[i - 1] + 1
      BY <2>6, <2>7, <2>8 DEF Linked
    <3> QED
      BY <2>4, <3>1
  <2>10. pos[i] \in 1..Len(sc)
    BY <1>4, <1>5, <2>3, <2>9
  <2>11. pos[i - 1] \in 1..(Len(sc) - 1)
    BY <2>6, <2>9, <2>10, ScriptMarks
  <2>12. sc[pos[i]] = NextMark(w, sc[pos[i - 1]])
    <3>1. sc[pos[i - 1] + 1] = NextMark(w, sc[pos[i - 1]])
      <4> DEFINE r == pos[i - 1]
      <4>1. r \in 1..(Len(sc) - 1)
        BY <2>11
      <4> HIDE DEF r
      <4>2. sc[r + 1] = NextMark(w, sc[r])
        BY <4>1, ScriptNext
      <4> QED
        BY <4>2 DEF r
    <3> QED
      BY <2>9, <3>1
  <2>13. ~Ends(w, sc[pos[i - 1]])
    <3>1. i - 1 \in 1..L
      BY <1>4, <2>4
    <3> QED
      BY <1>5, <2>6, <2>7, <3>1
  <2>14. sc[pos[i]] = Mark(k, i)
    <3>1. NextMark(w, sc[pos[i - 1]]) = Mark(sc[pos[i - 1]].p, sc[pos[i - 1]].s + 1)
      BY <2>13 DEF NextMark
    <3> QED
      BY <2>4, <2>6, <2>12, <3>1, MarkFields
  <2>15. pos[1] \in Nat
    BY <1>1, <1>4
  <2>16. pos[i] = pos[1] + (i - 1)
    BY <2>4, <2>6, <2>9, <2>15
  <2>17. RunsTo(sc, os, pos, k, i)
    BY <2>9, <2>10, <2>14, <2>16 DEF RunsTo
  <2> QED
    BY <2>2, <2>17
<1>8. \A i \in 1..n : RunsTo(sc, os, pos, k, i)
  BY <1>7
<1>9. n = Segs(w, k)
  <2>1. n \in 1..n
    BY <1>4
  <2>2. l[n].hole = FALSE /\ sc[pos[n]] = Mark(k, n)
    BY <1>8, <2>1 DEF RunsTo
  <2>3. Ends(w, sc[pos[n]])
    BY <1>3, <1>4, <1>5, <2>1, <2>2
  <2> QED
    BY <2>2, <2>3, MarkFields DEF Ends
<1>10. k \in 1..Len(w)
  BY <1>4, <1>5 DEF IsMark
<1> QED
  BY <1>8, <1>9, <1>10 DEF IsRun

\* Packet k comes out, whole and with what it was given.
LEMMA PacketOut ==
  ASSUME NEW w, NEW pp, NEW sc, PacketsOK(w), IsScript(w, sc),
         NEW os, NEW pos, NEW c, Holds(w, pp, sc, os, pos, c),
         PacketWaits(os), os.lacing[1].hole = FALSE, NEW k, k = sc[pos[1]].p
  PROVE  /\ IsPacket(w, pp, sc, FirstPacket(os), k)
         /\ Id(FirstPacket(os)) = k
<1> DEFINE n == FirstPacketEnd(os)
           l == os.lacing
           L == Len(l)
           p == FirstPacket(os)
<1>1. /\ StreamOK(os) /\ WholesOK(os) /\ \A i \in 1..L : HeldOK(w, pp, sc, os, pos, i)
  BY DEF Holds
<1>2. Takes(os, n)
  <2>1. ~HoleWaits(os)
    BY DEF HoleWaits
  <2> QED
    BY <1>1, <2>1, TakesIs
<1>3. /\ L \in Nat /\ os.packet \in 0..L
      /\ Laid(SegType, l, os.body)
  BY <1>1, StreamLaid DEF StreamOK
<1>4. n \in 1..os.packet
  BY <1>2 DEF Takes
<1>5. /\ k \in 1..Len(w) /\ n = Segs(w, k)
      /\ \A i \in 1..n : RunsTo(sc, os, pos, k, i)
  <2> HIDE DEF n
  <2>1. IsRun(w, sc, os, pos, k, n)
    BY <1>2, PacketRun
  <2> QED
    BY <2>1 DEF IsRun
<1>6. p = [data |-> SubSeq(os.body, 1, Bytes(l, n)), bos |-> l[1].first,
           eos |-> \E i \in 1..n : l[i].eos, granulepos |-> l[n].granule]
  BY DEF FirstPacket
<1> HIDE DEF p, n
<1>7. \A i \in 1..n : i \in 1..L
  BY <1>3, <1>4
<1>8. n \in 1..n /\ 1 \in 1..n /\ n \in Nat /\ n <= L
  BY <1>3, <1>4
<1>9. ASSUME NEW i \in 1..n
      PROVE  /\ Carries(w, l, os.body, i, Mark(k, i))
             /\ Ends(w, Mark(k, i)) =>
                  \/ l[i].granule = k - 1
                  \/ l[i].granule = -1 /\ k < MaxPackets /\ EndTogether(w, pp, sc, k)
             /\ l[i].eos = TRUE => pos[i] = Len(sc) /\ AtEnd(w)
             /\ l[i].first = TRUE => k = 1
  <2>1. l[i].hole = FALSE /\ sc[pos[i]] = Mark(k, i)
    BY <1>5 DEF RunsTo
  <2>2. HeldOK(w, pp, sc, os, pos, i)
    BY <1>1, <1>7
  <2> QED
    BY <2>1, <2>2, MarkFields DEF HeldOK
<1>10. p.data = w[k].data
  <2>1. LeadsWith(w, l, os.body, k)
    BY <1>5, <1>9 DEF LeadsWith
  <2>2. SubSeq(os.body, 1, Bytes(l, n)) = w[k].data
    BY <1>3, <1>5, <1>8, <2>1, PacketData
  <2> QED
    BY <1>6, <2>2
<1>11. \/ p.granulepos = k - 1
       \/ p.granulepos = -1 /\ k < MaxPackets /\ EndTogether(w, pp, sc, k)
  <2>1. Ends(w, Mark(k, n))
    BY <1>5, MarkFields DEF Ends
  <2>2. p.granulepos = l[n].granule
    BY <1>6
  <2> QED
    BY <1>8, <1>9, <2>1, <2>2
<1>12. ASSUME p.eos = TRUE PROVE k = MaxPackets /\ AtEnd(w)
  <2>1. \E i \in 1..n : l[i].eos
    BY <1>6, <1>12
  <2>2. PICK i \in 1..n : l[i].eos
    BY <2>1
  <2>3. l[i].eos = TRUE
    <3>1. i \in 1..L /\ l[i] \in SegType
      BY <1>1, <1>7, StreamLaid
    <3> QED
      BY <2>2, <3>1 DEF SegType
  <2>4. pos[i] = Len(sc) /\ AtEnd(w)
    BY <1>9, <2>3
  <2>5. sc[Len(sc)] = Mark(k, i) /\ pos[i] \in 1..Len(sc)
    BY <1>5, <2>4 DEF RunsTo
  <2>6. Len(sc) > 0 /\ sc[Len(sc)] = Mark(Len(w), Segs(w, Len(w)))
    BY <2>4, <2>5, ScriptMarks
  <2>7. k = Len(w)
    <3>1. Mark(k, i).p = k /\ Mark(Len(w), Segs(w, Len(w))).p = Len(w)
      BY MarkFields
    <3> QED
      BY <2>5, <2>6, <3>1
  <2> QED
    BY <2>4, <2>7 DEF AtEnd
<1>13. p.bos = TRUE => k = 1
  BY <1>6, <1>8, <1>9
<1>14. IsPacket(w, pp, sc, p, k)
  BY <1>5, <1>10, <1>11, <1>12, <1>13 DEF IsPacket
<1>15. Id(p) = k
  <2>1. PacketOK(w, k)
    BY <1>5 DEF PacketsOK
  <2>2. CASE w[k].data = <<>>
    BY <1>10, <2>1, <2>2 DEF PacketOK, Id
  <2>3. CASE w[k].data # <<>>
    <3>1. w[k].data \in Seq(Byte) /\ Len(w[k].data) > 0
      <4>1. w[k].data \in Seq(Byte)
        BY <2>1 DEF PacketOK
      <4> HIDE DEF Byte
      <4> QED
        BY <2>3, <4>1
    <3>2. 1 \in 1..Len(w[k].data)
      <4> HIDE DEF Byte
      <4> QED
        BY <3>1
    <3>3. w[k].data[1] = [p |-> k, i |-> 1]
      BY <2>1, <3>2 DEF PacketOK
    <3> QED
      BY <1>10, <2>3, <3>3 DEF Id
  <2> QED
    BY <2>2, <2>3
<1> QED
  BY <1>14, <1>15 DEF p

\* What got holds after one more.
Taken(os) == IF HoleWaits(os) THEN [is |-> "hole"]
             ELSE [is |-> "packet", p |-> FirstPacket(os)]

LEMMA GotMore ==
  ASSUME NEW g, \E S : g \in Seq(S), NEW e
  PROVE  /\ Len(g) \in Nat /\ Len(Append(g, e)) = Len(g) + 1
         /\ \A i \in 1..Len(g) : Append(g, e)[i] = g[i]
         /\ Append(g, e)[Len(g) + 1] = e
         /\ \E S : Append(g, e) \in Seq(S)
<1>1. PICK S : g \in Seq(S)
  OBVIOUS
<1>2. /\ Len(g) \in Nat /\ Len(Append(g, e)) = Len(g) + 1
      /\ \A i \in 1..Len(g) : Append(g, e)[i] = g[i]
      /\ Append(g, e)[Len(g) + 1] = e
  BY <1>1
<1>3. g \in Seq(S \cup {e})
  BY <1>1
<1>4. Append(g, e) \in Seq(S \cup {e})
  BY <1>3
<1> QED
  BY <1>2, <1>4

\* What was held is held still or its packet was got; what was got stays.
Leaves(sc, os, pos, g, o, p2, h) ==
  /\ \A i \in 1..Len(os.lacing) :
       os.lacing[i].hole = FALSE => HeldAt(o, p2, pos[i]) \/ GotIt(h, sc[pos[i]].p)
  /\ \A i \in Got(g) : GotIt(h, Id(g[i].p))

\* ogg_stream_packetout: a packet or a hole comes out, in order.
LEMMA PacketTaken ==
  ASSUME NEW w, NEW pp, NEW sc, PacketsOK(w), IsScript(w, sc),
         NEW os, NEW pos, NEW g, ReaderOK(w, pp, sc, os, pos), GotOK(w, pp, sc, os, pos, g),
         PacketWaits(os)
  PROVE  LET o == AfterPacket(os)
             h == Append(g, Taken(os))
         IN  /\ \E p2 : /\ ReaderOK(w, pp, sc, o, p2) /\ GotOK(w, pp, sc, o, p2, h)
                         /\ Leaves(sc, os, pos, g, o, p2, h)
             /\ o.pageno = os.pageno
             /\ NoHoles(os, g) => NoHoles(o, h)
<1> DEFINE n == IF HoleWaits(os) THEN 1 ELSE FirstPacketEnd(os)
           o == Dropped(os, n)
           h == Append(g, Taken(os))
           l == os.lacing
           L == Len(l)
           G == Len(g)
           p2 == [i \in 1..(Len(os.lacing) - n) |-> pos[n + i]]
           c == Cut(pp, os.pageno)
<1>1. /\ Holds(w, pp, sc, os, pos, c)
      /\ os.pageno \in -1..Len(pp) /\ os.pageno # 0
      /\ os.pageno = -1 => os.lacing = <<>>
  BY DEF ReaderOK
<1>2. /\ StreamOK(os) /\ WholesOK(os) /\ (\A i \in 1..L : HeldOK(w, pp, sc, os, pos, i))
      /\ OrderOK(os, pos)
  BY <1>1 DEF Holds
<1>3. Takes(os, n) /\ L > 0
  BY <1>2, TakesIs
<1>4. AfterPacket(os) = o
  BY Zenon DEF AfterPacket, Dropped
<1> HIDE DEF n
<1>5. Holds(w, pp, sc, o, p2, c) /\ n \in 1..L
  BY <1>1, <1>3, RestHeld
<1>6. n \in 1..os.packet
  BY <1>3 DEF Takes
<1>7. o.pageno = os.pageno /\ DropOK(os, o, n) /\ StreamOK(o)
  BY <1>2, <1>6, DroppedFields
<1>8. /\ Len(o.lacing) = L - n /\ \A i \in 1..(L - n) : o.lacing[i] = l[n + i]
  BY <1>7 DEF DropOK
<1> HIDE DEF o
<1>9. os.pageno # -1
  <2>1. os.lacing # <<>>
    BY <1>3
  <2> QED
    BY <1>1, <2>1
<1>10. GotAt(w, pp, sc, os, pos, g, c)
  BY DEF GotOK
<1>11. /\ G \in Nat /\ Len(h) = G + 1
       /\ \A i \in 1..G : h[i] = g[i]
       /\ h[G + 1] = Taken(os)
       /\ \E S : h \in Seq(S)
  <2>1. \E S : g \in Seq(S)
    BY <1>10 DEF GotAt
  <2> QED
    BY <2>1, GotMore
<1>12. ReaderOK(w, pp, sc, o, p2)
  BY <1>1, <1>5, <1>7, <1>9 DEF ReaderOK
<1>13. L \in Nat /\ \A i \in 1..L : l[i] \in SegType
  BY <1>2, StreamLaid
<1> HIDE DEF h, L, l, G
<1>14. \A i \in 1..(L - n) : p2[i] = pos[n + i] /\ n + i \in 1..L
  BY <1>5, <1>13 DEF L, l
<1> HIDE DEF p2
<1>15. ASSUME NEW p, EndedBefore(w, sc, os, pos, p, c)
       PROVE  EndedBefore(w, sc, o, p2, p, c)
  <2>1. PICK r \in 1..Len(sc) : /\ EndOf(w, sc, p, r) /\ r <= c
                                /\ \A k \in 1..L : l[k].hole = FALSE => r < pos[k]
    BY <1>15 DEF EndedBefore, L, l
  <2>2. ASSUME NEW k \in 1..(L - n), o.lacing[k].hole = FALSE PROVE r < p2[k]
    BY <1>8, <1>14, <2>1, <2>2
  <2> QED
    BY <1>8, <2>1, <2>2 DEF EndedBefore
<1>16. \A i \in Got(g) : i \in 1..G /\ g[i].is = "packet"
  BY DEF Got, G
\* What is not taken is held still.
<1>19. ASSUME NEW i \in 1..L, n < i, l[i].hole = FALSE
       PROVE  HeldAt(o, p2, pos[i])
  <2>1. i - n \in 1..(L - n) /\ n + (i - n) = i
    BY <1>5, <1>13, <1>19
  <2>2. p2[i - n] = pos[i] /\ o.lacing[i - n].hole = FALSE /\ i - n \in 1..Len(o.lacing)
    BY <1>8, <1>14, <1>19, <2>1
  <2> QED
    BY <2>2 DEF HeldAt
<1>17. CASE HoleWaits(os)
  <2>1. Taken(os) = [is |-> "hole"]
    BY <1>17 DEF Taken
  <2>2. Got(h) = Got(g)
    <3>1. h[G + 1].is # "packet"
      BY <1>11, <2>1
    <3>2. ASSUME NEW i \in 1..(G + 1), h[i].is = "packet" PROVE i \in 1..G /\ g[i].is = "packet"
      <4>1. i # G + 1
        BY <3>1, <3>2
      <4>2. i \in 1..G
        BY <1>11, <4>1
      <4> QED
        BY <1>11, <3>2, <4>2
    <3>3. ASSUME NEW i \in 1..G, g[i].is = "packet" PROVE i \in 1..(G + 1) /\ h[i].is = "packet"
      BY <1>11, <3>3
    <3> QED
      BY <1>11, <3>2, <3>3 DEF Got, G
  <2>3. \A i \in Got(g) : h[i] = g[i]
    BY <1>11, <1>16
  <2>4. Len(h) \notin Got(h)
    <3>1. Len(h) \notin 1..G
      BY <1>11
    <3> QED
      BY <1>16, <2>2, <3>1
  <2>5. InOrder(h)
    <3>1. InOrder(g)
      BY <1>10 DEF GotAt
    <3> QED
      BY <2>2, <2>3, <3>1, Zenon DEF InOrder
  <2>6. ASSUME NEW i \in Got(h)
        PROVE  /\ IsPacket(w, pp, sc, h[i].p, Id(h[i].p))
               /\ EndedBefore(w, sc, o, p2, h[i].p, c)
    <3>1. i \in Got(g) /\ h[i] = g[i]
      BY <2>2, <2>3
    <3>2. /\ IsPacket(w, pp, sc, g[i].p, Id(g[i].p))
          /\ EndedBefore(w, sc, os, pos, g[i].p, c)
      BY <1>10, <3>1 DEF GotAt
    <3> QED
      BY <1>15, <3>1, <3>2
  <2>7. GotOK(w, pp, sc, o, p2, h)
    BY <1>7, <1>9, <1>11, <2>4, <2>5, <2>6 DEF GotOK, GotAt, c
  <2>8. ~NoHoles(os, g)
    <3>1. l[1].hole /\ 1 \in 1..L
      BY <1>3, <1>13, <1>17 DEF HoleWaits, L, l
    <3>2. l[1].hole # FALSE
      BY <3>1
    <3> QED
      BY <3>1, <3>2 DEF NoHoles, L, l
  <2>9. Leaves(sc, os, pos, g, o, p2, h)
    <3>1. n = 1
      BY <1>3, <1>17 DEF Takes, HoleWaits
    <3>2. ASSUME NEW i \in 1..L, l[i].hole = FALSE PROVE HeldAt(o, p2, pos[i])
      <4>1. i # 1
        BY <1>17, <3>2 DEF HoleWaits, l
      <4>2. n < i
        BY <1>13, <3>1, <4>1
      <4> QED
        BY <1>19, <3>2, <4>2
    <3>3. \A i \in Got(g) : GotIt(h, Id(g[i].p))
      BY <2>2, <2>3 DEF GotIt
    <3> QED
      BY <3>2, <3>3 DEF Leaves, L, l
  <2> QED
    BY <1>4, <1>7, <1>12, <2>7, <2>8, <2>9 DEF h
<1>18. CASE ~HoleWaits(os)
  <2> DEFINE k == sc[pos[1]].p
             p == FirstPacket(os)
  <2>1. l[1].hole = FALSE /\ 1 \in 1..L
    <3>1. 1 \in 1..L /\ ~l[1].hole
      BY <1>3, <1>13, <1>18 DEF HoleWaits, L, l
    <3>2. l[1] \in SegType
      BY <1>13, <3>1
    <3>3. l[1].hole \in BOOLEAN
      BY <3>2 DEF SegType
    <3> QED
      BY <3>1, <3>3
  <2>2. IsPacket(w, pp, sc, p, k) /\ Id(p) = k
    <3>1. os.lacing[1].hole = FALSE
      BY <2>1 DEF l
    <3> HIDE DEF c
    <3>2. Holds(w, pp, sc, os, pos, c)
      BY <1>1
    <3>3. k = sc[pos[1]].p
      OBVIOUS
    <3> HIDE DEF k, p
    <3>4. /\ IsPacket(w, pp, sc, FirstPacket(os), k)
          /\ Id(FirstPacket(os)) = k
      BY <3>1, <3>2, <3>3, PacketOut
    <3> QED
      BY <3>4 DEF p
  <2>3. /\ k \in 1..Len(w) /\ n = Segs(w, k)
        /\ \A i \in 1..n : RunsTo(sc, os, pos, k, i)
    <3>1. os.lacing[1].hole = FALSE
      BY <2>1 DEF l
    <3>2. k = sc[pos[1]].p
      OBVIOUS
    <3> HIDE DEF k, p, c
    <3>3. IsRun(w, sc, os, pos, k, n)
      BY <1>1, <1>3, <3>1, <3>2, PacketRun
    <3> QED
      BY <3>3 DEF IsRun
  <2> HIDE DEF k, p
  <2>4. Taken(os) = [is |-> "packet", p |-> p]
    BY <1>18 DEF Taken, p
  <2>5. h[G + 1].is = "packet" /\ h[G + 1].p = p /\ G + 1 \in 1..(G + 1)
    BY <1>11, <2>4
  <2>6. ASSUME NEW i \in Got(h), i # G + 1 PROVE i \in Got(g) /\ i \in 1..G /\ h[i] = g[i]
    <3>1. i \in 1..(G + 1) /\ h[i].is = "packet"
      BY <1>11 DEF Got
    <3>2. i \in 1..G
      BY <1>11, <2>6, <3>1
    <3> QED
      BY <1>11, <3>1, <3>2 DEF Got, G
  <2>7. ASSUME NEW i \in Got(g) PROVE i \in Got(h) /\ h[i] = g[i] /\ i < G + 1
    <3>1. i \in 1..G /\ g[i].is = "packet" /\ i \in 1..(G + 1)
      BY <1>11, <1>16
    <3> QED
      BY <1>11, <3>1 DEF Got
  <2>8. G + 1 \in Got(h)
    BY <1>11, <2>5 DEF Got
  <2>9. /\ n \in Nat /\ n \in 1..n /\ l[n].hole = FALSE /\ pos[n] \in 1..Len(sc)
        /\ sc[pos[n]] = Mark(k, Segs(w, k))
    <3>1. n \in 1..n /\ n \in Nat
      BY <1>5, <1>13
    <3> QED
      BY <2>3, <3>1 DEF RunsTo, l
  <2>10. EndOf(w, sc, p, pos[n])
    BY <2>2, <2>9 DEF EndOf
  <2>11. EndedBefore(w, sc, o, p2, p, c)
    <3>1. pos[n] <= c
      <4>1. HeldOK(w, pp, sc, os, pos, n)
        BY <1>2, <1>5 DEF L, l
      <4> QED
        BY <2>9, <4>1 DEF HeldOK, l
    <3>2. ASSUME NEW i \in 1..(L - n), o.lacing[i].hole = FALSE PROVE pos[n] < p2[i]
      <4>1. n + i \in 1..L /\ p2[i] = pos[n + i] /\ n < n + i
        BY <1>14, <2>9
      <4>2. l[n + i].hole = FALSE
        BY <1>8, <3>2
      <4> QED
        BY <1>2, <1>5, <2>9, <4>1, <4>2 DEF OrderOK, L, l
    <3> QED
      BY <1>8, <2>9, <2>10, <3>1, <3>2 DEF EndedBefore
  <2>12. NextIs(w, sc, o, p2, k, c)
    <3>1. CASE o.lacing = <<>>
      <4>1. L = n /\ L > 0
        BY <1>5, <1>8, <1>13, <3>1
      <4>2. pos[n] = c
        BY <1>1, <2>9, <4>1 DEF Holds, LastOK, L, l
      <4>3. c > 0
        BY <2>9, <4>2
      <4> QED
        BY <2>9, <3>1, <4>2, <4>3 DEF NextIs
    <3>2. CASE o.lacing # <<>>
      <4>1. SUFFICES ASSUME o.lacing[1].hole = FALSE PROVE sc[p2[1]] = Mark(k + 1, 1)
        BY <3>2 DEF NextIs
      <4>2. L - n > 0
        <5>1. o.lacing \in Seq(SegType)
          BY <1>7, StreamLaid
        <5>2. Len(o.lacing) > 0
          <6> HIDE DEF SegType
          <6> QED
            BY <3>2, <5>1
        <5> QED
          BY <1>8, <5>2
      <4>3. 1 \in 1..(L - n) /\ n \in 1..(L - 1) /\ n + 1 \in 1..L
        BY <1>5, <1>13, <2>9, <4>2
      <4>4. l[n + 1].hole = FALSE /\ p2[1] = pos[n + 1]
        BY <1>8, <1>14, <4>1, <4>3
      <4>5. Linked(sc, os, pos, n)
        BY <1>1, <4>3 DEF Holds, ChainOK, L, l
      <4>6. pos[n + 1] = pos[n] + 1
        BY <2>9, <4>4, <4>5 DEF Linked, l
      <4>7. HeldOK(w, pp, sc, os, pos, n + 1)
        BY <1>2, <4>3 DEF L, l
      <4>8. pos[n + 1] \in 1..Len(sc)
        BY <4>4, <4>7 DEF HeldOK, l
      <4>9. pos[n] \in 1..(Len(sc) - 1)
        BY <2>9, <4>6, <4>8, ScriptMarks
      <4>10. sc[pos[n] + 1] = NextMark(w, sc[pos[n]])
        BY <4>9, ScriptNext
      <4> QED
        BY <2>9, <4>4, <4>6, <4>10, MarkFields DEF NextMark, Ends
    <3> QED
      BY <3>1, <3>2
  <2>13. ASSUME NEW i \in Got(g)
         PROVE  /\ Id(g[i].p) < k
                /\ i = G => k = Id(g[i].p) + 1
    <3>1. EndedBefore(w, sc, os, pos, g[i].p, c)
      BY <1>10 DEF GotAt
    <3>2. PICK r \in 1..Len(sc) : /\ EndOf(w, sc, g[i].p, r)
                                  /\ \A j \in 1..L : l[j].hole = FALSE => r < pos[j]
      BY <3>1 DEF EndedBefore, L, l
    <3>3. r < pos[1] /\ sc[r] = Mark(Id(g[i].p), Segs(w, Id(g[i].p)))
      BY <2>1, <3>2 DEF EndOf
    <3>4. pos[1] \in 1..Len(sc)
      <4>1. HeldOK(w, pp, sc, os, pos, 1)
        BY <1>2, <2>1 DEF L, l
      <4> QED
        BY <2>1, <4>1 DEF HeldOK, l
    <3>5. Ends(w, sc[r]) /\ sc[r].p = Id(g[i].p)
      BY <3>3, MarkFields DEF Ends
    <3>6. Id(g[i].p) < k
      BY <3>3, <3>4, <3>5, EndsInOrder DEF k
    <3>7. ASSUME i = G PROVE k = Id(g[i].p) + 1
      <4>1. NextIs(w, sc, os, pos, Id(g[i].p), c)
        BY <1>10, <3>7 DEF GotAt, G
      <4>2. sc[pos[1]] = Mark(Id(g[i].p) + 1, 1)
        <5>1. os.lacing # <<>>
          BY <1>3 DEF L, l
        <5> QED
          BY <2>1, <4>1, <5>1 DEF NextIs, l
      <4> QED
        BY <4>2, MarkFields DEF k
    <3> QED
      BY <3>6, <3>7
  <2>14. InOrder(h)
    <3> SUFFICES ASSUME NEW i \in Got(h), NEW j \in Got(h), i < j,
                        \A q \in (i + 1)..(j - 1) : q \notin Got(h)
                 PROVE  /\ Id(h[i].p) < Id(h[j].p)
                        /\ Id(h[j].p) # Id(h[i].p) + 1 => j > i + 1
      BY DEF InOrder
    <3>0. i \in 1..(G + 1) /\ j \in 1..(G + 1)
      BY <1>11 DEF Got
    <3>1. CASE j = G + 1
      <4>1. i \in Got(g) /\ h[i] = g[i] /\ i \in 1..G
        BY <1>11, <2>6, <3>1
      <4>2. Id(h[j].p) = k
        BY <2>2, <2>5, <3>1
      <4>3. i = G \/ j > i + 1
        BY <1>11, <3>1, <4>1
      <4> QED
        BY <2>13, <4>1, <4>2, <4>3
    <3>2. CASE j # G + 1
      <4>1. i # G + 1
        BY <1>11, <3>0, <3>2
      <4>2. i \in Got(g) /\ j \in Got(g) /\ h[i] = g[i] /\ h[j] = g[j]
        BY <2>6, <3>2, <4>1
      <4>3. \A q \in (i + 1)..(j - 1) : q \notin Got(g)
        BY <2>7
      <4>4. InOrder(g)
        BY <1>10 DEF GotAt
      <4> QED
        BY <4>2, <4>3, <4>4 DEF InOrder
    <3> QED
      BY <3>1, <3>2
  <2>15. ASSUME NEW i \in Got(h)
         PROVE  /\ IsPacket(w, pp, sc, h[i].p, Id(h[i].p))
                /\ EndedBefore(w, sc, o, p2, h[i].p, c)
    <3>1. CASE i = G + 1
      BY <2>2, <2>5, <2>11, <3>1
    <3>2. CASE i # G + 1
      <4>1. i \in Got(g) /\ h[i] = g[i]
        BY <2>6, <3>2
      <4>2. /\ IsPacket(w, pp, sc, g[i].p, Id(g[i].p))
            /\ EndedBefore(w, sc, os, pos, g[i].p, c)
        BY <1>10, <4>1 DEF GotAt
      <4> QED
        BY <1>15, <4>1, <4>2
    <3> QED
      BY <3>1, <3>2
  <2>16. NextIs(w, sc, o, p2, Id(h[Len(h)].p), c)
    BY <1>11, <2>2, <2>5, <2>12
  <2>17. GotOK(w, pp, sc, o, p2, h)
    BY <1>7, <1>9, <1>11, <2>14, <2>15, <2>16 DEF GotOK, GotAt, c
  <2>18. ASSUME NoHoles(os, g) PROVE NoHoles(o, h)
    <3>1. ASSUME NEW i \in 1..(L - n) PROVE o.lacing[i].hole = FALSE
      <4>1. n + i \in 1..L /\ o.lacing[i] = l[n + i]
        BY <1>8, <1>14
      <4> QED
        BY <2>18, <4>1 DEF NoHoles, L, l
    <3>2. ASSUME NEW i \in 1..(G + 1) PROVE h[i].is = "packet"
      <4>1. CASE i = G + 1
        BY <2>5, <4>1
      <4>2. CASE i # G + 1
        <5>1. i \in 1..G
          BY <1>11, <4>2
        <5> QED
          BY <1>11, <2>18, <5>1 DEF NoHoles, G
      <4> QED
        BY <4>1, <4>2
    <3> QED
      BY <1>8, <1>11, <3>1, <3>2 DEF NoHoles
  <2>19. Leaves(sc, os, pos, g, o, p2, h)
    <3>1. GotIt(h, k)
      BY <2>2, <2>5, <2>8 DEF GotIt
    <3>2. ASSUME NEW i \in 1..L, l[i].hole = FALSE
          PROVE  HeldAt(o, p2, pos[i]) \/ GotIt(h, sc[pos[i]].p)
      <4>1. CASE n < i
        BY <1>19, <3>2, <4>1
      <4>2. CASE ~(n < i)
        <5>1. i \in 1..n
          BY <1>13, <2>9, <4>2
        <5>2. sc[pos[i]] = Mark(k, i)
          BY <2>3, <5>1 DEF RunsTo
        <5> QED
          BY <3>1, <5>2, MarkFields
      <4> QED
        BY <4>1, <4>2
    <3>3. \A i \in Got(g) : GotIt(h, Id(g[i].p))
      BY <2>7 DEF GotIt
    <3> QED
      BY <3>2, <3>3 DEF Leaves, L, l
  <2> QED
    BY <1>4, <1>7, <1>12, <2>17, <2>18, <2>19 DEF h
<1> QED
  BY <1>17, <1>18

\* A part of a sequence, and two of them together.
LEMMA SubSeqIs ==
  ASSUME NEW S, NEW f \in Seq(S), NEW a \in Nat, NEW b \in Nat, a <= b, b <= Len(f)
  PROVE  /\ SubSeq(f, a + 1, b) \in Seq(S) /\ Len(SubSeq(f, a + 1, b)) = b - a
         /\ \A i \in 1..(b - a) : SubSeq(f, a + 1, b)[i] = f[a + i]
  OBVIOUS

LEMMA JoinIs ==
  ASSUME NEW S, NEW f \in Seq(S), NEW g \in Seq(S)
  PROVE  /\ f \o g \in Seq(S) /\ Len(f \o g) = Len(f) + Len(g)
         /\ \A i \in 1..Len(f) : (f \o g)[i] = f[i]
         /\ \A i \in 1..Len(g) : (f \o g)[Len(f) + i] = g[i]
  OBVIOUS

LEMMA SameSeq ==
  ASSUME NEW S, NEW f \in Seq(S), NEW g \in Seq(S), NEW n, Len(f) = n, Len(g) = n,
         \A i \in 1..n : f[i] = g[i]
  PROVE  f = g
  OBVIOUS

-----------------------------------------------------------------------------
(* The sync layer.                                                         *)

\* The data held is the end of what was read.
DataIs(f, oy, off) ==
  /\ Len(f) \in Nat /\ off \in 0..Len(f) /\ off \in Nat
  /\ Len(oy.data) \in Nat /\ Done(oy, off) \in Nat
  /\ Done(oy, off) + Len(oy.data) = off
  /\ \E S : oy.data \in Seq(S)
  /\ \A i \in 1..Len(oy.data) : Done(oy, off) + i \in 1..Len(f) /\ oy.data[i] = f[Done(oy, off) + i]

LEMMA DataOf ==
  ASSUME NEW f, \E S : f \in Seq(S), NEW oy, NEW off, SyncOK(f, oy, off)
  PROVE  DataIs(f, oy, off)
<1>1. PICK S : f \in Seq(S)
  OBVIOUS
<1> DEFINE d == Done(oy, off)
<1>2. /\ oy.data = SubSeq(f, d + 1, off) /\ off \in 0..Len(f) /\ Len(oy.data) \in 0..off
  BY DEF SyncOK
<1>3. d = off - Len(oy.data)
  BY DEF Done
<1> HIDE DEF d
<1>4. Len(f) \in Nat /\ off \in Nat /\ Len(oy.data) \in Nat /\ d \in Nat /\ d + Len(oy.data) = off
      /\ off - d = Len(oy.data)
  BY <1>1, <1>2, <1>3
<1>5. SubSeq(f, d + 1, off) \in Seq(S) /\ \A i \in 1..(off - d) : SubSeq(f, d + 1, off)[i] = f[d + i]
  BY <1>1, <1>2, <1>4
<1>6. \A i \in 1..Len(oy.data) : d + i \in 1..Len(f) /\ oy.data[i] = f[d + i]
  <2> TAKE i \in 1..Len(oy.data)
  <2>1. oy.data[i] = f[d + i]
    BY <1>2, <1>4, <1>5
  <2>2. d + i \in 1..Len(f)
    BY <1>2, <1>4
  <2> QED
    BY <2>1, <2>2
<1>7. \E T : oy.data \in Seq(T)
  BY <1>2, <1>5
<1> QED
  BY <1>2, <1>4, <1>6, <1>7 DEF DataIs, d

\* A suffix of the data, and nothing seen.
RestOf(oy, to) == [SyncInit EXCEPT !.data = SubSeq(oy.data, to, Len(oy.data))]

LEMMA SyncRest ==
  ASSUME NEW f, \E S : f \in Seq(S), NEW oy, NEW off, SyncOK(f, oy, off),
         NEW to \in 1..(Len(oy.data) + 1),
         NEW o, o = RestOf(oy, to)
  PROVE  /\ SyncOK(f, o, off)
         /\ Done(o, off) = Done(oy, off) + (to - 1)
         /\ Done(oy, off) \in Nat
<1>1. DataIs(f, oy, off)
  BY DataOf
<1> DEFINE d == Done(oy, off)
           n == Len(oy.data)
<1>2. /\ Len(f) \in Nat /\ off \in 0..Len(f) /\ n \in Nat /\ d \in Nat /\ d + n = off
      /\ \E S : oy.data \in Seq(S)
      /\ \A i \in 1..n : d + i \in 1..Len(f) /\ oy.data[i] = f[d + i]
  BY <1>1 DEF DataIs
<1>3. /\ o.data = SubSeq(oy.data, to, n) /\ o.headed = FALSE /\ o.bodybytes = 0
      /\ o = [data |-> o.data, headed |-> o.headed, bodybytes |-> o.bodybytes]
  BY DEF SyncInit, RestOf
<1> HIDE DEF n
<1>4. PICK S : f \in Seq(S)
  OBVIOUS
<1>5. PICK T : oy.data \in Seq(T)
  BY <1>2
<1>6. Len(o.data) = n - (to - 1) /\ Len(o.data) \in Nat
  <2>1. to \in 1..(n + 1)
    BY DEF n
  <2>2. Len(SubSeq(oy.data, to, n)) = n - (to - 1)
    BY <1>2, <1>5, <2>1 DEF n
  <2> QED
    BY <1>2, <1>3, <2>1, <2>2
<1>7. Done(o, off) = d + (to - 1) /\ to \in 1..(n + 1)
  BY <1>2, <1>6 DEF Done, n
<1>8. o.data = SubSeq(f, Done(o, off) + 1, off)
  <2> DEFINE u == SubSeq(f, d + (to - 1) + 1, off)
             v == SubSeq(oy.data, to, n)
  <2>1. /\ u \in Seq(S) /\ Len(u) = n - (to - 1)
        /\ \A i \in 1..(n - (to - 1)) : u[i] = f[d + (to - 1) + i]
    <3> DEFINE e == d + (to - 1)
    <3>1. e \in Nat /\ e <= off /\ off - e = n - (to - 1)
      BY <1>2, <1>7
    <3> HIDE DEF e
    <3>2. /\ SubSeq(f, e + 1, off) \in Seq(S) /\ Len(SubSeq(f, e + 1, off)) = off - e
          /\ \A i \in 1..(off - e) : SubSeq(f, e + 1, off)[i] = f[e + i]
      <4>1. f \in Seq(S) /\ off \in Nat /\ off <= Len(f)
        BY <1>2, <1>4
      <4> QED
        BY <3>1, <4>1, SubSeqIs
    <3> QED
      BY <3>1, <3>2 DEF e
  <2>2. /\ v \in Seq(T) /\ Len(v) = n - (to - 1)
        /\ \A i \in 1..(n - (to - 1)) : v[i] = oy.data[(to - 1) + i]
    <3> DEFINE e == to - 1
    <3>1. e \in 0..n /\ e \in Nat /\ to = e + 1 /\ n \in Nat
      BY <1>2, <1>7
    <3>2. oy.data \in Seq(T) /\ Len(oy.data) = n
      BY <1>5 DEF n
    <3> HIDE DEF e
    <3>3. /\ SubSeq(oy.data, e + 1, n) \in Seq(T) /\ Len(SubSeq(oy.data, e + 1, n)) = n - e
          /\ \A i \in 1..(n - e) : SubSeq(oy.data, e + 1, n)[i] = oy.data[e + i]
      BY <3>1, <3>2
    <3> QED
      BY <3>1, <3>3 DEF e
  <2> HIDE DEF u, v
  <2>3. ASSUME NEW i \in 1..(n - (to - 1)) PROVE u[i] = v[i]
    <3>1. (to - 1) + i \in 1..n /\ d + ((to - 1) + i) = d + (to - 1) + i
      BY <1>2, <1>7
    <3>2. oy.data[(to - 1) + i] = f[d + ((to - 1) + i)]
      BY <1>2, <3>1
    <3> QED
      BY <2>1, <2>2, <3>1, <3>2
  <2>4. u \in Seq(S \cup T) /\ v \in Seq(S \cup T)
    BY <2>1, <2>2
  <2>5. u = v
    BY <2>1, <2>2, <2>3, <2>4
  <2> QED
    BY <1>3, <1>7, <2>5 DEF u, v
<1>9. Len(o.data) \in 0..off
  BY <1>2, <1>6, <1>7
<1>10. /\ o.headed \in BOOLEAN /\ o.headed # TRUE
       /\ o.bodybytes \in Nat
  <2>1. o.headed = FALSE /\ o.bodybytes = 0
    BY <1>3, Zenon
  <2>2. o.bodybytes \in Nat
    BY <2>1
  <2> QED
    BY <2>1, <2>2, Zenon
<1>11. SyncOK(f, o, off)
  BY <1>2, <1>3, <1>8, <1>9, <1>10, Zenon DEF SyncOK
<1> QED
  BY <1>2, <1>7, <1>11

LEMMA SyncStarts ==
  ASSUME NEW f, \E S : f \in Seq(S), NEW off \in 0..Len(f)
  PROVE  SyncOK(f, SyncInit, off) /\ Done(SyncInit, off) = off
<1>1. PICK S : f \in Seq(S)
  OBVIOUS
<1>2. SyncInit = [data |-> <<>>, headed |-> FALSE, bodybytes |-> 0]
  BY DEF SyncInit
<1>3. Len(f) \in Nat /\ off \in Nat /\ Len(<<>>) = 0
  BY <1>1
<1>4. SubSeq(f, off + 1, off) = <<>>
  BY <1>1, <1>3
<1>5. Done(SyncInit, off) = off
  BY <1>2, <1>3 DEF Done
<1> QED
  BY <1>2, <1>3, <1>4, <1>5 DEF SyncOK

\* What a look at the head of the data shows.
LEMMA SeenIs ==
  ASSUME NEW pp, NEW f, FileOK(pp, f), NEW oy, NEW off, SyncOK(f, oy, off)
  PROVE  /\ Seen(oy).data = oy.data
         /\ SyncOK(f, Seen(oy), off)
         /\ Seen(oy).headed \in BOOLEAN /\ Seen(oy).bodybytes \in Nat
         /\ Seen(oy).headed = TRUE <=> Len(oy.data) >= HeadItems /\ oy.data[1].kind = "head"
         /\ Seen(oy).headed = TRUE =>
              Seen(oy).bodybytes = IF oy.data[2].kind = "table" THEN oy.data[2].len ELSE 0
<1>1. /\ oy = [data |-> oy.data, headed |-> oy.headed, bodybytes |-> oy.bodybytes]
      /\ oy.headed \in BOOLEAN /\ oy.bodybytes \in Nat
      /\ oy.headed = TRUE => /\ Len(oy.data) >= HeadItems /\ oy.data[1].kind = "head"
                             /\ oy.bodybytes = IF oy.data[2].kind = "table" THEN oy.data[2].len ELSE 0
  BY DEF SyncOK
<1>2. DataIs(f, oy, off)
  BY DataOf DEF FileOK
<1>3. Len(oy.data) \in Nat /\ \A i \in 1..Len(oy.data) : Done(oy, off) + i \in 1..Len(f)
                                                          /\ oy.data[i] = f[Done(oy, off) + i]
  BY <1>2 DEF DataIs
<1> DEFINE no == oy.headed \/ Len(oy.data) < HeadItems \/ oy.data[1].kind # "head"
           bb == IF oy.data[2].kind = "table" THEN oy.data[2].len ELSE 0
           o == [data |-> oy.data, headed |-> TRUE, bodybytes |-> bb]
<1>4. HeadItems = 2
  BY DEF HeadItems
<1>5. CASE no
  <2>1. Seen(oy) = oy
    BY <1>5 DEF Seen
  <2>2. oy.headed = TRUE <=> Len(oy.data) >= HeadItems /\ oy.data[1].kind = "head"
    <3>1. CASE oy.headed = TRUE
      BY <1>1, <3>1
    <3>2. CASE oy.headed # TRUE
      <4>1. Len(oy.data) < HeadItems \/ oy.data[1].kind # "head"
        BY <1>1, <1>5, <3>2
      <4>2. ~(Len(oy.data) >= HeadItems /\ oy.data[1].kind = "head")
        BY <1>3, <1>4, <4>1
      <4> QED
        BY <3>2, <4>2
    <3> QED
      BY <3>1, <3>2
  <2> QED
    BY <1>1, <2>1, <2>2, Zenon
<1>6. CASE ~no
  <2>1. Len(oy.data) >= HeadItems /\ oy.data[1].kind = "head" /\ ~oy.headed
    <3>1. ~(Len(oy.data) < HeadItems)
      BY <1>6
    <3>2. Len(oy.data) >= HeadItems
      BY <1>3, <1>4, <3>1
    <3> QED
      BY <1>6, <3>2
  <2>2. Seen(oy) = [oy EXCEPT !.headed = TRUE, !.bodybytes = bb]
    BY <1>6 DEF Seen
  <2>3. oy \in [data : {oy.data}, headed : BOOLEAN, bodybytes : Nat]
    BY <1>1
  <2> HIDE DEF bb
  <2>5. Seen(oy) = o
    BY <2>2, <2>3
  <2> HIDE DEF o
  <2>6. o.data = oy.data /\ o.headed = TRUE /\ o.bodybytes = bb
        /\ o = [data |-> o.data, headed |-> o.headed, bodybytes |-> o.bodybytes]
    BY DEF o
  <2>7. bb \in Nat
    <3>1. CASE oy.data[2].kind = "table"
      <4>1. 2 \in 1..Len(oy.data)
        BY <1>3, <1>4, <2>1
      <4>2. Done(oy, off) + 2 \in 1..Len(f) /\ oy.data[2] = f[Done(oy, off) + 2]
        BY <1>3, <4>1
      <4>3. ItemOK(pp, oy.data[2])
        BY <4>2 DEF FileOK
      <4>4. oy.data[2] \in [kind : {"table"}, len : Nat]
        BY <3>1, <4>3 DEF ItemOK, Junk
      <4> QED
        BY <3>1, <4>4 DEF bb
    <3>2. CASE oy.data[2].kind # "table"
      BY <3>2 DEF bb
    <3> QED
      BY <3>1, <3>2
  <2>8. SyncOK(f, o, off)
    <3>1. Done(o, off) = Done(oy, off)
      BY <2>6 DEF Done
    <3>2. /\ oy.data = SubSeq(f, Done(oy, off) + 1, off)
          /\ off \in 0..Len(f) /\ Len(oy.data) \in 0..off
      BY DEF SyncOK
    <3>3. o.headed \in BOOLEAN
      BY <2>6
    <3> QED
      BY <2>1, <2>6, <2>7, <3>1, <3>2, <3>3, Zenon DEF SyncOK, bb
  <2>9. Seen(oy).headed \in BOOLEAN /\ Seen(oy).bodybytes \in Nat
    BY <2>5, <2>6, <2>7
  <2> QED
    BY <2>1, <2>5, <2>6, <2>8, <2>9, Zenon DEF bb
<1> QED
  BY <1>5, <1>6

\* op_get_data: more of the file is held.
MoreOf(f, oy, off, n) == [Seen(oy) EXCEPT !.data = @ \o SubSeq(f, off + 1, off + n)]

LEMMA ReadOn ==
  ASSUME NEW pp, NEW f, FileOK(pp, f), NEW oy, NEW off, SyncOK(f, oy, off),
         NEW n \in Nat, off + n <= Len(f),
         NEW o, o = MoreOf(f, oy, off, n)
  PROVE  SyncOK(f, o, off + n) /\ Done(o, off + n) = Done(oy, off)
<1> DEFINE at == Seen(oy)
           d == Done(oy, off)
           m == Len(oy.data)
           u == SubSeq(f, off + 1, off + n)
<1>1. /\ at.data = oy.data /\ SyncOK(f, at, off)
  BY SeenIs
<1>2. PICK S : f \in Seq(S)
  BY DEF FileOK
<1>3. DataIs(f, oy, off)
  BY <1>2, DataOf
<1>4. /\ Len(f) \in Nat /\ off \in 0..Len(f) /\ off \in Nat /\ m \in Nat /\ d \in Nat /\ d + m = off
  BY <1>3 DEF DataIs
<1>5. /\ at = [data |-> at.data, headed |-> at.headed, bodybytes |-> at.bodybytes]
      /\ at.headed \in BOOLEAN /\ at.bodybytes \in Nat
      /\ at.headed = TRUE => /\ Len(at.data) >= HeadItems /\ at.data[1].kind = "head"
                             /\ at.bodybytes = IF at.data[2].kind = "table" THEN at.data[2].len ELSE 0
  BY <1>1 DEF SyncOK
<1>6. oy.data = SubSeq(f, d + 1, off)
  BY DEF SyncOK
<1>7. o = [at EXCEPT !.data = oy.data \o u]
  BY <1>1 DEF MoreOf
<1> HIDE DEF at, d, m, u
<1>8. /\ o.data = oy.data \o u /\ o.headed = at.headed /\ o.bodybytes = at.bodybytes
      /\ o = [data |-> o.data, headed |-> o.headed, bodybytes |-> o.bodybytes]
  BY <1>5, <1>7
<1>9. u \in Seq(S) /\ Len(u) = n /\ \A i \in 1..n : u[i] = f[off + i]
  <2>1. off + n \in Nat /\ (off + n) - off = n
    BY <1>4
  <2> DEFINE e == off + n
  <2>2. e \in 0..Len(f) /\ e - off = n /\ off <= e /\ e \in Nat
    BY <1>4
  <2> HIDE DEF e
  <2>3. /\ SubSeq(f, off + 1, e) \in Seq(S) /\ Len(SubSeq(f, off + 1, e)) = e - off
        /\ \A i \in 1..(e - off) : SubSeq(f, off + 1, e)[i] = f[off + i]
    <3>1. off \in Nat /\ e \in Nat /\ off <= e /\ e <= Len(f)
      BY <1>4, <2>2
    <3> QED
      BY <1>2, <3>1, SubSeqIs
  <2> QED
    BY <2>2, <2>3 DEF e, u
<1>10. /\ oy.data \in Seq(S) /\ Len(oy.data) = m
       /\ \A i \in 1..m : oy.data[i] = f[d + i]
  <2>1. SubSeq(f, d + 1, off) \in Seq(S) /\ \A i \in 1..(off - d) : SubSeq(f, d + 1, off)[i] = f[d + i]
    <3>1. d \in Nat /\ off \in Nat /\ d <= off /\ off <= Len(f)
      BY <1>4
    <3> QED
      BY <1>2, <3>1, SubSeqIs
  <2>2. off - d = m /\ Len(oy.data) = m
    BY <1>4 DEF m
  <2> QED
    BY <1>6, <2>1, <2>2
<1>11. /\ o.data \in Seq(S) /\ Len(o.data) = m + n
       /\ \A i \in 1..m : o.data[i] = oy.data[i]
       /\ \A i \in 1..n : o.data[m + i] = u[i]
  <2>1. /\ oy.data \o u \in Seq(S) /\ Len(oy.data \o u) = m + n
        /\ \A i \in 1..m : (oy.data \o u)[i] = oy.data[i]
        /\ \A i \in 1..n : (oy.data \o u)[m + i] = u[i]
    <3> DEFINE v == oy.data
    <3>1. v \in Seq(S) /\ Len(v) = m
      BY <1>10
    <3> HIDE DEF v
    <3>2. /\ v \o u \in Seq(S) /\ Len(v \o u) = Len(v) + Len(u)
          /\ \A i \in 1..Len(v) : (v \o u)[i] = v[i]
          /\ \A i \in 1..Len(u) : (v \o u)[Len(v) + i] = u[i]
      <4>1. u \in Seq(S) /\ v \in Seq(S)
        BY <1>9, <3>1
      <4> QED
        BY <4>1
    <3> QED
      BY <1>9, <3>1, <3>2 DEF v
  <2> QED
    BY <1>8, <2>1
<1>12. ASSUME NEW i \in 1..(m + n) PROVE o.data[i] = f[d + i]
  <2>1. CASE i <= m
    <3>1. i \in 1..m
      BY <1>4, <2>1
    <3> QED
      BY <1>10, <1>11, <3>1
  <2>2. CASE ~(i <= m)
    <3>1. i - m \in 1..n /\ m + (i - m) = i /\ off + (i - m) = d + i
      BY <1>4, <2>2
    <3> QED
      BY <1>9, <1>11, <3>1
  <2> QED
    BY <2>1, <2>2
<1>13. o.data = SubSeq(f, d + 1, off + n)
  <2> DEFINE e == off + n
             v == SubSeq(f, d + 1, e)
             q == o.data
  <2>1. e \in 0..Len(f) /\ e \in Nat /\ e - d = m + n /\ d <= e
    BY <1>4
  <2>0. q \in Seq(S) /\ Len(q) = m + n /\ \A i \in 1..(m + n) : q[i] = f[d + i]
    BY <1>11, <1>12
  <2> HIDE DEF e, q
  <2>2. v \in Seq(S) /\ Len(v) = e - d /\ \A i \in 1..(e - d) : v[i] = f[d + i]
    BY <1>2, <1>4, <2>1
  <2> HIDE DEF v
  <2>3. q = v
    <3>1. Len(q) = m + n /\ Len(v) = m + n /\ \A i \in 1..(m + n) : q[i] = v[i]
      BY <2>0, <2>1, <2>2
    <3> QED
      BY <2>0, <2>2, <3>1, SameSeq
  <2> QED
    BY <2>3 DEF v, e, q
<1>14. Done(o, off + n) = d
  BY <1>4, <1>11 DEF Done
<1>15. Len(o.data) \in 0..(off + n) /\ off + n \in 0..Len(f)
  <2>1. Len(o.data) = m + n
    BY <1>11
  <2> QED
    BY <1>4, <2>1
<1>16. ASSUME o.headed = TRUE
       PROVE  /\ Len(o.data) >= HeadItems /\ o.data[1].kind = "head"
              /\ o.bodybytes = IF o.data[2].kind = "table" THEN o.data[2].len ELSE 0
  <2>1. /\ Len(oy.data) >= HeadItems /\ oy.data[1].kind = "head"
        /\ o.bodybytes = IF oy.data[2].kind = "table" THEN oy.data[2].len ELSE 0
    <3>1. at.data = oy.data
      BY <1>1 DEF at
    <3> QED
      BY <1>5, <1>8, <1>16, <3>1
  <2>2. 1 \in 1..m /\ 2 \in 1..m /\ Len(o.data) >= HeadItems
    <3>1. Len(oy.data) = m /\ Len(o.data) = m + n
      BY <1>10, <1>11
    <3>2. m >= 2
      BY <2>1, <3>1 DEF HeadItems
    <3> QED
      <4>1. m \in Nat /\ m + n >= 2
        BY <1>4, <3>2
      <4> QED
        <5>1. HeadItems = 2
          BY DEF HeadItems
        <5>2. 1 \in 1..m /\ 2 \in 1..m
          BY <3>2, <4>1
        <5>3. Len(o.data) >= HeadItems
          BY <3>1, <4>1, <5>1
        <5> QED
          BY <5>2, <5>3
  <2>3. o.data[1] = oy.data[1] /\ o.data[2] = oy.data[2]
    BY <1>11, <2>2
  <2> QED
    BY <2>1, <2>2, <2>3
<1>17. SyncOK(f, o, off + n)
  BY <1>5, <1>8, <1>13, <1>14, <1>15, <1>16, Zenon DEF SyncOK
<1> QED
  BY <1>14, <1>17 DEF d

\* What a look shows, once no more data is needed.
LEMMA LookIs ==
  ASSUME NEW pp, NEW f, FileOK(pp, f), NEW oy, NEW off, SyncOK(f, oy, off), ~NeedsMore(oy)
  PROVE  /\ Len(oy.data) >= 1
         /\ Seen(oy).headed = TRUE =>
              /\ HeadItems + Seen(oy).bodybytes <= Len(oy.data)
              /\ 1 \in 1..Len(oy.data)
<1>1. /\ Seen(oy).headed \in BOOLEAN /\ Seen(oy).bodybytes \in Nat
      /\ Seen(oy).headed = TRUE <=> Len(oy.data) >= HeadItems /\ oy.data[1].kind = "head"
  BY SeenIs
<1>2. Len(oy.data) \in Nat
  <2>1. DataIs(f, oy, off)
    BY DataOf DEF FileOK
  <2> QED
    BY <2>1 DEF DataIs
<1>3. ~(~Seen(oy).headed /\ Len(oy.data) < HeadItems)
      /\ ~(Seen(oy).headed /\ HeadItems + Seen(oy).bodybytes > Len(oy.data))
  BY DEF NeedsMore
<1>4. HeadItems = 2
  BY DEF HeadItems
<1>5. CASE Seen(oy).headed = TRUE
  <2>1. ~(HeadItems + Seen(oy).bodybytes > Len(oy.data))
    BY <1>3, <1>5
  <2>2. HeadItems + Seen(oy).bodybytes <= Len(oy.data)
    BY <1>1, <1>2, <1>4, <2>1
  <2>3. Len(oy.data) >= 1 /\ 1 \in 1..Len(oy.data)
    BY <1>1, <1>2, <1>4, <2>2
  <2> QED
    BY <2>2, <2>3
<1>6. CASE Seen(oy).headed # TRUE
  <2>1. ~(Len(oy.data) < HeadItems)
    BY <1>1, <1>3, <1>6
  <2>2. Len(oy.data) >= 1
    BY <1>2, <1>4, <2>1
  <2> QED
    BY <1>6, <2>2
<1> QED
  BY <1>5, <1>6

\* A page that is found is one of the pages, where the data begins.
Found(pp, f, oy, off, page) ==
  /\ page \in PageType /\ page.pageno \in Nat
  /\ page.pageno < Len(pp) /\ page = pp[page.pageno + 1]
  /\ Done(oy, off) \in Nat /\ Done(oy, off) + 1 \in 1..Len(f)
  /\ f[Done(oy, off) + 1].kind = "head" /\ f[Done(oy, off) + 1].page = page

LEMMA PageFoundIs ==
  ASSUME NEW pp, NEW f, FileOK(pp, f), NEW oy, NEW off, SyncOK(f, oy, off), PageFound(oy)
  PROVE  /\ Found(pp, f, oy, off, oy.data[1].page)
         /\ SyncOK(f, AfterFound(oy), off)
         /\ Done(AfterFound(oy), off) = Done(oy, off) + Len(Items(oy.data[1].page))
         /\ IsAt(f, Done(oy, off), oy.data[1].page)
<1> DEFINE page == oy.data[1].page
           bb == Seen(oy).bodybytes
           m == Len(oy.data)
           d == Done(oy, off)
<1>1. Seen(oy).headed /\ ~NeedsMore(oy) /\ SubSeq(oy.data, 1, HeadItems + bb) = Items(page)
  BY DEF PageFound
<1>2. /\ Seen(oy).headed \in BOOLEAN /\ bb \in Nat
      /\ Seen(oy).headed = TRUE <=> m >= HeadItems /\ oy.data[1].kind = "head"
  BY SeenIs
<1>3. Seen(oy).headed = TRUE
  BY <1>1, <1>2
<1>4. HeadItems + bb <= m /\ 1 \in 1..m
  BY <1>1, <1>3, LookIs
<1>5. DataIs(f, oy, off)
  BY DataOf DEF FileOK
<1>6. /\ m \in Nat /\ d \in Nat
      /\ \E S : oy.data \in Seq(S)
      /\ \A i \in 1..m : d + i \in 1..Len(f) /\ oy.data[i] = f[d + i]
  BY <1>5 DEF DataIs
<1> HIDE DEF d
<1>7. d + 1 \in 1..Len(f) /\ oy.data[1] = f[d + 1] /\ oy.data[1].kind = "head"
  BY <1>2, <1>3, <1>4, <1>6
<1>8. ItemOK(pp, oy.data[1])
  BY <1>7 DEF FileOK
<1>9. /\ page \in PageType /\ page.pageno \in Nat
      /\ page.pageno < Len(pp) /\ page = pp[page.pageno + 1]
  BY <1>7, <1>8, HeadIs
<1>10. Found(pp, f, oy, off, page)
  BY <1>6, <1>7, <1>9 DEF Found, d
<1> HIDE DEF page, bb, m
<1>11. HeadItems + bb = Len(Items(page)) /\ HeadItems + bb \in Nat
  <2> DEFINE e == HeadItems + bb
  <2>1. e \in Nat /\ e <= m
    BY <1>2, <1>4 DEF HeadItems
  <2>2. PICK S : oy.data \in Seq(S)
    BY <1>6
  <2> HIDE DEF e
  <2>3. Len(SubSeq(oy.data, 0 + 1, e)) = e - 0
    <3>1. 0 \in Nat /\ 0 <= e /\ e <= Len(oy.data)
      BY <2>1 DEF m
    <3> QED
      BY <2>1, <2>2, <3>1, SubSeqIs
  <2>4. Len(SubSeq(oy.data, 1, e)) = e
    BY <2>1, <2>3
  <2> QED
    BY <1>1, <2>1, <2>4 DEF e
<1> DEFINE to == HeadItems + bb + 1
           o == [SyncInit EXCEPT !.data = SubSeq(oy.data, to, Len(oy.data))]
<1>12. to \in 1..(Len(oy.data) + 1)
  BY <1>4, <1>6, <1>11 DEF m
<1>13. AfterFound(oy) = o
  BY Zenon DEF AfterFound, bb
<1>14. to - 1 = Len(Items(page))
  BY <1>11
<1> HIDE DEF to
<1>15. o = RestOf(oy, to) /\ \E S : f \in Seq(S)
  BY DEF RestOf, FileOK
<1> HIDE DEF o
<1>16. /\ SyncOK(f, o, off)
       /\ Done(o, off) = Done(oy, off) + (to - 1)
  BY <1>12, <1>15, SyncRest
<1>17. IsAt(f, Done(oy, off), page)
  <2> DEFINE e == Len(Items(page))
             v == SubSeq(oy.data, 0 + 1, e)
  <2>1. e \in Nat /\ e <= m
    BY <1>2, <1>3, <1>4, <1>11 DEF bb, m, page
  <2>2. PICK S : oy.data \in Seq(S)
    BY <1>6
  <2>3. SubSeq(oy.data, 1, e) = Items(page)
    BY <1>1, <1>11
  <2> HIDE DEF e
  <2>4. \A i \in 1..(e - 0) : v[i] = oy.data[0 + i]
    <3>1. 0 \in Nat /\ 0 <= e /\ e <= Len(oy.data)
      BY <2>1 DEF m
    <3> QED
      BY <2>1, <2>2, <3>1, SubSeqIs
  <2>5. v = Items(page)
    BY <2>3
  <2> HIDE DEF v
  <2>6. ASSUME NEW i \in 1..e PROVE f[d + i] = Items(page)[i]
    <3>1. i \in 1..m /\ i \in 1..(e - 0) /\ 0 + i = i
      BY <1>6, <2>1
    <3>2. oy.data[i] = f[d + i] /\ v[i] = oy.data[i]
      BY <1>6, <2>4, <3>1
    <3> QED
      BY <2>5, <3>2
  <2> QED
    BY <2>6 DEF IsAt, e, d
<1> QED
  BY <1>10, <1>13, <1>14, <1>16, <1>17 DEF page

\* What is skipped is not a page, and the next that may be is not skipped.
LEMMA SkippedIs ==
  ASSUME NEW pp, NEW f, FileOK(pp, f), NEW oy, NEW off, SyncOK(f, oy, off), ~NeedsMore(oy)
  PROVE  /\ SyncOK(f, Skipped(oy), off)
         /\ Done(Skipped(oy), off) > Done(oy, off)
         /\ Done(oy, off) \in Nat /\ Done(Skipped(oy), off) \in Nat
         /\ \A a \in (Done(oy, off) + 2)..Done(Skipped(oy), off) : f[a].kind # "head"
<1> DEFINE m == Len(oy.data)
           next == {j \in 2..m : LooksLikeO(oy.data[j])}
           to == IF next = {} THEN m + 1 ELSE CHOOSE j \in next : \A k \in next : j <= k
           o == [SyncInit EXCEPT !.data = SubSeq(oy.data, to, Len(oy.data))]
<1>1. m \in Nat /\ m >= 1
  <2>1. DataIs(f, oy, off)
    BY DataOf DEF FileOK
  <2> QED
    BY <2>1, LookIs DEF DataIs
<1>2. to \in 2..(m + 1) /\ \A i \in 2..(to - 1) : oy.data[i].kind # "head"
  <2>0. \A i \in 2..m : i \notin next => oy.data[i].kind # "head"
    BY DEF LooksLikeO
  <2>1. CASE next = {}
    <3>1. to = m + 1 /\ (m + 1) - 1 = m
      BY <1>1, <2>1
    <3> QED
      BY <1>1, <2>0, <2>1, <3>1
  <2>2. CASE next # {}
    <3>1. next \subseteq Nat
      BY <1>1
    <3>2. next \subseteq 2..(m + 1)
      BY <1>1
    <3> HIDE DEF next
    <3>3. \E j \in next : \A k \in next : j <= k
      BY <2>2, <3>1, LeastNat
    <3>4. to \in next /\ \A k \in next : to <= k
      BY <2>2, <3>3
    <3>5. to \in 2..m
      BY <3>4 DEF next
    <3> HIDE DEF to
    <3>6. \A i \in 2..(to - 1) : i \in 2..m /\ ~(to <= i)
      BY <1>1, <3>5
    <3> QED
      BY <2>0, <3>2, <3>4, <3>6
  <2> QED
    BY <2>1, <2>2
<1>3. Skipped(oy) = o
  BY Zenon DEF Skipped
<1> HIDE DEF to
<1>4. to \in 1..(Len(oy.data) + 1) /\ to - 1 \in Nat /\ to - 1 > 0
  BY <1>1, <1>2
<1>5. o = RestOf(oy, to) /\ \E S : f \in Seq(S)
  BY DEF RestOf, FileOK
<1> HIDE DEF o
<1>6. /\ SyncOK(f, o, off)
      /\ Done(o, off) = Done(oy, off) + (to - 1)
      /\ Done(oy, off) \in Nat
  BY <1>4, <1>5, SyncRest
<1>7. \A i \in 1..m : oy.data[i] = f[Done(oy, off) + i]
  <2>1. DataIs(f, oy, off)
    BY DataOf DEF FileOK
  <2> QED
    BY <2>1 DEF DataIs
<1>8. \A a \in (Done(oy, off) + 2)..Done(o, off) : f[a].kind # "head"
  <2> TAKE a \in (Done(oy, off) + 2)..Done(o, off)
  <2> DEFINE d == Done(oy, off)
  <2>1. d \in Nat /\ Done(o, off) = d + (to - 1)
    BY <1>6
  <2> HIDE DEF d
  <2>2. a - d \in 2..(to - 1) /\ a - d \in 1..m /\ d + (a - d) = a
    BY <1>1, <1>2, <2>1 DEF d
  <2> QED
    BY <1>2, <1>7, <2>2 DEF d
<1> QED
  BY <1>3, <1>4, <1>6, <1>8

\* A page that is all there is found where it begins.
LEMMA FoundThere ==
  ASSUME NEW pp, NEW f, FileOK(pp, f), NEW oy, NEW off, SyncOK(f, oy, off), ~NeedsMore(oy),
         NEW page \in PageType, IsAt(f, Done(oy, off), page)
  PROVE  PageFound(oy)
<1> DEFINE d == Done(oy, off)
           bb == Seen(oy).bodybytes
           n == Len(oy.data)
           t == Items(page)
<1>1. DataIs(f, oy, off)
  BY DataOf DEF FileOK
<1>2. /\ n \in Nat /\ d \in Nat /\ \E S : oy.data \in Seq(S)
      /\ \A i \in 1..n : d + i \in 1..Len(f) /\ oy.data[i] = f[d + i]
  BY <1>1 DEF DataIs
<1>3. n >= 1 /\ (Seen(oy).headed = TRUE => HeadItems + bb <= n)
  BY LookIs
<1>4. /\ Seen(oy).headed \in BOOLEAN /\ bb \in Nat
      /\ Seen(oy).headed = TRUE <=> n >= HeadItems /\ oy.data[1].kind = "head"
      /\ Seen(oy).headed = TRUE => bb = IF oy.data[2].kind = "table" THEN oy.data[2].len ELSE 0
  BY SeenIs
<1>5. ~(~Seen(oy).headed /\ n < HeadItems)
  BY DEF NeedsMore
<1>0. HeadItems = 2
  BY DEF HeadItems
<1> HIDE DEF d, bb, n
<1>10. /\ Len(t) = HeadItems + Len(page.body) /\ Len(t) \in Nat /\ Len(page.body) \in Nat
       /\ t[1] = [kind |-> "head", page |-> page, ok |-> TRUE]
       /\ t[2] = [kind |-> "table", len |-> Len(page.body)]
       /\ \E S : t \in Seq(S)
  BY ItemsOf
<1>11. \A i \in 1..Len(t) : f[d + i] = t[i]
  BY DEF IsAt, d
<1> HIDE DEF t
<1>12. oy.data[1] = t[1]
  <2>1. 1 \in 1..n /\ 1 \in 1..Len(t)
    BY <1>0, <1>2, <1>3, <1>10
  <2> QED
    BY <1>2, <1>11, <2>1
<1>13. oy.data[1].kind = "head" /\ oy.data[1].page = page
  BY <1>10, <1>12
<1>14. Seen(oy).headed = TRUE /\ n >= HeadItems
  <2>1. n >= HeadItems \/ Seen(oy).headed = TRUE
    BY <1>0, <1>2, <1>5
  <2> QED
    BY <1>4, <1>13, <2>1
<1>15. oy.data[2] = t[2]
  <2>1. 2 \in 1..n /\ 2 \in 1..Len(t)
    BY <1>0, <1>2, <1>10, <1>14
  <2> QED
    BY <1>2, <1>11, <2>1
<1>16. bb = Len(page.body)
  <2>1. oy.data[2].kind = "table" /\ oy.data[2].len = Len(page.body)
    BY <1>10, <1>15
  <2> QED
    BY <1>4, <1>14, <2>1
<1>17. HeadItems + bb = Len(t) /\ Len(t) <= n
  BY <1>3, <1>10, <1>14, <1>16
<1>18. SubSeq(oy.data, 1, Len(t)) = t
  <2> DEFINE e == Len(t)
             v == SubSeq(oy.data, 0 + 1, e)
  <2>1. PICK S : oy.data \in Seq(S)
    BY <1>2
  <2>2. PICK T : t \in Seq(T)
    BY <1>10
  <2>3. e \in Nat /\ e <= Len(oy.data) /\ 0 \in Nat /\ 0 <= e /\ Len(t) = e
    BY <1>2, <1>10, <1>17 DEF n
  <2> HIDE DEF e
  <2>4. v \in Seq(S) /\ Len(v) = e - 0 /\ \A i \in 1..(e - 0) : v[i] = oy.data[0 + i]
    BY <2>1, <2>3, SubSeqIs
  <2> HIDE DEF v
  <2>5. ASSUME NEW i \in 1..e PROVE v[i] = t[i]
    <3>1. i \in 1..n /\ i \in 1..Len(t) /\ i \in 1..(e - 0) /\ 0 + i = i
      BY <1>2, <1>17, <2>3
    <3> QED
      BY <1>2, <1>11, <2>4, <3>1
  <2>6. Len(v) = e
    BY <2>3, <2>4
  <2>7. v \in Seq(S \cup T) /\ t \in Seq(S \cup T)
    BY <2>2, <2>4
  <2>8. v = t
    BY <2>3, <2>5, <2>6, <2>7, SameSeq
  <2>9. v = SubSeq(oy.data, 1, e)
    BY DEF v
  <2> QED
    BY <2>8, <2>9 DEF e
<1> QED
  BY <1>13, <1>14, <1>17, <1>18 DEF PageFound, bb, t

\* In a file nobody damaged, a page follows a page.
LEMMA WholeFound ==
  ASSUME NEW pp \in Seq(PageType), NEW f, FileOK(pp, f), WholeOK(pp, f),
         NEW oy, NEW off, SyncOK(f, oy, off), ~NeedsMore(oy),
         NEW m \in 0..Len(pp), Done(oy, off) = Reach(pp, m)
  PROVE  PageFound(oy)
<1> DEFINE d == Done(oy, off)
           n == Len(oy.data)
           j == m + 1
<1>1. DataIs(f, oy, off)
  BY DataOf DEF FileOK
<1>2. /\ n \in Nat /\ d \in Nat
      /\ \A i \in 1..n : d + i \in 1..Len(f)
  BY <1>1 DEF DataIs
<1>3. n >= 1
  BY LookIs
<1> HIDE DEF d, n
<1>6. d = Reach(pp, m) /\ Len(f) = Reach(pp, Len(pp)) /\ Len(pp) \in Nat
  BY ReachSteps DEF d, WholeOK
<1>7. m < Len(pp)
  <2>1. d + 1 \in 1..Len(f)
    BY <1>2, <1>3
  <2>2. Len(f) = Reach(pp, Len(pp)) /\ (m # Len(pp) \/ d = Len(f))
    BY <1>6
  <2>3. Reach(pp, Len(pp)) \in Nat
    BY <1>6, ReachSteps
  <2>4. m # Len(pp)
    BY <1>2, <2>1, <2>2, <2>3
  <2> QED
    BY <1>6, <2>4
<1>8. j \in 1..Len(pp) /\ j - 1 = m
  BY <1>6, <1>7
<1> HIDE DEF j
<1>9. pp[j] \in PageType
  BY <1>8
<1>10. IsAt(f, d, pp[j])
  BY <1>6, <1>8 DEF WholeOK, IsAt
<1> QED
  BY <1>9, <1>10, FoundThere DEF d

\* Where a page of a whole file is.
LEMMA WholePlace ==
  ASSUME NEW pp \in Seq(PageType), NEW f, WholeOK(pp, f), NEW oy, NEW off, NEW page,
         Found(pp, f, oy, off, page)
  PROVE  /\ Done(oy, off) = Reach(pp, page.pageno)
         /\ Done(oy, off) + Len(Items(page)) = Reach(pp, page.pageno + 1)
<1> DEFINE d == Done(oy, off)
           q == page.pageno
<1>1. /\ q \in Nat /\ q < Len(pp) /\ page = pp[q + 1]
      /\ d \in Nat /\ d + 1 \in 1..Len(f)
      /\ f[d + 1].kind = "head" /\ f[d + 1].page = page
  BY DEF Found
<1>2. d + 1 = Reach(pp, q) + 1
  BY <1>1 DEF WholeOK
<1> HIDE DEF d, q
<1>3. Len(pp) \in Nat /\ q \in 0..Len(pp) /\ q + 1 \in 1..Len(pp) /\ (q + 1) - 1 = q
  BY <1>1, ReachSteps
<1>4. Reach(pp, q) \in Nat /\ Reach(pp, q + 1) = Reach(pp, (q + 1) - 1) + Len(Items(pp[q + 1]))
  BY <1>3, ReachSteps
<1>5. d = Reach(pp, q)
  BY <1>1, <1>2, <1>4
<1> QED
  BY <1>1, <1>3, <1>4, <1>5 DEF d, q

\* Open and Seek: anywhere in the file.
LEMMA ReadingStarts ==
  ASSUME NEW w, NEW pp, NEW sc, NEW f, NEW n, Static(w, pp, sc, f, n), NEW off \in 0..Len(f)
  PROVE  Reading(w, pp, sc, f, n, SyncInit, off, StreamReset(Serial), <<>>, <<>>)
<1> DEFINE os == StreamReset(Serial)
<1>1. \E S : f \in Seq(S)
  BY DEF Static, FileOK
<1>2. SyncOK(f, SyncInit, off) /\ Done(SyncInit, off) = off
  BY <1>1, SyncStarts
<1>3. /\ os = [body |-> <<>>, lacing |-> <<>>, packet |-> 0, bos |-> FALSE, eos |-> FALSE,
               pageno |-> -1, packetno |-> 0, granulepos |-> 0, serialno |-> 1]
  <2> DEFINE si == [body |-> <<>>, lacing |-> <<>>, packet |-> 0, bos |-> FALSE, eos |-> FALSE,
                    pageno |-> 0, packetno |-> 0, granulepos |-> 0, serialno |-> 1]
  <2>1. StreamInit(1) = si
    BY DEF StreamInit
  <2>2. os = [si EXCEPT !.pageno = -1]
    BY <2>1 DEF StreamReset, Serial
  <2> QED
    BY <2>2
<1> HIDE DEF os
<1>4. /\ os.body = <<>> /\ os.lacing = <<>> /\ os.packet = 0 /\ os.pageno = -1
      /\ Len(os.lacing) = 0 /\ Len(os.body) = 0
  BY <1>3
<1>5. StreamOK(os)
  <2>1. os.body \in Seq(Byte) /\ os.lacing \in Seq(SegType)
    BY <1>4
  <2>2. os \in Stream
    BY <1>3, <2>1 DEF Stream
  <2>3. Bytes(os.lacing, 0) = 0
    BY BytesAdds
  <2> QED
    BY <1>4, <2>2, <2>3 DEF StreamOK
<1>6. <<>> \in [1..Len(os.lacing) -> Nat]
  BY <1>4
<1>7. Holds(w, pp, sc, os, <<>>, Cut(pp, os.pageno))
  BY <1>4, <1>5, <1>6 DEF Holds, ChainOK, OrderOK, LastOK, WholesOK
<1>8. ReaderOK(w, pp, sc, os, <<>>)
  <2>1. Len(pp) \in Nat
    BY DEF Static, PagesOK
  <2> QED
    BY <1>4, <1>7, <2>1 DEF ReaderOK
<1>9. GotOK(w, pp, sc, os, <<>>, <<>>)
  <2>1. Got(<<>>) = {}
    BY DEF Got
  <2>2. \E S : <<>> \in Seq(S)
    BY <1>1
  <2> QED
    BY <2>1, <2>2 DEF GotOK, GotAt, InOrder
<1>10. AheadOK(f, SyncInit, off, os)
  <2>1. ASSUME NEW a \in (off + 1)..Len(f), f[a].kind = "head"
        PROVE  f[a].page.pageno >= -1
    <3>1. Len(f) \in Nat /\ off \in Nat /\ a \in 1..Len(f)
      BY <1>1
    <3>2. ItemOK(pp, f[a])
      BY <3>1 DEF Static, FileOK
    <3>3. f[a].page.pageno \in Nat
      BY <2>1, <3>2, HeadIs
    <3> QED
      BY <3>3
  <2> QED
    BY <1>2, <1>4, <2>1 DEF AheadOK
<1>11. NoHoles(os, <<>>)
  BY <1>4 DEF NoHoles
<1> QED
  BY <1>2, <1>4, <1>8, <1>9, <1>10, <1>11 DEF Reading, os

\* Read
LEMMA ReadingReads ==
  ASSUME NEW w, NEW pp, NEW sc, NEW f, NEW n, Static(w, pp, sc, f, n),
         NEW oy, NEW off, NEW os, NEW pos, NEW g, Reading(w, pp, sc, f, n, oy, off, os, pos, g),
         NEW k \in Nat, off + k <= Len(f),
         NEW o, o = MoreOf(f, oy, off, k)
  PROVE  Reading(w, pp, sc, f, n, o, off + k, os, pos, g)
<1>1. FileOK(pp, f) /\ SyncOK(f, oy, off)
  BY DEF Static, Reading
<1>2. SyncOK(f, o, off + k) /\ Done(o, off + k) = Done(oy, off)
  BY <1>1, ReadOn
<1>3. /\ ReaderOK(w, pp, sc, os, pos) /\ GotOK(w, pp, sc, os, pos, g) /\ AheadOK(f, oy, off, os)
      /\ n = 0 => /\ NoHoles(os, g)
                  /\ os.pageno # -1 => Done(oy, off) = Reach(pp, os.pageno)
  BY DEF Reading
<1>4. AheadOK(f, o, off + k, os)
  BY <1>2, <1>3 DEF AheadOK
<1> QED
  BY <1>2, <1>3, <1>4 DEF Reading

\* Skip
LEMMA ReadingSkips ==
  ASSUME NEW w, NEW pp, NEW sc, NEW f, NEW n, Static(w, pp, sc, f, n),
         NEW oy, NEW off, NEW os, NEW pos, NEW g, Reading(w, pp, sc, f, n, oy, off, os, pos, g),
         ~NeedsMore(oy), ~PageFound(oy)
  PROVE  Reading(w, pp, sc, f, n, Skipped(oy), off, os, pos, g)
<1>1. FileOK(pp, f) /\ SyncOK(f, oy, off) /\ pp \in Seq(PageType) /\ (n = 0 => WholeOK(pp, f))
  BY DEF Static, Reading, PagesOK
<1>2. /\ SyncOK(f, Skipped(oy), off)
      /\ Done(Skipped(oy), off) > Done(oy, off)
      /\ Done(oy, off) \in Nat /\ Done(Skipped(oy), off) \in Nat
  BY <1>1, SkippedIs
<1>3. /\ ReaderOK(w, pp, sc, os, pos) /\ GotOK(w, pp, sc, os, pos, g) /\ AheadOK(f, oy, off, os)
      /\ n = 0 => /\ NoHoles(os, g)
                  /\ os.pageno # -1 => Done(oy, off) = Reach(pp, os.pageno)
  BY DEF Reading
<1>4. AheadOK(f, Skipped(oy), off, os)
  <2> DEFINE d == Done(oy, off)
             e == Done(Skipped(oy), off)
  <2>1. \A a \in (d + 1)..Len(f) : f[a].kind = "head" => f[a].page.pageno >= os.pageno
    BY <1>3 DEF AheadOK
  <2>2. d \in Nat /\ e \in Nat /\ e > d
    BY <1>2
  <2>3. Len(f) \in Nat
    BY <1>1 DEF FileOK
  <2> HIDE DEF d, e
  <2>4. \A a \in (e + 1)..Len(f) : a \in (d + 1)..Len(f)
    BY <2>2, <2>3
  <2>5. \A a \in (e + 1)..Len(f) : f[a].kind = "head" => f[a].page.pageno >= os.pageno
    BY <2>1, <2>4
  <2> QED
    BY <2>5 DEF AheadOK, e
<1>5. n = 0 => os.pageno = -1
  <2> SUFFICES ASSUME n = 0, os.pageno # -1 PROVE FALSE
    OBVIOUS
  <2>1. os.pageno \in 0..Len(pp)
    <3>1. os.pageno \in -1..Len(pp) /\ Len(pp) \in Nat
      BY <1>1, <1>3 DEF ReaderOK
    <3> QED
      BY <3>1
  <2>2. Done(oy, off) = Reach(pp, os.pageno)
    BY <1>3
  <2> QED
    BY <1>1, <2>1, <2>2, WholeFound
<1> QED
  BY <1>2, <1>3, <1>4, <1>5 DEF Reading

\* The heads after a page that was found are those of later pages.
LEMMA AheadOfFound ==
  ASSUME NEW pp \in Seq(PageType), NEW f, FileOK(pp, f), NEW oy, NEW off, NEW page,
         Found(pp, f, oy, off, page), NEW o,
         Done(o, off) = Done(oy, off) + Len(Items(page)),
         NEW os, os.pageno = page.pageno + 1
  PROVE  AheadOK(f, o, off, os)
<1> DEFINE d == Done(oy, off)
           e == Done(o, off)
<1>1. /\ page \in PageType /\ page.pageno \in Nat
      /\ d \in Nat /\ d + 1 \in 1..Len(f) /\ f[d + 1].kind = "head" /\ f[d + 1].page = page
  BY DEF Found
<1>2. Len(Items(page)) \in Nat /\ Len(Items(page)) >= 1
  <2>1. /\ Len(page.body) \in Nat
        /\ Len(Items(page)) = HeadItems + Len(page.body)
    BY <1>1, ItemsOf
  <2> QED
    BY <2>1 DEF HeadItems
<1>3. e = d + Len(Items(page))
  OBVIOUS
<1> HIDE DEF d, e
<1>4. ASSUME NEW a \in (e + 1)..Len(f), f[a].kind = "head"
      PROVE  f[a].page.pageno >= os.pageno
  <2>1. Len(f) \in Nat
    BY DEF FileOK
  <2>2. a \in 1..Len(f) /\ d + 1 < a
    BY <1>1, <1>2, <1>3, <2>1
  <2>3. f[d + 1].page.pageno < f[a].page.pageno
    BY <1>1, <1>4, <2>2 DEF FileOK
  <2>4. ItemOK(pp, f[a])
    BY <2>2 DEF FileOK
  <2>5. f[a].page.pageno \in Nat
    BY <1>4, <2>4, HeadIs
  <2> QED
    BY <1>1, <2>3, <2>5
<1> QED
  BY <1>4 DEF AheadOK, e

\* TakePage
LEMMA ReadingTakes ==
  ASSUME NEW w, NEW pp, NEW sc, NEW f, NEW n, Static(w, pp, sc, f, n),
         NEW oy, NEW off, NEW os, NEW pos, NEW g, Reading(w, pp, sc, f, n, oy, off, os, pos, g),
         PageFound(oy)
  PROVE  \E p2 :
           /\ Reading(w, pp, sc, f, n, AfterFound(oy), off, PageIn(os, oy.data[1].page), p2, g)
           /\ Joins(pp, sc, oy.data[1].page.pageno + 1, os, pos, PageIn(os, oy.data[1].page), p2)
<1> DEFINE page == oy.data[1].page
           q == page.pageno
           o == PageIn(os, page)
<1>1. /\ PacketsOK(w) /\ IsScript(w, sc) /\ PagesOK(w, pp, sc) /\ pp \in Seq(PageType)
      /\ FileOK(pp, f) /\ SyncOK(f, oy, off) /\ (n = 0 => WholeOK(pp, f))
  BY DEF Static, Reading, PagesOK
<1>2. /\ ReaderOK(w, pp, sc, os, pos) /\ GotOK(w, pp, sc, os, pos, g) /\ AheadOK(f, oy, off, os)
      /\ n = 0 => /\ NoHoles(os, g)
                  /\ os.pageno # -1 => Done(oy, off) = Reach(pp, os.pageno)
  BY DEF Reading
<1>3. /\ Found(pp, f, oy, off, page)
      /\ SyncOK(f, AfterFound(oy), off)
      /\ Done(AfterFound(oy), off) = Done(oy, off) + Len(Items(page))
  BY <1>1, PageFoundIs
<1> HIDE DEF page
<1>4. /\ page \in PageType /\ q \in Nat
      /\ q < Len(pp) /\ page = pp[q + 1]
      /\ Done(oy, off) \in Nat /\ Done(oy, off) + 1 \in 1..Len(f)
      /\ f[Done(oy, off) + 1].kind = "head" /\ f[Done(oy, off) + 1].page = page
  BY <1>3 DEF Found
<1> DEFINE j == q + 1
<1>5. j \in 1..Len(pp) /\ j - 1 = q /\ j \in Nat /\ Len(pp) \in Nat /\ page = pp[j]
  BY <1>1, <1>4
<1>6. os.pageno \in -1..Len(pp) /\ os.pageno \in Int /\ (os.pageno = -1 => os.lacing = <<>>)
  BY <1>2 DEF ReaderOK
<1>7. os.pageno <= j - 1
  <2>1. Done(oy, off) + 1 \in (Done(oy, off) + 1)..Len(f)
    BY <1>4
  <2>2. q >= os.pageno
    BY <1>2, <1>4, <2>1 DEF AheadOK
  <2> QED
    BY <1>4, <1>5, <1>6, <2>2
<1> HIDE DEF j, q
<1>14. InReader(w, pp, sc, j, os, pos, PageIn(os, pp[j]), g)
  BY <1>1, <1>2, <1>5, <1>7, PageTaken
<1>8. /\ \E p2 : /\ ReaderOK(w, pp, sc, o, p2) /\ GotOK(w, pp, sc, o, p2, g)
                  /\ Joins(pp, sc, j, os, pos, o, p2)
      /\ o.pageno = j
      /\ /\ os.pageno = j - 1 \/ os.pageno = -1
         /\ \A i \in 1..Len(os.lacing) : os.lacing[i].hole = FALSE
         => \A i \in 1..Len(o.lacing) : o.lacing[i].hole = FALSE
  BY <1>5, <1>14 DEF InReader
<1>9. PICK p2 : /\ ReaderOK(w, pp, sc, o, p2) /\ GotOK(w, pp, sc, o, p2, g)
                /\ Joins(pp, sc, j, os, pos, o, p2)
  BY <1>8
<1>10. o.pageno = j
  BY <1>8
<1> HIDE DEF o
<1>11. AheadOK(f, AfterFound(oy), off, o)
  <2>1. o.pageno = page.pageno + 1
    BY <1>10 DEF j, q
  <2> QED
    BY <1>1, <1>3, <2>1, AheadOfFound
<1>12. ASSUME n = 0 PROVE NoHoles(o, g) /\ Done(AfterFound(oy), off) = Reach(pp, o.pageno)
  <2>1. Done(oy, off) = Reach(pp, q) /\ Done(oy, off) + Len(Items(page)) = Reach(pp, q + 1)
    BY <1>1, <1>3, <1>12, WholePlace DEF q
  <2>2. os.pageno = j - 1 \/ os.pageno = -1
    <3> SUFFICES ASSUME os.pageno # j - 1, os.pageno # -1 PROVE FALSE
      OBVIOUS
    <3>1. Reach(pp, os.pageno) = Reach(pp, q)
      BY <1>2, <1>12, <2>1
    <3>2. os.pageno \in 0..Len(pp) /\ q \in 0..Len(pp) /\ os.pageno < q
      BY <1>4, <1>5, <1>6, <1>7
    <3>3. Reach(pp, os.pageno) < Reach(pp, q)
      BY <1>1, <3>2, ReachGrows
    <3>4. Reach(pp, q) \in Nat
      BY <1>1, <3>2, ReachSteps
    <3> QED
      BY <3>1, <3>3, <3>4
  <2>3. NoHoles(os, g)
    BY <1>2, <1>12
  <2>4. NoHoles(o, g)
    BY <1>8, <2>2, <2>3 DEF NoHoles, o
  <2>5. o.pageno = q + 1
    BY <1>10 DEF j
  <2> QED
    BY <1>3, <2>1, <2>4, <2>5
<1>13. Reading(w, pp, sc, f, n, AfterFound(oy), off, o, p2, g)
  BY <1>3, <1>9, <1>11, <1>12 DEF Reading
<1> QED
  BY <1>9, <1>13 DEF o, page, j, q

\* TakePacket
LEMMA ReadingGets ==
  ASSUME NEW w, NEW pp, NEW sc, NEW f, NEW n, Static(w, pp, sc, f, n),
         NEW oy, NEW off, NEW os, NEW pos, NEW g, Reading(w, pp, sc, f, n, oy, off, os, pos, g),
         PacketWaits(os)
  PROVE  \E p2 :
           /\ Reading(w, pp, sc, f, n, oy, off, AfterPacket(os), p2, Append(g, Taken(os)))
           /\ Leaves(sc, os, pos, g, AfterPacket(os), p2, Append(g, Taken(os)))
<1> DEFINE o == AfterPacket(os)
           h == Append(g, Taken(os))
<1>1. /\ PacketsOK(w) /\ IsScript(w, sc)
      /\ ReaderOK(w, pp, sc, os, pos) /\ GotOK(w, pp, sc, os, pos, g) /\ AheadOK(f, oy, off, os)
      /\ SyncOK(f, oy, off)
      /\ n = 0 => /\ NoHoles(os, g)
                  /\ os.pageno # -1 => Done(oy, off) = Reach(pp, os.pageno)
  BY DEF Static, Reading
<1>2. /\ \E p2 : /\ ReaderOK(w, pp, sc, o, p2) /\ GotOK(w, pp, sc, o, p2, h)
                  /\ Leaves(sc, os, pos, g, o, p2, h)
      /\ o.pageno = os.pageno
      /\ NoHoles(os, g) => NoHoles(o, h)
  BY <1>1, PacketTaken
<1>3. PICK p2 : /\ ReaderOK(w, pp, sc, o, p2) /\ GotOK(w, pp, sc, o, p2, h)
                /\ Leaves(sc, os, pos, g, o, p2, h)
  BY <1>2
<1> HIDE DEF o, h
<1>4. AheadOK(f, oy, off, o)
  BY <1>1, <1>2 DEF AheadOK
<1>5. Reading(w, pp, sc, f, n, oy, off, o, p2, h)
  BY <1>1, <1>2, <1>3, <1>4 DEF Reading
<1> QED
  BY <1>3, <1>5 DEF o, h

\* The packets that end on a page, segment by segment and page by page.
EndFlags(page) ==
  [i \in 1..Len(page.segments) |-> [val |-> IF page.segments[i] < Full THEN 1 ELSE 0]]
EndCounts == [k \in 1..Len(pages) |-> [val |-> PagePackets(pages[k])]]

LEMMA BytesIs ==
  ASSUME NEW l, NEW n \in Nat, NEW g, IsSum(g, l, n)
  PROVE  g[n] = Bytes(l, n)
<1> DEFINE h == CHOOSE x : IsSum(x, l, n)
<1>1. IsSum(h, l, n)
  BY SumExists
<1>2. Bytes(l, n) = h[n]
  BY DEF Bytes, IsSum
<1> HIDE DEF h
<1>3. g = h
  BY <1>1, SumIsUnique
<1> QED
  BY <1>2, <1>3

LEMMA PagePacketsIs ==
  ASSUME NEW page, Len(page.segments) \in Nat
  PROVE  PagePackets(page) = Bytes(EndFlags(page), Len(page.segments))
<1> DEFINE n == Len(page.segments)
           P(g) == g = [i \in 0..n |->
                     IF i = 0 THEN 0
                     ELSE g[i - 1] + (IF page.segments[i] < Full THEN 1 ELSE 0)]
           h == CHOOSE g : P(g)
<1>1. PagePackets(page) = h[n]
  BY DEF PagePackets
<1>2. \A i \in 1..n : EndFlags(page)[i].val = IF page.segments[i] < Full THEN 1 ELSE 0
  BY DEF EndFlags
<1>3. ASSUME NEW g PROVE P(g) <=> IsSum(g, EndFlags(page), n)
  <2>1. \A i \in 0..n : (IF i = 0 THEN 0 ELSE g[i - 1] + EndFlags(page)[i].val)
                        = (IF i = 0 THEN 0
                           ELSE g[i - 1] + (IF page.segments[i] < Full THEN 1 ELSE 0))
    BY <1>2
  <2>2. [i \in 0..n |-> IF i = 0 THEN 0 ELSE g[i - 1] + EndFlags(page)[i].val]
        = [i \in 0..n |-> IF i = 0 THEN 0
                          ELSE g[i - 1] + (IF page.segments[i] < Full THEN 1 ELSE 0)]
    BY <2>1
  <2> QED
    BY <2>2 DEF IsSum
<1>4. PICK g : IsSum(g, EndFlags(page), n)
  BY SumExists
<1>5. P(g)
  BY <1>3, <1>4
<1> HIDE DEF P
<1>6. P(h)
  BY <1>5
<1>7. IsSum(h, EndFlags(page), n)
  BY <1>3, <1>6
<1> HIDE DEF h
<1> QED
  BY <1>1, <1>7, BytesIs

LEMMA CompletedIs ==
  ASSUME NEW j \in 0..Len(pages), Len(pages) \in Nat
  PROVE  Completed(j) = Bytes(EndCounts, j)
<1> DEFINE P(g) == g = [k \in 0..j |-> IF k = 0 THEN 0
                                       ELSE g[k - 1] + PagePackets(pages[k])]
           h == CHOOSE g : P(g)
<1>1. Completed(j) = h[j]
  BY DEF Completed
<1>2. \A k \in 1..j : EndCounts[k].val = PagePackets(pages[k])
  BY DEF EndCounts
<1>3. ASSUME NEW g PROVE P(g) <=> IsSum(g, EndCounts, j)
  <2>1. \A k \in 0..j : (IF k = 0 THEN 0 ELSE g[k - 1] + EndCounts[k].val)
                        = (IF k = 0 THEN 0 ELSE g[k - 1] + PagePackets(pages[k]))
    BY <1>2
  <2>2. [k \in 0..j |-> IF k = 0 THEN 0 ELSE g[k - 1] + EndCounts[k].val]
        = [k \in 0..j |-> IF k = 0 THEN 0 ELSE g[k - 1] + PagePackets(pages[k])]
    BY <2>1
  <2> QED
    BY <2>2 DEF IsSum
<1>0. j \in Nat
  OBVIOUS
<1>4. PICK g : IsSum(g, EndCounts, j)
  BY <1>0, SumExists
<1>5. P(g)
  BY <1>3, <1>4
<1> HIDE DEF P
<1>6. P(h)
  BY <1>5
<1>7. IsSum(h, EndCounts, j)
  BY <1>3, <1>6
<1> HIDE DEF h
<1> QED
  BY <1>0, <1>1, <1>7, BytesIs

\* ogg_page_packets counts the marks that end a packet.
LEMMA PacketsOfPage ==
  ASSUME NEW w, NEW pp, NEW sc, PacketsOK(w), IsScript(w, sc), PagesOK(w, pp, sc),
         NEW j \in 1..Len(pp)
  PROVE  Ended(w, sc, Cut(pp, j)) = Ended(w, sc, Cut(pp, j - 1)) + PagePackets(pp[j])
<1> DEFINE c == Cut(pp, j - 1)
           n == Len(pp[j].segments)
           F == EndFlags(pp[j])
           E(t) == Ended(w, sc, t)
<1>1. /\ c \in Nat /\ n \in Nat /\ n > 0 /\ Len(sc) \in Nat
      /\ Cut(pp, j) = c + n /\ c + n <= Len(sc)
      /\ \A i \in 1..n : /\ c + i \in 1..Len(sc)
                         /\ pp[j].segments[i] < Full <=> Ends(w, sc[c + i])
  BY PagePlaces
<1>2. PagePackets(pp[j]) = Bytes(F, n)
  BY <1>1, PagePacketsIs
<1>3. \A i \in 1..n : F[i].val = IF pp[j].segments[i] < Full THEN 1 ELSE 0
  BY DEF EndFlags
<1> HIDE DEF c, n, F
<1> HIDE DEF E
<1>8. ASSUME NEW q \in 1..Len(sc)
      PROVE  /\ E(q - 1) \in Nat
             /\ E(q) = IF Ends(w, sc[q]) THEN E(q - 1) + 1 ELSE E(q - 1)
  <2>1. /\ E(q - 1) \in Nat /\ E(q) \in Nat
        /\ Ends(w, sc[q]) => E(q) = E(q - 1) + 1
        /\ ~Ends(w, sc[q]) => E(q) = E(q - 1)
    BY EndedStep DEF E
  <2> QED
    BY <2>1
<1>4. ASSUME NEW i \in 1..n
      PROVE  E(c + (i - 1)) \in Nat /\ E(c + i) = E(c + (i - 1)) + F[i].val
  <2>1. c + i \in 1..Len(sc) /\ (pp[j].segments[i] < Full <=> Ends(w, sc[c + i]))
    BY <1>1
  <2>3. (c + i) - 1 = c + (i - 1)
    BY <1>1
  <2>2. /\ E((c + i) - 1) \in Nat
        /\ E(c + i) = IF Ends(w, sc[c + i]) THEN E((c + i) - 1) + 1 ELSE E((c + i) - 1)
    BY <1>8, <2>1
  <2>4. E((c + i) - 1) = E(c + (i - 1))
    BY <2>3
  <2>5. F[i].val = IF Ends(w, sc[c + i]) THEN 1 ELSE 0
    BY <1>3, <2>1
  <2>6. E(c + i) = E((c + i) - 1) + F[i].val
    BY <2>2, <2>5
  <2> QED
    BY <2>2, <2>4, <2>6
<1> DEFINE T == {i \in 0..n : E(c + i) # E(c) + Bytes(F, i)}
<1>5. Bytes(F, 0) = 0 /\ \A i \in Nat : i > 0 => Bytes(F, i) = Bytes(F, i - 1) + F[i].val
  BY BytesAdds, BytesStep
<1>6. T = {}
  <2> SUFFICES ASSUME T # {} PROVE FALSE
    OBVIOUS
  <2>1. T \subseteq Nat
    BY <1>1
  <2> HIDE DEF T
  <2>2. PICK i \in T : \A k \in T : i <= k
    BY <2>1, LeastNat
  <2>3. i \in 0..n /\ E(c + i) # E(c) + Bytes(F, i)
    BY <2>2 DEF T
  <2>4. i # 0
    <3>1. ASSUME i = 0 PROVE FALSE
      <4>1. c + i = c
        BY <1>1, <3>1
      <4>2. E(c) \in Nat
        <5>1. 1 \in 1..n /\ c + (1 - 1) = c
          BY <1>1
        <5> QED
          BY <1>4, <5>1
      <4> QED
        BY <1>5, <2>3, <3>1, <4>1, <4>2
    <3> QED
      BY <3>1
  <2>5. i \in 1..n /\ i \in Nat /\ i > 0 /\ i - 1 \in 0..n /\ (c + i) - 1 = c + (i - 1)
    BY <1>1, <2>3, <2>4
  <2>6. i - 1 \notin T
    BY <2>2, <2>5
  <2>7. E(c + (i - 1)) = E(c) + Bytes(F, i - 1)
    BY <2>5, <2>6 DEF T
  <2>8. /\ E(c + i) = E(c + (i - 1)) + F[i].val
        /\ Bytes(F, i) = Bytes(F, i - 1) + F[i].val
    BY <1>4, <1>5, <2>5
  <2>9. F[i].val \in Nat /\ E(c) \in Int /\ Bytes(F, i - 1) \in Int
    <3>1. \A k \in 1..n : F[k].val \in Nat
      BY <1>3
    <3>2. Bytes(F, i - 1) \in Nat
      <4>1. \A k \in 0..n : Bytes(F, k) \in Nat
        BY <1>1, <3>1, BytesGrow
      <4> QED
        BY <2>5, <4>1
    <3>3. E(c) \in Nat
      <4>1. 1 \in 1..n /\ c + (1 - 1) = c
        BY <1>1
      <4> QED
        BY <1>4, <4>1
    <3> QED
      BY <2>5, <3>1, <3>2, <3>3
  <2> QED
    BY <2>3, <2>5, <2>7, <2>8, <2>9
<1>7. E(c + n) = E(c) + Bytes(F, n)
  <2>1. n \in 0..n
    BY <1>1
  <2> QED
    BY <1>6, <2>1
<1> QED
  BY <1>1, <1>2, <1>7 DEF E, c, n

\* Whether packets are done is what the script says.
LEMMA CompletedEnds ==
  ASSUME NEW sc, PacketsOK(written), IsScript(written, sc), PagesOK(written, pages, sc)
  PROVE  \A j \in 0..Len(pages) : Completed(j) = Ended(written, sc, Cut(pages, j))
<1> DEFINE E(j) == Ended(written, sc, Cut(pages, j))
           T == {j \in 0..Len(pages) : Completed(j) # E(j)}
<1>1. pages \in Seq(PageType) /\ Len(pages) \in Nat
  BY DEF PagesOK
<1>2. E(0) = 0
  <2>1. Cut(pages, 0) = 0
    BY <1>1, CutSteps
  <2> QED
    BY <2>1 DEF Ended
<1>3. \A j \in 1..Len(pages) : E(j) = E(j - 1) + PagePackets(pages[j])
  BY PacketsOfPage
<1>4. \A j \in 1..Len(pages) : EndCounts[j].val = PagePackets(pages[j])
  BY DEF EndCounts
<1>5. /\ Bytes(EndCounts, 0) = 0
      /\ \A j \in Nat : j > 0 => Bytes(EndCounts, j) = Bytes(EndCounts, j - 1) + EndCounts[j].val
  BY BytesAdds, BytesStep
<1>6. \A j \in 0..Len(pages) : Completed(j) = Bytes(EndCounts, j)
  BY <1>1, CompletedIs
<1> HIDE DEF E
<1>7. SUFFICES ASSUME T # {} PROVE FALSE
  BY <1>7 DEF E
<1>8. T \subseteq Nat
  BY <1>1
<1> HIDE DEF T
<1>9. PICK j \in T : \A k \in T : j <= k
  BY <1>7, <1>8, LeastNat
<1>10. j \in 0..Len(pages) /\ Completed(j) # E(j)
  BY <1>9 DEF T
<1>11. j # 0
  <2>1. Completed(0) = 0
    BY <1>1, <1>5, <1>6
  <2> QED
    BY <1>2, <1>10, <2>1
<1>12. j \in 1..Len(pages) /\ j \in Nat /\ j > 0 /\ j - 1 \in 0..Len(pages) /\ ~(j <= j - 1)
  BY <1>1, <1>10, <1>11
<1>13. Completed(j - 1) = E(j - 1)
  <2>1. j - 1 \notin T
    BY <1>9, <1>12
  <2> QED
    BY <1>12, <2>1 DEF T
<1>14. Completed(j) = Completed(j - 1) + PagePackets(pages[j])
  <2>1. Completed(j) = Bytes(EndCounts, j) /\ Completed(j - 1) = Bytes(EndCounts, j - 1)
    BY <1>6, <1>10, <1>12
  <2>2. Bytes(EndCounts, j) = Bytes(EndCounts, j - 1) + PagePackets(pages[j])
    BY <1>4, <1>5, <1>12
  <2> QED
    BY <2>1, <2>2
<1>15. Completed(j) = E(j)
  BY <1>3, <1>12, <1>13, <1>14
<1> QED
  BY <1>10, <1>15

\* The page a packet ends on.
LEMMA EndPageIs ==
  ASSUME NEW sc, PacketsOK(written), IsScript(written, sc), PagesOK(written, pages, sc),
         NEW k \in Nat, NEW j \in 1..Len(pages), EndsOn(written, pages, sc, k, j)
  PROVE  EndPage(k) = j
<1> DEFINE E(t) == Ended(written, sc, t)
           C(i) == Cut(pages, i)
<1>1. pages \in Seq(PageType) /\ Len(pages) \in Nat
  BY DEF PagesOK
<1>2. /\ C(0) = 0
      /\ \A i \in 0..Len(pages) : /\ C(i) \in Nat
                                  /\ \A h \in 0..i : C(h) <= C(i)
  BY <1>1, CutSteps
<1>3. PICK r \in (C(j - 1) + 1)..C(j) : sc[r] = Mark(k, Segs(written, k))
  BY DEF EndsOn
<1>4. \A i \in 0..Len(pages) : C(i) <= Len(sc)
  <2> TAKE i \in 0..Len(pages)
  <2>1. CASE i = 0
    <3>1. Len(sc) \in Nat
      BY ScriptMarks
    <3> QED
      BY <1>2, <2>1, <3>1
  <2>2. CASE i # 0
    <3>1. i \in 1..Len(pages)
      BY <2>2
    <3> QED
      BY <3>1 DEF PagesOK, PageOK
  <2> QED
    BY <2>1, <2>2
<1>5. Len(sc) \in Nat /\ j \in 0..Len(pages) /\ j - 1 \in 0..Len(pages)
  BY <1>1, ScriptMarks
<1> HIDE DEF C
<1>6. r \in 1..Len(sc) /\ r \in Nat /\ r - 1 \in Nat /\ C(j - 1) <= r - 1 /\ r <= C(j)
      /\ r \in 0..C(j) /\ C(j) \in 0..Len(sc) /\ C(j - 1) \in 0..(r - 1) /\ r - 1 \in 0..Len(sc)
  BY <1>2, <1>3, <1>4, <1>5
<1>7. E(r) = k /\ E(r - 1) = k - 1
  <2>1. sc[r].p = k /\ sc[r].s = Segs(written, k)
    BY <1>3, MarkFields
  <2>2. Ends(written, sc[r])
    BY <2>1 DEF Ends
  <2>3. /\ E(r - 1) = sc[r].p - 1 /\ E(r) \in Nat
        /\ E(r) = E(r - 1) + 1
    BY <1>6, <2>2, EndedStep
  <2> QED
    BY <2>1, <2>3
<1>8. \A t \in 0..Len(sc) : /\ E(t) \in Nat
                            /\ \A q \in 0..t : E(q) <= E(t)
  BY EndedGrows
<1>9. E(C(j)) >= k /\ E(C(j - 1)) < k
  <2>1. E(r) <= E(C(j)) /\ E(C(j)) \in Nat
    BY <1>6, <1>8
  <2>2. E(C(j - 1)) <= E(r - 1) /\ E(C(j - 1)) \in Nat
    <3>1. C(j - 1) \in 0..Len(sc)
      BY <1>5, <1>6
    <3> QED
      BY <1>6, <1>8, <3>1
  <2> QED
    BY <1>7, <2>1, <2>2
<1>10. \A i \in 0..Len(pages) : Completed(i) = E(C(i))
  BY CompletedEnds DEF C
<1> DEFINE Is(i) == Completed(i) >= k /\ Completed(i - 1) < k
<1>11. Is(j)
  BY <1>5, <1>9, <1>10
<1> HIDE DEF E
<1>12. ASSUME NEW i \in 1..Len(pages), Is(i) PROVE i = j
  <2>0. i \in 0..Len(pages) /\ i - 1 \in 0..Len(pages) /\ i \in Nat /\ j \in Nat
    BY <1>1
  <2>1. E(C(i)) >= k /\ E(C(i - 1)) < k
    BY <1>10, <1>12, <2>0
  <2>2. ASSUME NEW a \in 0..Len(pages), NEW b \in 0..Len(pages), a <= b
        PROVE  E(C(a)) \in Nat /\ E(C(b)) \in Nat /\ E(C(a)) <= E(C(b))
    <3>1. a \in 0..b
      BY <2>2
    <3>2. C(a) \in Nat /\ C(b) \in Nat /\ C(a) <= C(b) /\ C(b) <= Len(sc)
      BY <1>2, <1>4, <3>1 DEF C
    <3>3. C(b) \in 0..Len(sc) /\ C(a) \in 0..Len(sc) /\ C(a) \in 0..C(b)
      BY <1>5, <3>2
    <3> QED
      BY <1>8, <3>3
  <2>3. ~(i <= j - 1)
    <3> SUFFICES ASSUME i <= j - 1 PROVE FALSE
      OBVIOUS
    <3>1. E(C(i)) \in Nat /\ E(C(j - 1)) \in Nat /\ E(C(i)) <= E(C(j - 1))
      BY <1>5, <2>0, <2>2
    <3> QED
      BY <1>9, <2>1, <3>1
  <2>4. ~(j <= i - 1)
    <3> SUFFICES ASSUME j <= i - 1 PROVE FALSE
      OBVIOUS
    <3>1. E(C(j)) \in Nat /\ E(C(i - 1)) \in Nat /\ E(C(j)) <= E(C(i - 1))
      BY <1>5, <2>0, <2>2
    <3> QED
      BY <1>9, <2>1, <3>1
  <2> QED
    BY <2>0, <2>3, <2>4
<1>13. EndPage(k) = CHOOSE i \in 1..Len(pages) : Is(i)
  BY DEF EndPage
<1> HIDE DEF Is
<1> QED
  BY <1>11, <1>12, <1>13

-----------------------------------------------------------------------------
(* What damage leaves: the pages taken and the packets they complete.      *)

\* The marks before one of the same packet.
LEMMA ScriptBack ==
  ASSUME NEW w, NEW sc, PacketsOK(w), IsScript(w, sc), NEW r \in 1..Len(sc),
         NEW t \in Nat, t < sc[r].s
  PROVE  r - t \in 1..Len(sc) /\ sc[r - t] = Mark(sc[r].p, sc[r].s - t)
<1> DEFINE p == sc[r].p
           s == sc[r].s
           Good(u) == r - u \in 1..Len(sc) /\ sc[r - u] = Mark(p, s - u)
           T == {u \in Nat : u < s /\ ~Good(u)}
<1>1. SUFFICES ASSUME T # {} PROVE FALSE
  BY <1>1
<1>2. /\ Len(sc) \in Nat
      /\ \A q \in 1..Len(sc) : IsMark(w, sc[q]) /\ sc[q].p \in Nat /\ sc[q].s \in Nat
      /\ \A q \in 1..(Len(sc) - 1) : sc[q + 1] = NextMark(w, sc[q])
      /\ Len(sc) > 0 => sc[1] = Mark(1, 1)
  BY ScriptMarks
<1>3. p \in Nat /\ s \in Nat /\ sc[r] = Mark(p, s)
  BY <1>2 DEF IsMark
<1> HIDE DEF p, s
<1>4. PICK u \in T : \A v \in T : u <= v
  <2>1. T \subseteq Nat
    OBVIOUS
  <2> HIDE DEF T
  <2> QED
    BY <1>1, <2>1, LeastNat
<1>5. Good(0)
  <2>1. r - 0 = r /\ s - 0 = s
    BY <1>3
  <2> QED
    BY <1>3, <2>1
<1>6. u \in Nat /\ u > 0 /\ u < s /\ ~Good(u)
  BY <1>4, <1>5
<1>7. Good(u - 1)
  <2>1. u - 1 \in Nat /\ u - 1 < s /\ ~(u <= u - 1)
    BY <1>3, <1>6
  <2>2. u - 1 \notin T
    BY <1>4, <2>1
  <2> HIDE DEF Good
  <2> QED
    BY <2>1, <2>2
<1> DEFINE q == r - (u - 1)
<1>8. /\ q \in 1..Len(sc) /\ sc[q].p = p /\ sc[q].s = s - (u - 1) /\ s - (u - 1) > 1
      /\ (s - (u - 1)) - 1 = s - u /\ q - 1 = r - u
  BY <1>3, <1>6, <1>7, MarkFields
<1> HIDE DEF q
<1>9. q # 1
  BY <1>2, <1>8, MarkFields
<1>10. q - 1 \in 1..(Len(sc) - 1) /\ q - 1 \in 1..Len(sc) /\ (q - 1) + 1 = q
  BY <1>2, <1>8, <1>9
<1>11. sc[q] = NextMark(w, sc[q - 1])
  BY <1>2, <1>10
<1>12. ~Ends(w, sc[q - 1])
  <2> SUFFICES ASSUME Ends(w, sc[q - 1]) PROVE FALSE
    OBVIOUS
  <2>1. sc[q].s = 1
    BY <1>11, MarkFields DEF NextMark
  <2> QED
    BY <1>8, <2>1
<1>13. sc[q].p = sc[q - 1].p /\ sc[q].s = sc[q - 1].s + 1
  BY <1>11, <1>12, MarkFields DEF NextMark
<1>14. sc[q - 1].p = p /\ sc[q - 1].s = s - u
  BY <1>2, <1>8, <1>10, <1>13
<1>15. sc[q - 1] = Mark(p, s - u)
  BY <1>2, <1>10, <1>14 DEF IsMark
<1> QED
  BY <1>6, <1>8, <1>10, <1>15

\* A first segment has one place.
LEMMA FirstPlace ==
  ASSUME NEW w, NEW sc, PacketsOK(w), IsScript(w, sc), NEW k,
         NEW r \in 1..Len(sc), sc[r] = Mark(k, 1), NEW t \in 1..Len(sc), sc[t] = Mark(k, 1)
  PROVE  r = t
<1>1. /\ Len(sc) \in Nat
      /\ \A q \in 1..Len(sc) : sc[q].p \in Nat /\ sc[q].s \in Nat
      /\ \A q \in 1..(Len(sc) - 1) : sc[q + 1] = NextMark(w, sc[q])
  BY ScriptMarks
<1>2. ASSUME NEW a \in 1..Len(sc), NEW b \in 1..Len(sc), sc[a] = Mark(k, 1), sc[b] = Mark(k, 1), a < b
      PROVE  FALSE
  <2>1. b - 1 \in 1..(Len(sc) - 1) /\ b - 1 \in 1..Len(sc) /\ (b - 1) + 1 = b /\ a <= b - 1
    BY <1>1, <1>2
  <2>2. sc[b] = NextMark(w, sc[b - 1]) /\ sc[b - 1].s \in Nat /\ sc[b - 1].p \in Nat
    BY <1>1, <2>1
  <2>3. sc[a].p = k /\ sc[b].p = k /\ sc[b].s = 1
    BY <1>2, MarkFields
  <2>4. IsMark(w, sc[b - 1])
    BY <2>1, ScriptMarks
  <2>5. sc[b - 1].s > 0
    BY <2>2, <2>4, SegsOf DEF IsMark
  <2>6. Ends(w, sc[b - 1])
    <3> SUFFICES ASSUME ~Ends(w, sc[b - 1]) PROVE FALSE
      OBVIOUS
    <3>1. sc[b].s = sc[b - 1].s + 1
      BY <2>2, MarkFields DEF NextMark
    <3> QED
      BY <2>2, <2>3, <2>5, <3>1
  <2>7. sc[b].p = sc[b - 1].p + 1
    BY <2>2, <2>6, MarkFields DEF NextMark
  <2>8. sc[a].p <= sc[b - 1].p
    <3>1. CASE a = b - 1
      BY <2>2, <3>1
    <3>2. CASE a # b - 1
      <4>1. a < b - 1
        BY <2>1, <3>2
      <4> QED
        BY <2>1, <4>1, EndsInOrder
    <3> QED
      BY <3>1, <3>2
  <2> QED
    BY <2>2, <2>3, <2>7, <2>8
<1>3. r < t \/ r = t \/ t < r
  OBVIOUS
<1> QED
  BY <1>2, <1>3

\* Every packet put in ends somewhere.
LEMMA EndsExist ==
  ASSUME NEW w, NEW sc, PacketsOK(w), IsScript(w, sc), NEW k \in 1..Len(w)
  PROVE  \E r \in 1..Len(sc) : sc[r] = Mark(k, Segs(w, k))
<1> DEFINE E(t) == Ended(w, sc, t)
           T == {t \in 0..Len(sc) : E(t) >= k}
<1>1. /\ Len(sc) \in Nat /\ Len(sc) > 0 /\ Len(w) \in Nat
      /\ sc[Len(sc)] = Mark(Len(w), Segs(w, Len(w)))
      /\ \A q \in 1..Len(sc) : IsMark(w, sc[q]) /\ sc[q].p \in Nat
  BY ScriptMarks, SegsOf
<1>2. E(Len(sc)) = Len(w)
  <2>1. Ends(w, sc[Len(sc)]) /\ sc[Len(sc)].p = Len(w)
    BY <1>1, MarkFields DEF Ends
  <2> QED
    BY <1>1, <2>1 DEF Ended
<1>3. Len(sc) \in T /\ T \subseteq Nat
  BY <1>1, <1>2
<1>4. E(0) = 0
  BY DEF Ended
<1>5. \A t \in 0..Len(sc) : E(t) \in Nat
  BY EndedGrows
<1> HIDE DEF E
<1>6. PICK t \in T : \A u \in T : t <= u
  <2> HIDE DEF T
  <2> QED
    BY <1>3, LeastNat
<1>7. t \in 1..Len(sc) /\ t - 1 \in 0..Len(sc) /\ E(t) >= k
  BY <1>1, <1>4, <1>6
<1>8. E(t - 1) < k
  <2>1. t - 1 \notin T
    BY <1>6, <1>7
  <2> QED
    BY <1>5, <1>7, <2>1
<1>9. /\ Ends(w, sc[t]) => E(t) = E(t - 1) + 1
      /\ ~Ends(w, sc[t]) => E(t) = E(t - 1)
      /\ E(t - 1) = sc[t].p - 1
  BY <1>7, EndedStep DEF E
<1>10. Ends(w, sc[t]) /\ sc[t].p = k
  <2>1. E(t) \in Nat /\ E(t - 1) \in Nat /\ sc[t].p \in Nat
    BY <1>1, <1>5, <1>7
  <2> QED
    BY <1>7, <1>8, <1>9, <2>1
<1>11. sc[t] = Mark(k, Segs(w, k))
  BY <1>1, <1>7, <1>10 DEF IsMark, Ends
<1> QED
  BY <1>7, <1>11

\* Every place up to the last page is on a page, and later places on later ones.
LEMMA PageOfPlace ==
  ASSUME NEW pp \in Seq(PageType), NEW r \in 1..Cut(pp, Len(pp))
  PROVE  \E j \in 1..Len(pp) : OnPage(pp, j, r)
<1> DEFINE l == Widths(pp)
           n == Len(pp)
<1>1. /\ n \in Nat
      /\ \A j \in 1..n : /\ Cut(pp, j) = Cut(pp, j - 1) + Len(pp[j].segments)
                         /\ Len(pp[j].segments) \in Nat
      /\ \A k \in 0..n : Cut(pp, k) \in Nat
  BY CutSteps
<1>2. \A j \in 1..n : l[j].val = Len(pp[j].segments)
  BY DEF Widths
<1>3. r \in 1..Bytes(l, n) /\ \A j \in 1..n : l[j].val \in Nat
  BY <1>1, <1>2 DEF Cut
<1> HIDE DEF l, n
<1>4. PICK j \in 1..n : \E t \in 1..l[j].val : r = Bytes(l, j - 1) + t
  BY <1>1, <1>3, ByteIn
<1>5. PICK t \in 1..l[j].val : r = Bytes(l, j - 1) + t
  BY <1>4
<1>6. Bytes(l, j - 1) = Cut(pp, j - 1)
  BY DEF Cut, l
<1>7. j - 1 \in 0..n /\ Cut(pp, j - 1) \in Nat
  BY <1>1
<1>8. OnPage(pp, j, r)
  BY <1>1, <1>2, <1>3, <1>5, <1>6, <1>7 DEF OnPage
<1> QED
  BY <1>8 DEF n

LEMMA PagesInOrder ==
  ASSUME NEW pp \in Seq(PageType), NEW a \in 1..Len(pp), NEW b \in 1..Len(pp),
         NEW x \in Int, OnPage(pp, a, x), NEW y \in Int, OnPage(pp, b, y), x <= y
  PROVE  a <= b
<1>1. SUFFICES ASSUME b < a PROVE FALSE
  OBVIOUS
<1>2. b \in 0..(a - 1) /\ a - 1 \in 0..Len(pp)
  BY <1>1
<1>3. Cut(pp, b) <= Cut(pp, a - 1) /\ Cut(pp, a - 1) \in Nat /\ Cut(pp, b) \in Nat
  BY <1>2, CutSteps
<1>4. Cut(pp, a - 1) + 1 <= x /\ y <= Cut(pp, b)
  BY DEF OnPage
<1> QED
  BY <1>3, <1>4

-----------------------------------------------------------------------------
(* The steps of a reader.                                                  *)

LEMMA CameStarts ==
  ASSUME NEW w, NEW pp, NEW sc, PacketsOK(w), IsScript(w, sc), NEW os, NEW pos, NEW g
  PROVE  Came(w, pp, sc, os, pos, g, {})
<1>1. ASSUME NEW r \in 1..Len(sc) PROVE ~Whole(pp, sc, {}, r)
  <2>1. IsMark(w, sc[r]) /\ sc[r].s \in Nat /\ Len(sc) \in Nat
    BY ScriptMarks
  <2>2. sc[r].s > 0
    BY <2>1, SegsOf DEF IsMark
  <2>3. r \in First(sc, r)..r
    BY <2>1, <2>2 DEF First
  <2> QED
    BY <2>3 DEF Whole, OnPages
<1> QED
  BY <1>1 DEF Came

\* A segment held that ends a packet is one of those packetout may return.
LEMMA HeldEnds ==
  ASSUME NEW w, NEW pp, NEW sc, PacketsOK(w), IsScript(w, sc),
         NEW os, NEW pos, ReaderOK(w, pp, sc, os, pos), NEW i \in 1..Len(os.lacing),
         os.lacing[i].hole = FALSE
  PROVE  /\ Len(os.lacing) \in Nat /\ os.packet \in 0..Len(os.lacing)
         /\ pos[i] \in 1..Len(sc) /\ pos[i] <= Cut(pp, os.pageno)
         /\ Ends(w, sc[pos[i]]) => i \in 1..os.packet
         /\ ~Ends(w, sc[pos[i]]) => os.lacing[i].val = Full
<1>1. StreamOK(os) /\ WholesOK(os) /\ HeldOK(w, pp, sc, os, pos, i)
  BY DEF ReaderOK, Holds
<1>2. /\ Len(os.lacing) \in Nat /\ os.packet \in 0..Len(os.lacing)
  BY <1>1, StreamLaid DEF StreamOK
<1>3. /\ pos[i] \in 1..Len(sc) /\ pos[i] <= Cut(pp, os.pageno)
      /\ os.lacing[i].val = SegVal(w, sc[pos[i]])
  BY <1>1 DEF HeldOK, Carries
<1>4. IsMark(w, sc[pos[i]])
  BY <1>3, ScriptMarks
<1>5. /\ Ends(w, sc[pos[i]]) => os.lacing[i].val < Full
      /\ ~Ends(w, sc[pos[i]]) => os.lacing[i].val = Full
  BY <1>3, <1>4, SegValOf
<1>6. ASSUME Ends(w, sc[pos[i]]) PROVE i \in 1..os.packet
  <2>1. ~(i \in (os.packet + 1)..Len(os.lacing))
    <3> SUFFICES ASSUME i \in (os.packet + 1)..Len(os.lacing) PROVE FALSE
      OBVIOUS
    <3>1. os.lacing[i].val = Full
      BY <1>1 DEF WholesOK
    <3> QED
      BY <1>5, <1>6, <3>1, FramingAssumption
  <2> QED
    BY <1>2, <2>1
<1> QED
  BY <1>2, <1>3, <1>5, <1>6

\* A page whose segments go on with a packet of the page before it finds that
\* packet's beginning held, if all of it was taken.
LEMMA NoOrphans ==
  ASSUME NEW w, NEW pp, NEW sc, PacketsOK(w), IsScript(w, sc), PagesOK(w, pp, sc),
         NEW j \in 1..Len(pp), NEW os, NEW pos, NEW g,
         ReaderOK(w, pp, sc, os, pos), GotOK(w, pp, sc, os, pos, g),
         NEW tk, Came(w, pp, sc, os, pos, g, tk), os.pageno = j - 1,
         NEW r \in 1..Len(sc), NEW c, c = Cut(pp, j - 1), c \in 1..(r - 1),
         sc[c].p = sc[r].p, Whole(pp, sc, tk, c)
  PROVE  ~(os.lacing = <<>> \/ os.lacing[Len(os.lacing)].hole = TRUE)
<1>1. Len(sc) \in Nat /\ c \in 1..Len(sc) /\ c < r /\ c \in Nat
  BY ScriptMarks
<1>2. ~Ends(w, sc[c])
  <2> SUFFICES ASSUME Ends(w, sc[c]) PROVE FALSE
    OBVIOUS
  <2>1. sc[c].p < sc[r].p
    BY <1>1, EndsInOrder
  <2>2. sc[r].p \in Nat
    BY ScriptMarks
  <2> QED
    BY <2>1, <2>2
<1>3. ~GotIt(g, sc[c].p)
  <2> SUFFICES ASSUME NEW i \in Got(g), Id(g[i].p) = sc[c].p PROVE FALSE
    BY DEF GotIt
  <2>1. EndedBefore(w, sc, os, pos, g[i].p, Cut(pp, os.pageno))
    BY DEF GotOK, GotAt
  <2>2. PICK e \in 1..Len(sc) : EndOf(w, sc, g[i].p, e) /\ e <= c
    BY <2>1 DEF EndedBefore
  <2>3. sc[e].p = Id(g[i].p) /\ sc[e].s = Segs(w, Id(g[i].p))
    BY <2>2, MarkFields DEF EndOf
  <2>4. Ends(w, sc[e])
    BY <2>3 DEF Ends
  <2>5. e < r
    BY <1>1, <2>2
  <2>6. sc[e].p < sc[r].p /\ sc[r].p \in Nat
    BY <2>4, <2>5, EndsInOrder, ScriptMarks
  <2> QED
    BY <2>3, <2>6
<1>4. HeldAt(os, pos, c)
  BY <1>1, <1>3 DEF Came
<1>5. PICK i \in 1..Len(os.lacing) : os.lacing[i].hole = FALSE /\ pos[i] = c
  BY <1>4 DEF HeldAt
<1>6. Len(os.lacing) \in Nat /\ os.lacing[i].val = Full
  BY <1>2, <1>5, HeldEnds
<1>11. os.lacing # <<>>
  <2> SUFFICES ASSUME os.lacing = <<>> PROVE FALSE
    OBVIOUS
  <2>1. Len(os.lacing) = 0
    OBVIOUS
  <2> QED
    BY <1>5, <2>1
<1> SUFFICES ASSUME os.lacing[Len(os.lacing)].hole = TRUE PROVE FALSE
  BY <1>11
<1>7. i \in 1..(Len(os.lacing) - 1) /\ i + 1 \in 1..Len(os.lacing)
  BY <1>5, <1>6
<1>8. Linked(sc, os, pos, i)
  BY <1>7 DEF ReaderOK, Holds, ChainOK
<1>9. os.lacing[i + 1].hole = FALSE /\ pos[i + 1] = c + 1
  BY <1>5, <1>6, <1>8 DEF Linked
<1>10. pos[i + 1] <= c
  <2>1. pos[i + 1] <= Cut(pp, os.pageno)
    BY <1>7, <1>9, HeldEnds
  <2> QED
    BY <2>1
<1> QED
  BY <1>1, <1>9, <1>10

\* TakePage
LEMMA CameTakes ==
  ASSUME NEW w, NEW pp, NEW sc, PacketsOK(w), IsScript(w, sc), PagesOK(w, pp, sc),
         NEW j \in 1..Len(pp), NEW os, NEW pos, NEW g,
         ReaderOK(w, pp, sc, os, pos), GotOK(w, pp, sc, os, pos, g), os.pageno <= j - 1,
         NEW o, NEW p2, o.pageno = j, Joins(pp, sc, j, os, pos, o, p2),
         NEW tk, Came(w, pp, sc, os, pos, g, tk)
  PROVE  Came(w, pp, sc, o, p2, g, tk \cup {j})
<1> DEFINE c == Cut(pp, j - 1)
           n == Len(pp[j].segments)
           tj == tk \cup {j}
<1>1. /\ pp \in Seq(PageType) /\ Len(pp) \in Nat
      /\ c \in Nat /\ n \in Nat /\ n > 0 /\ Len(sc) \in Nat
      /\ Cut(pp, j) = c + n /\ c + n <= Len(sc)
  BY PagePlaces
<1>2. tk \subseteq 1..Len(pp) /\ \A a \in tk : a <= os.pageno
  BY DEF Came
<1>3. os.pageno \in -1..Len(pp)
  BY DEF ReaderOK
<1>4. /\ tj \subseteq 1..Len(pp)
      /\ \A a \in tj : a <= j /\ a \in Nat
      /\ \A a \in tk : a <= j - 1 /\ a \in 1..Len(pp)
  BY <1>1, <1>2, <1>3
<1>5. \A k \in 0..Len(pp) : /\ Cut(pp, k) \in Nat
                            /\ \A a \in 0..k : Cut(pp, a) <= Cut(pp, k)
  BY <1>1, CutSteps
<1> HIDE DEF c, n, tj
\* A place before the page is on one of the pages taken before.
<1>6. ASSUME NEW x \in Int, x <= c, OnPages(pp, tj, x) PROVE OnPages(pp, tk, x)
  <2>1. PICK a \in tj : OnPage(pp, a, x)
    BY <1>6 DEF OnPages
  <2>2. a # j
    <3> SUFFICES ASSUME OnPage(pp, j, x) PROVE FALSE
      BY <2>1
    <3>1. x \in (c + 1)..(c + n)
      BY <1>1 DEF OnPage, c
    <3> QED
      BY <1>1, <1>6, <3>1
  <2> QED
    BY <2>1, <2>2 DEF OnPages, tj
<1>7. ASSUME NEW r \in 1..Len(sc), Whole(pp, sc, tj, r)
      PROVE  /\ IsMark(w, sc[r]) /\ sc[r].s \in Nat /\ sc[r].s > 0
             /\ First(sc, r) \in Int /\ First(sc, r) <= r /\ First(sc, r) >= 1
             /\ sc[First(sc, r)].s = 1
             /\ r <= c + n
             /\ r <= c => Whole(pp, sc, tk, r)
  <2>1. IsMark(w, sc[r]) /\ sc[r].s \in Nat
    BY ScriptMarks
  <2>2. sc[r].s > 0
    BY <2>1, SegsOf DEF IsMark
  <2>3. First(sc, r) \in Int /\ First(sc, r) <= r /\ First(sc, r) = r - (sc[r].s - 1)
    BY <1>1, <2>1, <2>2 DEF First
  <2>4. sc[r].s - 1 \in Nat /\ sc[r].s - 1 < sc[r].s
    BY <2>1, <2>2
  <2>5. /\ r - (sc[r].s - 1) \in 1..Len(sc)
        /\ sc[r - (sc[r].s - 1)] = Mark(sc[r].p, sc[r].s - (sc[r].s - 1))
    BY <2>4, ScriptBack
  <2>6. First(sc, r) >= 1 /\ sc[First(sc, r)].s = 1
    BY <2>1, <2>3, <2>5, MarkFields
  <2>7. r <= c + n
    <3>1. OnPages(pp, tj, r)
      BY <1>7, <2>3 DEF Whole
    <3>2. PICK a \in tj : r \in (Cut(pp, a - 1) + 1)..Cut(pp, a)
      BY <3>1 DEF OnPages, OnPage
    <3>3. a \in 0..j /\ a \in 0..Len(pp) /\ a - 1 \in 0..Len(pp) /\ j \in 0..Len(pp)
      BY <1>1, <1>4
    <3>4. Cut(pp, a) <= Cut(pp, j) /\ Cut(pp, a) \in Nat /\ Cut(pp, a - 1) \in Nat
      BY <1>5, <3>3
    <3> QED
      BY <1>1, <3>2, <3>4
  <2>8. ASSUME r <= c PROVE Whole(pp, sc, tk, r)
    <3>1. \A x \in First(sc, r)..r : x \in Int /\ x <= c /\ OnPages(pp, tj, x)
      BY <1>1, <1>7, <2>3, <2>8 DEF Whole
    <3> QED
      BY <1>6, <3>1 DEF Whole
  <2> QED
    BY <2>1, <2>2, <2>3, <2>6, <2>7, <2>8
<1>8. ASSUME NEW r \in 1..Len(sc), Whole(pp, sc, tj, r), Ends(w, sc[r]) \/ r = c + n
      PROVE  HeldAt(o, p2, r) \/ GotIt(g, sc[r].p)
  <2>1. CASE r <= c
    <3>1. Ends(w, sc[r])
      BY <1>1, <1>8, <2>1
    <3>2. Whole(pp, sc, tk, r)
      BY <1>7, <1>8, <2>1
    <3>3. HeldAt(os, pos, r) \/ GotIt(g, sc[r].p)
      BY <3>1, <3>2 DEF Came
    <3>4. ASSUME HeldAt(os, pos, r) PROVE HeldAt(o, p2, r)
      <4>1. PICK i \in 1..Len(os.lacing) : os.lacing[i].hole = FALSE /\ pos[i] = r
        BY <3>4 DEF HeldAt
      <4>2. i \in 1..os.packet
        BY <3>1, <4>1, HeldEnds
      <4> QED
        BY <4>1, <4>2 DEF Joins, Keeps
    <3> QED
      BY <3>3, <3>4
  <2>2. CASE ~(r <= c)
    <3>1. r - c \in 1..n /\ c + (r - c) = r
      BY <1>1, <1>7, <1>8, <2>2
    <3>2. SUFFICES ASSUME \A m \in 1..(r - c) : sc[c + m].s # 1,
                          os.pageno = j - 1 =>
                            os.lacing = <<>> \/ os.lacing[Len(os.lacing)].hole = TRUE
                   PROVE  FALSE
      BY <3>1 DEF Joins, c, n
    <3>3. /\ sc[r].s \in Nat /\ sc[r].s > 0
          /\ First(sc, r) \in Int /\ First(sc, r) <= r /\ First(sc, r) >= 1
          /\ sc[First(sc, r)].s = 1
      BY <1>7, <1>8
    <3>4. First(sc, r) <= c
      <4> SUFFICES ASSUME First(sc, r) > c PROVE FALSE
        BY <1>1, <3>3
      <4>1. First(sc, r) - c \in 1..(r - c) /\ c + (First(sc, r) - c) = First(sc, r)
        BY <1>1, <3>3
      <4> QED
        BY <3>2, <3>3, <4>1
    <3>5. c \in First(sc, r)..r /\ c \in 1..(r - 1) /\ r - c \in Nat /\ r - (r - c) = c
          /\ r - c < sc[r].s
      BY <1>1, <2>2, <3>3, <3>4 DEF First
    <3>6. sc[c] = Mark(sc[r].p, sc[r].s - (r - c))
      <4>1. PICK t \in Nat : t = r - c
        BY <3>5
      <4>2. t < sc[r].s /\ r - t = c
        BY <3>5, <4>1
      <4>3. sc[r - t] = Mark(sc[r].p, sc[r].s - t)
        BY <4>2, ScriptBack
      <4> QED
        BY <4>1, <4>2, <4>3
    <3>7. sc[c].p = sc[r].p /\ sc[c].s = sc[r].s - (r - c)
      BY <3>6, MarkFields
    <3>8. First(sc, c) = First(sc, r)
      BY <1>1, <3>3, <3>5, <3>7 DEF First
    <3>9. Whole(pp, sc, tk, c)
      <4>1. \A x \in First(sc, c)..c : x \in Int /\ x <= c /\ OnPages(pp, tj, x)
        BY <1>1, <1>8, <3>3, <3>5, <3>8 DEF Whole
      <4> QED
        BY <1>6, <4>1 DEF Whole
    <3>10. os.pageno = j - 1
      <4>1. OnPages(pp, tk, c)
        <5>1. c \in First(sc, c)..c
          BY <1>1, <3>3, <3>5, <3>8
        <5> QED
          BY <3>9, <5>1 DEF Whole
      <4>2. PICK a \in tk : c \in (Cut(pp, a - 1) + 1)..Cut(pp, a)
        BY <4>1 DEF OnPages, OnPage
      <4>3. a <= j - 1 /\ a \in 1..Len(pp) /\ a <= os.pageno
        BY <1>2, <1>4
      <4>4. a = j - 1
        <5> SUFFICES ASSUME a < j - 1 PROVE FALSE
          BY <4>3
        <5>1. j - 1 \in 1..Len(pp) /\ a \in 0..((j - 1) - 1) /\ (j - 1) - 1 \in 0..Len(pp)
          BY <1>1, <4>3
        <5>2. /\ Cut(pp, a) <= Cut(pp, (j - 1) - 1) /\ Cut(pp, (j - 1) - 1) \in Nat
              /\ Cut(pp, a) \in Nat
          BY <1>5, <5>1
        <5>3. /\ Cut(pp, j - 1) = Cut(pp, (j - 1) - 1) + Len(pp[j - 1].segments)
              /\ Len(pp[j - 1].segments) > 0
              /\ Len(pp[j - 1].segments) \in Nat
          <6>1. PICK b \in 1..Len(pp) : b = j - 1
            BY <5>1
          <6>2. Cut(pp, b) = Cut(pp, b - 1) + Len(pp[b].segments)
            BY <1>1, CutSteps
          <6>3. Len(pp[b].segments) > 0 /\ Len(pp[b].segments) \in Nat
            BY PagePlaces
          <6> QED
            BY <6>1, <6>2, <6>3
        <5>4. c <= Cut(pp, a)
          BY <4>2
        <5> QED
          BY <1>1, <5>2, <5>3, <5>4 DEF c
      <4> QED
        BY <1>3, <4>3, <4>4
    <3>11. ~(os.lacing = <<>> \/ os.lacing[Len(os.lacing)].hole = TRUE)
      BY <3>5, <3>7, <3>9, <3>10, NoOrphans DEF c
    <3> QED
      BY <3>2, <3>10, <3>11
  <2> QED
    BY <2>1, <2>2
<1>9. \A a \in tj : a <= o.pageno
  BY <1>4
<1>10. Cut(pp, o.pageno) = c + n
  BY <1>1
<1>11. Came(w, pp, sc, o, p2, g, tj)
  BY <1>4, <1>8, <1>9, <1>10 DEF Came
<1> QED
  BY <1>11 DEF tj

\* TakePacket
LEMMA CameGets ==
  ASSUME NEW w, NEW pp, NEW sc, NEW os, NEW pos, NEW g, NEW tk, Came(w, pp, sc, os, pos, g, tk),
         NEW o, NEW p2, NEW h, Leaves(sc, os, pos, g, o, p2, h), o.pageno = os.pageno
  PROVE  Came(w, pp, sc, o, p2, h, tk)
<1>1. ASSUME NEW r, HeldAt(os, pos, r) PROVE HeldAt(o, p2, r) \/ GotIt(h, sc[r].p)
  <2>1. PICK i \in 1..Len(os.lacing) : os.lacing[i].hole = FALSE /\ pos[i] = r
    BY <1>1 DEF HeldAt
  <2> QED
    BY <2>1 DEF Leaves
<1>2. ASSUME NEW k, GotIt(g, k) PROVE GotIt(h, k)
  <2>1. PICK i \in Got(g) : Id(g[i].p) = k
    BY <1>2 DEF GotIt
  <2> QED
    BY <2>1 DEF Leaves
<1> QED
  BY <1>1, <1>2 DEF Came

\* No item but the first of a page is a head.
LEMMA OneHead ==
  ASSUME NEW page \in PageType, NEW i \in 2..Len(Items(page))
  PROVE  Items(page)[i].kind # "head"
<1>1. /\ Len(Items(page)) \in Nat
      /\ Items(page)[2] = [kind |-> "table", len |-> Len(page.body)]
      /\ \A k \in 3..Len(Items(page)) : Items(page)[k] = [kind |-> "byte", byte |-> page.body[k - 2]]
  BY ItemsOf
<1>2. i = 2 \/ i \in 3..Len(Items(page))
  BY <1>1
<1>3. CASE i = 2
  BY <1>1, <1>3
<1>4. CASE i \in 3..Len(Items(page))
  <2>1. Items(page)[i] = [kind |-> "byte", byte |-> page.body[i - 2]]
    BY <1>1, <1>4
  <2> QED
    BY <2>1
<1> QED
  BY <1>2, <1>3, <1>4

\* Where a page is all there, its head is.
LEMMA HeadThere ==
  ASSUME NEW page \in PageType, NEW f, NEW e, IsAt(f, e, page)
  PROVE  f[e + 1].kind = "head" /\ f[e + 1].page = page
<1>1. /\ Items(page)[1] = [kind |-> "head", page |-> page, ok |-> TRUE]
      /\ 1 \in 1..Len(Items(page))
  <2>1. /\ Len(page.body) \in Nat
        /\ Len(Items(page)) = HeadItems + Len(page.body)
        /\ Items(page)[1] = [kind |-> "head", page |-> page, ok |-> TRUE]
    BY ItemsOf
  <2> QED
    BY <2>1 DEF HeadItems
<1>2. f[e + 1] = Items(page)[1]
  BY <1>1 DEF IsAt
<1> QED
  BY <1>1, <1>2

\* Skip
LEMMA PassedSkips ==
  ASSUME NEW pp \in Seq(PageType), NEW f, FileOK(pp, f), NEW oy, NEW off, SyncOK(f, oy, off),
         ~NeedsMore(oy), ~PageFound(oy), NEW tk, Passed(pp, f, Done(oy, off), tk)
  PROVE  Passed(pp, f, Done(Skipped(oy), off), tk)
<1> DEFINE d == Done(oy, off)
           h == Done(Skipped(oy), off)
<1>1. /\ d \in Nat /\ h \in Nat
      /\ \A a \in (d + 2)..h : f[a].kind # "head"
  BY SkippedIs
<1>2. SUFFICES ASSUME NEW j \in 1..Len(pp), NEW e \in Nat, e < h, IsAt(f, e, pp[j])
               PROVE  j \in tk
  BY DEF Passed
<1>3. f[e + 1].kind = "head" /\ pp[j] \in PageType
  BY <1>2, HeadThere
<1>4. e # d
  BY <1>2, <1>3, FoundThere
<1> HIDE DEF d, h
<1>5. ~(e > d)
  <2> SUFFICES ASSUME e > d PROVE FALSE
    OBVIOUS
  <2>1. e + 1 \in (d + 2)..h
    BY <1>1, <1>2
  <2> QED
    BY <1>1, <1>3, <2>1
<1>6. e < d
  BY <1>1, <1>4, <1>5
<1> QED
  BY <1>2, <1>6 DEF Passed, d

\* TakePage
LEMMA PassedTakes ==
  ASSUME NEW w, NEW pp, NEW sc, PagesOK(w, pp, sc),
         NEW f, FileOK(pp, f), NEW oy, NEW off, SyncOK(f, oy, off), PageFound(oy),
         NEW tk, Passed(pp, f, Done(oy, off), tk)
  PROVE  Passed(pp, f, Done(AfterFound(oy), off), tk \cup {oy.data[1].page.pageno + 1})
<1> DEFINE d == Done(oy, off)
           h == Done(AfterFound(oy), off)
           page == oy.data[1].page
           q == page.pageno
<1>1. /\ Found(pp, f, oy, off, page)
      /\ h = d + Len(Items(page))
      /\ IsAt(f, d, page)
  BY PageFoundIs
<1> HIDE DEF h, page
<1>2. d \in Nat /\ page \in PageType /\ q \in Nat
  BY <1>1 DEF Found
<1>3. f[d + 1].page = page
  BY <1>1 DEF Found
<1>4. SUFFICES ASSUME NEW j \in 1..Len(pp), NEW e \in Nat, e < h, IsAt(f, e, pp[j])
               PROVE  j \in tk \cup {q + 1}
  BY DEF Passed, h, page
<1>5. /\ pp \in Seq(PageType) /\ Len(pp) \in Nat /\ j \in Nat /\ pp[j].pageno = j - 1
  BY DEF PagesOK, PageOK
<1>6. f[e + 1].kind = "head" /\ f[e + 1].page = pp[j]
  BY <1>4, <1>5, HeadThere
<1>7. CASE e < d
  BY <1>4, <1>7 DEF Passed
<1>8. CASE e = d
  <2>1. page = pp[j]
    BY <1>3, <1>6, <1>8
  <2>2. q = j - 1
    BY <1>5, <2>1
  <2> QED
    BY <1>5, <2>2
<1>9. CASE e > d
  <2> DEFINE i == (e + 1) - d
  <2>1. Len(Items(page)) \in Nat
    BY <1>2, ItemsOf
  <2> HIDE DEF d
  <2>2. i \in 2..Len(Items(page)) /\ i \in 1..Len(Items(page)) /\ d + i = e + 1
    BY <1>1, <1>2, <1>4, <1>9, <2>1
  <2> HIDE DEF i
  <2>3. f[e + 1] = Items(page)[i]
    BY <1>1, <2>2 DEF IsAt
  <2> QED
    BY <1>2, <1>6, <2>2, <2>3, OneHead
<1>10. e < d \/ e = d \/ e > d
  BY <1>2
<1> QED
  BY <1>7, <1>8, <1>9, <1>10

-----------------------------------------------------------------------------
(* Together.                                                               *)

LEMMA KeptOpens ==
  ASSUME NEW w, NEW pp, NEW sc, NEW f, NEW n, Static(w, pp, sc, f, n), NEW os, NEW pos
  PROVE  Kept(w, pp, sc, f, SyncInit, 0, os, pos, <<>>)
<1>1. Came(w, pp, sc, os, pos, <<>>, {})
  BY CameStarts DEF Static
<1>2. Done(SyncInit, 0) = 0
  <2>1. Len(f) \in Nat /\ \E S : f \in Seq(S)
    BY DEF Static, FileOK
  <2>2. 0 \in 0..Len(f)
    BY <2>1
  <2> QED
    BY <2>1, <2>2, SyncStarts
<1>3. Passed(pp, f, Done(SyncInit, 0), {})
  BY <1>2 DEF Passed
<1> QED
  BY <1>1, <1>3 DEF Kept

LEMMA KeptReads ==
  ASSUME NEW w, NEW pp, NEW sc, NEW f, NEW n, Static(w, pp, sc, f, n),
         NEW oy, NEW off, NEW os, NEW pos, NEW g, Reading(w, pp, sc, f, n, oy, off, os, pos, g),
         Kept(w, pp, sc, f, oy, off, os, pos, g), NEW k \in Nat, off + k <= Len(f)
  PROVE  Kept(w, pp, sc, f, MoreOf(f, oy, off, k), off + k, os, pos, g)
<1>1. Done(MoreOf(f, oy, off, k), off + k) = Done(oy, off)
  BY ReadOn DEF Static, Reading
<1> QED
  BY <1>1 DEF Kept

LEMMA KeptSkips ==
  ASSUME NEW w, NEW pp, NEW sc, NEW f, NEW n, Static(w, pp, sc, f, n),
         NEW oy, NEW off, NEW os, NEW pos, NEW g, Reading(w, pp, sc, f, n, oy, off, os, pos, g),
         Kept(w, pp, sc, f, oy, off, os, pos, g), ~NeedsMore(oy), ~PageFound(oy)
  PROVE  Kept(w, pp, sc, f, Skipped(oy), off, os, pos, g)
<1>1. PICK tk : Came(w, pp, sc, os, pos, g, tk) /\ Passed(pp, f, Done(oy, off), tk)
  BY DEF Kept
<1>2. FileOK(pp, f) /\ SyncOK(f, oy, off) /\ pp \in Seq(PageType)
  BY DEF Static, Reading, PagesOK
<1>3. Passed(pp, f, Done(Skipped(oy), off), tk)
  BY <1>1, <1>2, PassedSkips
<1> QED
  BY <1>1, <1>3 DEF Kept

LEMMA KeptTakes ==
  ASSUME NEW w, NEW pp, NEW sc, NEW f, NEW n, Static(w, pp, sc, f, n),
         NEW oy, NEW off, NEW os, NEW pos, NEW g, Reading(w, pp, sc, f, n, oy, off, os, pos, g),
         Kept(w, pp, sc, f, oy, off, os, pos, g), PageFound(oy), NEW p2,
         Joins(pp, sc, oy.data[1].page.pageno + 1, os, pos, PageIn(os, oy.data[1].page), p2)
  PROVE  Kept(w, pp, sc, f, AfterFound(oy), off, PageIn(os, oy.data[1].page), p2, g)
<1> DEFINE page == oy.data[1].page
           j == page.pageno + 1
           o == PageIn(os, page)
<1>1. PICK tk : Came(w, pp, sc, os, pos, g, tk) /\ Passed(pp, f, Done(oy, off), tk)
  BY DEF Kept
<1>2. /\ PacketsOK(w) /\ IsScript(w, sc) /\ PagesOK(w, pp, sc) /\ FileOK(pp, f)
      /\ SyncOK(f, oy, off) /\ ReaderOK(w, pp, sc, os, pos) /\ GotOK(w, pp, sc, os, pos, g)
      /\ AheadOK(f, oy, off, os) /\ pp \in Seq(PageType)
  BY DEF Static, Reading, PagesOK
<1>3. Passed(pp, f, Done(AfterFound(oy), off), tk \cup {j})
  BY <1>1, <1>2, PassedTakes
<1>4. Found(pp, f, oy, off, page)
  BY <1>2, PageFoundIs
<1>5. Joins(pp, sc, j, os, pos, o, p2)
  OBVIOUS
<1> HIDE DEF page
<1>6. /\ page.pageno \in Nat /\ page.pageno < Len(pp) /\ page = pp[page.pageno + 1]
      /\ Done(oy, off) \in Nat /\ Done(oy, off) + 1 \in 1..Len(f)
      /\ f[Done(oy, off) + 1].kind = "head" /\ f[Done(oy, off) + 1].page = page
  BY <1>4 DEF Found
<1>7. j \in 1..Len(pp) /\ j - 1 = page.pageno /\ page = pp[j]
  <2>1. Len(pp) \in Nat
    BY <1>2
  <2> QED
    BY <1>6, <2>1
<1>8. os.pageno <= j - 1
  <2>1. Done(oy, off) + 1 \in (Done(oy, off) + 1)..Len(f)
    BY <1>6
  <2>2. page.pageno >= os.pageno
    BY <1>2, <1>6, <2>1 DEF AheadOK
  <2>3. os.pageno \in Int
    BY <1>2 DEF ReaderOK
  <2> QED
    BY <1>6, <1>7, <2>2, <2>3
<1> HIDE DEF j
<1>9. InReader(w, pp, sc, j, os, pos, PageIn(os, pp[j]), g)
  BY <1>2, <1>7, <1>8, PageTaken
<1>10. o.pageno = j
  BY <1>7, <1>9 DEF InReader
<1> HIDE DEF o
<1>11. Came(w, pp, sc, o, p2, g, tk \cup {j})
  BY <1>1, <1>2, <1>5, <1>7, <1>8, <1>10, CameTakes
<1> QED
  BY <1>3, <1>11 DEF Kept, o, page

LEMMA KeptGets ==
  ASSUME NEW w, NEW pp, NEW sc, NEW f, NEW n, Static(w, pp, sc, f, n),
         NEW oy, NEW off, NEW os, NEW pos, NEW g, Reading(w, pp, sc, f, n, oy, off, os, pos, g),
         Kept(w, pp, sc, f, oy, off, os, pos, g), PacketWaits(os), NEW p2,
         Leaves(sc, os, pos, g, AfterPacket(os), p2, Append(g, Taken(os)))
  PROVE  Kept(w, pp, sc, f, oy, off, AfterPacket(os), p2, Append(g, Taken(os)))
<1>1. PICK tk : Came(w, pp, sc, os, pos, g, tk) /\ Passed(pp, f, Done(oy, off), tk)
  BY DEF Kept
<1>2. AfterPacket(os).pageno = os.pageno
  BY PacketTaken DEF Static, Reading
<1>3. Came(w, pp, sc, AfterPacket(os), p2, Append(g, Taken(os)), tk)
  BY <1>1, <1>2, CameGets
<1> QED
  BY <1>1, <1>3 DEF Kept

\* What Put leaves of the packets, the pages and the file.
LEMMA StaticPut ==
  ASSUME NEW w, NEW pp, NEW sc, NEW f, NEW os, Static(w, pp, sc, f, 0), WriterOK(w, pp, os, sc),
         NEW n \in Nat, NEW eos \in BOOLEAN, Len(w) < MaxPackets,
         (n = 0 \/ eos) => Len(w) + 1 = MaxPackets,
         NEW p, p = NewPacket(w, n, eos)
  PROVE  \E s2 : /\ Static(Append(w, p), pp, s2, f, 0)
                 /\ WriterOK(Append(w, p), pp, PacketIn(os, p.data, p.eos, p.granulepos), s2)
<1> DEFINE s2 == sc \o MarksOf(Append(w, p), Len(w) + 1)
<1>1. /\ PacketsOK(w) /\ IsScript(w, sc) /\ PagesOK(w, pp, sc) /\ FileOK(pp, f) /\ WholeOK(pp, f)
      /\ pp \in Seq(PageType)
  BY DEF Static, PagesOK
<1>2. PacketsOK(Append(w, p))
  BY <1>1, PacketsPut
<1>3. IsScript(Append(w, p), s2)
  BY <1>1, <1>2, ScriptPut
<1>4. PagesOK(Append(w, p), pp, s2)
  BY <1>1, <1>2, PagesPut
<1>5. WriterOK(Append(w, p), pp, PacketIn(os, p.data, p.eos, p.granulepos), s2)
  BY <1>1, WriterPut
<1> HIDE DEF s2
<1> QED
  BY <1>1, <1>2, <1>3, <1>4, <1>5 DEF Static

\* What a page that comes out makes of them.
LEMMA StaticEmit ==
  ASSUME NEW w, NEW pp, NEW sc, NEW f, NEW os, Static(w, pp, sc, f, 0), WriterOK(w, pp, os, sc),
         os.lacing # <<>>, NEW nfill, NEW page, page = PageOut(os, nfill)
  PROVE  /\ Static(w, Append(pp, page), sc, f \o Items(page), 0)
         /\ WriterOK(w, Append(pp, page), AfterPage(os, nfill), sc)
<1>1. /\ PacketsOK(w) /\ IsScript(w, sc) /\ PagesOK(w, pp, sc) /\ FileOK(pp, f) /\ WholeOK(pp, f)
      /\ pp \in Seq(PageType)
  BY DEF Static, PagesOK
<1>2. page \in PageType /\ page.pageno = Len(pp)
  BY <1>1, PageEmitted
<1>3. PagesOK(w, Append(pp, page), sc)
  BY <1>1, PagesEmitted
<1>4. WriterOK(w, Append(pp, page), AfterPage(os, nfill), sc)
  BY <1>1, WriterEmitted
<1>5. FileOK(Append(pp, page), f \o Items(page)) /\ WholeOK(Append(pp, page), f \o Items(page))
  BY <1>1, <1>2, FileEmitted
<1> QED
  BY <1>1, <1>3, <1>4, <1>5 DEF Static

\* Damage of an item of the file.
LEMMA FileDamaged ==
  ASSUME NEW pp, NEW f, FileOK(pp, f), NEW i \in 1..Len(f), NEW h,
         \/ h = [f EXCEPT ![i] = Junk]
         \/ f[i].kind = "head" /\ h = [f EXCEPT ![i].ok = FALSE]
         \/ /\ f[i].kind = "table"
            /\ \E d \in {-1, 2} : f[i].len + d >= 0 /\ h = [f EXCEPT ![i].len = @ + d]
         \/ h = SubSeq(f, 1, i - 1) \o SubSeq(f, i + 1, Len(f))
  PROVE  FileOK(pp, h)
<1>0. ItemOK(pp, f[i])
  BY DEF FileOK
<1>1. CASE h = [f EXCEPT ![i] = Junk]
  <2>1. ItemOK(pp, Junk) /\ Junk.kind # "head"
    BY DEF ItemOK, Junk
  <2> QED
    BY <1>1, <2>1, ItemChanged
<1>2. CASE f[i].kind = "head" /\ h = [f EXCEPT ![i].ok = FALSE]
  <2> DEFINE x == [f[i] EXCEPT !.ok = FALSE]
  <2>1. /\ f[i] \in [kind : {"head"}, page : PageType, ok : BOOLEAN]
        /\ f[i].page.pageno < Len(pp) /\ f[i].page = pp[f[i].page.pageno + 1]
    <3> HIDE DEF PageType
    <3> QED
      BY <1>0, <1>2 DEF ItemOK, Junk
  <2>2. /\ x \in [kind : {"head"}, page : PageType, ok : BOOLEAN]
        /\ x.page = f[i].page /\ x.kind = "head"
    <3> HIDE DEF PageType
    <3> QED
      BY <2>1
  <2>3. h = [f EXCEPT ![i] = x]
    BY <1>2
  <2> HIDE DEF x
  <2>4. ItemOK(pp, x)
    BY <2>1, <2>2 DEF ItemOK
  <2>5. FileOK(pp, [f EXCEPT ![i] = x])
    BY <1>2, <2>2, <2>4, ItemChanged
  <2> QED
    BY <2>3, <2>5
<1>3. CASE /\ f[i].kind = "table"
           /\ \E d \in {-1, 2} : f[i].len + d >= 0 /\ h = [f EXCEPT ![i].len = @ + d]
  <2>1. PICK d \in {-1, 2} : f[i].len + d >= 0 /\ h = [f EXCEPT ![i].len = @ + d]
    BY <1>3
  <2> DEFINE x == [f[i] EXCEPT !.len = @ + d]
  <2>2. f[i] \in [kind : {"table"}, len : Nat]
    BY <1>0, <1>3 DEF ItemOK, Junk
  <2>3. x \in [kind : {"table"}, len : Nat] /\ x.kind = "table"
    <3>1. f[i].len \in Nat /\ f[i].len + d \in Nat
      BY <2>1, <2>2
    <3> QED
      BY <2>2, <3>1
  <2>4. h = [f EXCEPT ![i] = x]
    BY <2>1
  <2> HIDE DEF x
  <2>5. ItemOK(pp, x) /\ x.kind # "head"
    BY <2>3 DEF ItemOK
  <2>6. FileOK(pp, [f EXCEPT ![i] = x])
    BY <2>5, ItemChanged
  <2> QED
    BY <2>4, <2>6
<1>4. CASE h = SubSeq(f, 1, i - 1) \o SubSeq(f, i + 1, Len(f))
  BY <1>4, ItemLost
<1> QED
  BY <1>1, <1>2, <1>3, <1>4

-----------------------------------------------------------------------------
(* The actions.                                                            *)

LEMMA InitInv == Init => IInv
<1> SUFFICES ASSUME Init PROVE IInv
  OBVIOUS
<1>1. /\ phase = "writing" /\ ws = StreamInit(Serial) /\ written = <<>> /\ pages = <<>>
      /\ file = <<>> /\ faults = 0 /\ seeks = 0 /\ ReaderRests
  BY DEF Init, ReaderRests
<1>2. Bounds
  BY <1>1, StreamAssumption DEF Bounds
<1>3. PacketsOK(<<>>) /\ IsScript(<<>>, <<>>) /\ PagesOK(<<>>, <<>>, <<>>)
  <2> HIDE DEF Byte, PageType
  <2>1. MaxPackets >= 0
    BY StreamAssumption
  <2> QED
    BY <2>1 DEF PacketsOK, IsScript, PagesOK
<1>4. FileOK(<<>>, <<>>)
  <2>1. <<>> \in Seq({})
    OBVIOUS
  <2> QED
    BY <2>1 DEF FileOK
<1>5. WholeOK(<<>>, <<>>)
  <2>1. Reach(<<>>, 0) = 0
    BY BytesAdds DEF Reach
  <2> QED
    BY <2>1 DEF WholeOK
<1>6. Static(<<>>, <<>>, <<>>, <<>>, 0)
  BY <1>3, <1>4, <1>5 DEF Static
<1> DEFINE os == StreamInit(Serial)
<1>7. os = [body |-> <<>>, lacing |-> <<>>, packet |-> 0, bos |-> FALSE, eos |-> FALSE,
            pageno |-> 0, packetno |-> 0, granulepos |-> 0, serialno |-> 1]
  BY DEF StreamInit, Serial
<1> HIDE DEF os
<1>8. WriterOK(<<>>, <<>>, os, <<>>)
  <2>1. /\ os.body = <<>> /\ os.lacing = <<>> /\ os.packet = 0 /\ os.pageno = 0
        /\ os.bos = FALSE /\ os.eos = FALSE
        /\ Len(os.lacing) = 0 /\ Len(os.body) = 0
    BY <1>7
  <2>2. os.body \in Seq(Byte) /\ os.lacing \in Seq(SegType)
    BY <2>1
  <2>3. os \in Stream
    BY <1>7, <2>2 DEF Stream
  <2>4. Bytes(os.lacing, 0) = 0 /\ Cut(<<>>, 0) = 0
    BY BytesAdds DEF Cut
  <2>5. StreamOK(os)
    BY <2>1, <2>3, <2>4 DEF StreamOK
  <2>6. os.bos = (<<>> # <<>>) /\ ~(os.eos = TRUE)
    BY <2>1, Zenon
  <2>7. os.pageno = Len(<<>>) /\ Len(<<>>) = Cut(<<>>, Len(<<>>)) + Len(os.lacing)
    BY <2>1, <2>4
  <2>8. \A i \in 1..Len(os.lacing) : FALSE
    BY <2>1
  <2> QED
    BY <2>1, <2>5, <2>6, <2>7, <2>8, Zenon DEF WriterOK
<1>9. Core(<<>>, <<>>)
  BY <1>1, <1>2, <1>6, <1>8 DEF Core, os
<1> QED
  BY <1>9 DEF IInv

\* While writing, the reader rests and nothing is damaged.
LEMMA CoreWriting ==
  ASSUME NEW sc, NEW pos, Core(sc, pos), phase = "writing"
  PROVE  /\ Bounds /\ faults = 0 /\ ReaderRests
         /\ Static(written, pages, sc, file, 0)
         /\ WriterOK(written, pages, ws, sc)
  BY DEF Core

LEMMA PutKeeps ==
  ASSUME NEW sc, NEW pos, Core(sc, pos), NEW n \in Sizes, NEW eos \in BOOLEAN, Put(n, eos)
  PROVE  IInv'
<1> DEFINE k == Len(written) + 1
           p == [data |-> [i \in 1..n |-> [p |-> k, i |-> i]], granulepos |-> k - 1, eos |-> eos]
<1>1. /\ phase = "writing" /\ Len(written) < MaxPackets
      /\ (n = 0 \/ eos) => Len(written) + 1 = MaxPackets
      /\ written' = Append(written, p)
      /\ ws' = PacketIn(ws, p.data, p.eos, p.granulepos)
      /\ UNCHANGED <<phase, pages, file, faults, sync, offset, rs, got, seeks>>
  BY DEF Put, readerVars
<1>2. /\ Bounds /\ faults = 0 /\ ReaderRests
      /\ Static(written, pages, sc, file, 0)
      /\ WriterOK(written, pages, ws, sc)
  BY <1>1, CoreWriting
<1>3. n \in Nat
  BY StreamAssumption
<1>4. p = NewPacket(written, n, eos)
  <2>1. Len(written) \in Nat
    BY <1>2 DEF Static, PacketsOK
  <2>2. k - 1 = Len(written)
    BY <2>1
  <2> QED
    BY <2>2 DEF NewPacket
<1> HIDE DEF p
<1>5. PICK s2 : /\ Static(Append(written, p), pages, s2, file, 0)
                /\ WriterOK(Append(written, p), pages, PacketIn(ws, p.data, p.eos, p.granulepos), s2)
  BY <1>1, <1>2, <1>3, <1>4, StaticPut
<1>6. Static(written', pages', s2, file', 0) /\ WriterOK(written', pages', ws', s2)
  BY <1>1, <1>5
<1>7. Bounds' /\ ReaderRests'
  BY <1>1, <1>2 DEF Bounds, ReaderRests
<1>8. Core(s2, pos)'
  BY <1>1, <1>2, <1>6, <1>7 DEF Core
<1> QED
  BY <1>8 DEF IInv

LEMMA EmitKeeps ==
  ASSUME NEW sc, NEW pos, Core(sc, pos), NEW force, Emit(force)
  PROVE  IInv'
<1> DEFINE page == PageOut(ws, Fill)
<1>1. /\ phase = "writing" /\ ws.lacing # <<>>
      /\ pages' = Append(pages, page) /\ file' = file \o Items(page)
      /\ ws' = AfterPage(ws, Fill)
      /\ UNCHANGED <<phase, written, faults, sync, offset, rs, got, seeks>>
  BY DEF Emit, PageReady, readerVars
<1>2. /\ Bounds /\ faults = 0 /\ ReaderRests
      /\ Static(written, pages, sc, file, 0)
      /\ WriterOK(written, pages, ws, sc)
  BY <1>1, CoreWriting
<1>3. page = PageOut(ws, Fill)
  OBVIOUS
<1> HIDE DEF page
<1>4. /\ Static(written, Append(pages, page), sc, file \o Items(page), 0)
      /\ WriterOK(written, Append(pages, page), AfterPage(ws, Fill), sc)
  BY <1>1, <1>2, <1>3, StaticEmit
<1>5. Static(written', pages', sc, file', 0) /\ WriterOK(written', pages', ws', sc)
  BY <1>1, <1>4
<1>6. Bounds' /\ ReaderRests'
  BY <1>1, <1>2 DEF Bounds, ReaderRests
<1>7. Core(sc, pos)'
  BY <1>1, <1>2, <1>5, <1>6 DEF Core
<1> QED
  BY <1>7 DEF IInv

LEMMA CloseKeeps ==
  ASSUME NEW sc, NEW pos, Core(sc, pos), Close
  PROVE  IInv'
<1>1. /\ phase = "writing" /\ Len(written) = MaxPackets /\ ws.lacing = <<>> /\ phase' = "file"
      /\ UNCHANGED <<ws, written, pages, file, faults, sync, offset, rs, got, seeks>>
  BY DEF Close, writerVars, readerVars
<1>2. /\ Bounds /\ ReaderRests /\ Static(written, pages, sc, file, faults)
      /\ WriterOK(written, pages, ws, sc)
  BY <1>1 DEF Core
<1>3. Bounds' /\ ReaderRests'
  BY <1>1, <1>2 DEF Bounds, ReaderRests
<1>4. Static(written', pages', sc, file', faults') /\ WriterOK(written', pages', ws', sc)
  BY <1>1, <1>2
<1>5. Core(sc, pos)'
  BY <1>1, <1>3, <1>4 DEF Core
<1> QED
  BY <1>5 DEF IInv

\* The file is damaged or cut.
LEMMA FaultKeeps ==
  ASSUME NEW sc, NEW pos, Core(sc, pos), phase = "file", faults < MaxFaults,
         faults' = faults + 1, FileOK(pages, file'),
         UNCHANGED <<phase, ws, written, pages, sync, offset, rs, got, seeks>>
  PROVE  IInv'
<1>1. /\ Bounds /\ ReaderRests /\ Static(written, pages, sc, file, faults)
      /\ WriterOK(written, pages, ws, sc) /\ Len(written) = MaxPackets /\ ws.lacing = <<>>
  BY DEF Core
<1>2. faults' # 0 /\ faults' \in 0..MaxFaults
  BY <1>1, StreamAssumption DEF Bounds
<1>3. Bounds' /\ ReaderRests'
  BY <1>1, <1>2 DEF Bounds, ReaderRests
<1>4. Static(written', pages', sc, file', faults')
  BY <1>1, <1>2 DEF Static
<1>5. WriterOK(written', pages', ws', sc) /\ Len(written') = MaxPackets /\ ws'.lacing = <<>>
  BY <1>1
<1>6. Core(sc, pos)'
  BY <1>3, <1>4, <1>5 DEF Core
<1> QED
  BY <1>6 DEF IInv

LEMMA DamageKeeps ==
  ASSUME NEW sc, NEW pos, Core(sc, pos), NEW i, Damage(i)
  PROVE  IInv'
<1>1. /\ phase = "file" /\ faults < MaxFaults /\ i \in 1..Len(file) /\ faults' = faults + 1
      /\ UNCHANGED <<phase, ws, written, pages, sync, offset, rs, got, seeks>>
      /\ \/ file' = [file EXCEPT ![i] = Junk]
         \/ file[i].kind = "head" /\ file' = [file EXCEPT ![i].ok = FALSE]
         \/ /\ file[i].kind = "table"
            /\ \E d \in {-1, 2} : /\ file[i].len + d >= 0
                                  /\ file' = [file EXCEPT ![i].len = @ + d]
         \/ file' = SubSeq(file, 1, i - 1) \o SubSeq(file, i + 1, Len(file))
  BY DEF Damage, writerVars, readerVars
<1>2. FileOK(pages, file)
  BY DEF Core, Static
<1>3. FileOK(pages, file')
  BY <1>1, <1>2, FileDamaged
<1> QED
  BY <1>1, <1>3, FaultKeeps

LEMMA TruncateKeeps ==
  ASSUME NEW sc, NEW pos, Core(sc, pos), NEW i, Truncate(i)
  PROVE  IInv'
<1>1. /\ phase = "file" /\ faults < MaxFaults /\ i \in 0..(Len(file) - 1)
      /\ faults' = faults + 1 /\ file' = SubSeq(file, 1, i)
      /\ UNCHANGED <<phase, ws, written, pages, sync, offset, rs, got, seeks>>
  BY DEF Truncate, writerVars, readerVars
<1>2. FileOK(pages, file)
  BY DEF Core, Static
<1>3. i \in 0..Len(file)
  <2>1. Len(file) \in Nat
    BY <1>2 DEF FileOK
  <2> QED
    BY <1>1, <2>1
<1>4. FileOK(pages, file')
  BY <1>1, <1>2, <1>3, FileCut
<1> QED
  BY <1>1, <1>4, FaultKeeps

\* The reader, its file open: what does not touch the packets, the pages and
\* the file.
LEMMA ReadKeepsCore ==
  ASSUME NEW sc, NEW pos, Core(sc, pos), NEW p2, phase # "writing",
         phase' = "reading", seeks' \in 0..MaxSeeks,
         Reading(written, pages, sc, file, faults, sync', offset', rs', p2, got'),
         seeks' = 0 => Kept(written, pages, sc, file, sync', offset', rs', p2, got'),
         UNCHANGED <<ws, written, pages, file, faults>>
  PROVE  IInv'
<1>1. /\ Bounds /\ Static(written, pages, sc, file, faults)
      /\ WriterOK(written, pages, ws, sc) /\ Len(written) = MaxPackets /\ ws.lacing = <<>>
  BY DEF Core
<1>2. Bounds'
  BY <1>1 DEF Bounds
<1>3. /\ Static(written', pages', sc, file', faults') /\ WriterOK(written', pages', ws', sc)
      /\ Len(written') = MaxPackets /\ ws'.lacing = <<>>
  BY <1>1
<1>4. /\ Reading(written', pages', sc, file', faults', sync', offset', rs', p2, got')
      /\ seeks' = 0 => Kept(written', pages', sc, file', sync', offset', rs', p2, got')
  OBVIOUS
<1>5. Core(sc, p2)'
  BY <1>2, <1>3, <1>4 DEF Core
<1> QED
  BY <1>5 DEF IInv

LEMMA CoreReading ==
  ASSUME NEW sc, NEW pos, Core(sc, pos), phase = "reading"
  PROVE  /\ Static(written, pages, sc, file, faults) /\ seeks \in 0..MaxSeeks
         /\ Reading(written, pages, sc, file, faults, sync, offset, rs, pos, got)
         /\ seeks = 0 => Kept(written, pages, sc, file, sync, offset, rs, pos, got)
  BY DEF Core, Bounds

LEMMA OpenKeeps ==
  ASSUME NEW sc, NEW pos, Core(sc, pos), Open
  PROVE  IInv'
<1>1. /\ phase = "file" /\ phase' = "reading" /\ rs' = StreamReset(Serial)
      /\ UNCHANGED <<ws, written, pages, file, faults, sync, offset, got, seeks>>
  BY DEF Open, writerVars
<1>2. /\ ReaderRests /\ Static(written, pages, sc, file, faults) /\ seeks \in 0..MaxSeeks
  BY <1>1 DEF Core, Bounds
<1>3. sync' = SyncInit /\ offset' = 0 /\ got' = <<>> /\ seeks' \in 0..MaxSeeks
  BY <1>1, <1>2 DEF ReaderRests
<1>4. 0 \in 0..Len(file)
  <2>1. Len(file) \in Nat
    BY <1>2 DEF Static, FileOK
  <2> QED
    BY <2>1
<1>5. Reading(written, pages, sc, file, faults, SyncInit, 0, StreamReset(Serial), <<>>, <<>>)
  BY <1>2, <1>4, ReadingStarts
<1>6. Reading(written, pages, sc, file, faults, sync', offset', rs', <<>>, got')
  BY <1>1, <1>3, <1>5
<1>7. Kept(written, pages, sc, file, SyncInit, 0, StreamReset(Serial), <<>>, <<>>)
  BY <1>2, KeptOpens
<1>8. Kept(written, pages, sc, file, sync', offset', rs', <<>>, got')
  BY <1>1, <1>3, <1>7
<1> QED
  BY <1>1, <1>3, <1>6, <1>8, ReadKeepsCore

LEMMA SeekKeeps ==
  ASSUME NEW sc, NEW pos, Core(sc, pos), NEW i, Seek(i)
  PROVE  IInv'
<1>1. /\ phase = "reading" /\ phase' = "reading" /\ rs' = StreamReset(Serial)
      /\ sync' = SyncInit /\ offset' = i /\ got' = <<>> /\ i \in 0..Len(file)
      /\ seeks < MaxSeeks /\ seeks' = seeks + 1
      /\ UNCHANGED <<ws, written, pages, file, faults>>
  BY DEF Seek, writerVars
<1>2. Static(written, pages, sc, file, faults) /\ seeks \in 0..MaxSeeks
  BY <1>1, CoreReading
<1>3. seeks' \in 0..MaxSeeks /\ seeks' # 0
  BY <1>1, <1>2, StreamAssumption
<1>4. Reading(written, pages, sc, file, faults, SyncInit, i, StreamReset(Serial), <<>>, <<>>)
  BY <1>1, <1>2, ReadingStarts
<1>5. Reading(written, pages, sc, file, faults, sync', offset', rs', <<>>, got')
  BY <1>1, <1>4
<1> QED
  BY <1>1, <1>3, <1>5, ReadKeepsCore

LEMMA ReadKeeps ==
  ASSUME NEW sc, NEW pos, Core(sc, pos), NEW n, Read(n)
  PROVE  IInv'
<1>1. /\ phase = "reading" /\ phase' = "reading" /\ n \in 1..ReadSize /\ offset + n <= Len(file)
      /\ sync' = [Seen(sync) EXCEPT !.data = @ \o SubSeq(file, offset + 1, offset + n)]
      /\ offset' = offset + n
      /\ UNCHANGED <<ws, written, pages, file, faults, rs, got, seeks>>
  BY DEF Read, writerVars
<1>2. /\ Static(written, pages, sc, file, faults) /\ seeks \in 0..MaxSeeks
      /\ Reading(written, pages, sc, file, faults, sync, offset, rs, pos, got)
      /\ seeks = 0 => Kept(written, pages, sc, file, sync, offset, rs, pos, got)
  BY <1>1, CoreReading
<1>3. sync' = MoreOf(file, sync, offset, n)
  BY <1>1 DEF MoreOf
<1>4. n \in Nat
  BY <1>1, StreamAssumption
<1>5. Reading(written, pages, sc, file, faults, sync', offset + n, rs, pos, got)
  BY <1>1, <1>2, <1>3, <1>4, ReadingReads
<1>6. Reading(written, pages, sc, file, faults, sync', offset', rs', pos, got')
  BY <1>1, <1>5
<1>7. ASSUME seeks' = 0 PROVE Kept(written, pages, sc, file, sync', offset', rs', pos, got')
  <2>1. Kept(written, pages, sc, file, sync, offset, rs, pos, got)
    BY <1>1, <1>2, <1>7
  <2>2. Kept(written, pages, sc, file, MoreOf(file, sync, offset, n), offset + n, rs, pos, got)
    BY <1>1, <1>2, <1>4, <2>1, KeptReads
  <2> QED
    BY <1>1, <1>3, <2>2
<1>8. seeks' \in 0..MaxSeeks
  BY <1>1, <1>2
<1> QED
  BY <1>1, <1>6, <1>7, <1>8, ReadKeepsCore

LEMMA SkipKeeps ==
  ASSUME NEW sc, NEW pos, Core(sc, pos), Skip
  PROVE  IInv'
<1>1. /\ phase = "reading" /\ phase' = "reading" /\ ~NeedsMore(sync) /\ ~PageFound(sync)
      /\ sync' = Skipped(sync)
      /\ UNCHANGED <<ws, written, pages, file, faults, offset, rs, got, seeks>>
  BY DEF Skip, writerVars
<1>2. /\ Static(written, pages, sc, file, faults) /\ seeks \in 0..MaxSeeks
      /\ Reading(written, pages, sc, file, faults, sync, offset, rs, pos, got)
      /\ seeks = 0 => Kept(written, pages, sc, file, sync, offset, rs, pos, got)
  BY <1>1, CoreReading
<1>3. Reading(written, pages, sc, file, faults, Skipped(sync), offset, rs, pos, got)
  BY <1>1, <1>2, ReadingSkips
<1>4. Reading(written, pages, sc, file, faults, sync', offset', rs', pos, got')
  BY <1>1, <1>3
<1>5. seeks' \in 0..MaxSeeks
  BY <1>1, <1>2
<1>6. ASSUME seeks' = 0 PROVE Kept(written, pages, sc, file, sync', offset', rs', pos, got')
  <2>1. Kept(written, pages, sc, file, sync, offset, rs, pos, got)
    BY <1>1, <1>2, <1>6
  <2>2. Kept(written, pages, sc, file, Skipped(sync), offset, rs, pos, got)
    BY <1>1, <1>2, <2>1, KeptSkips
  <2> QED
    BY <1>1, <2>2
<1> QED
  BY <1>1, <1>4, <1>5, <1>6, ReadKeepsCore

LEMMA TakePageKeeps ==
  ASSUME NEW sc, NEW pos, Core(sc, pos), TakePage
  PROVE  IInv'
<1>1. /\ phase = "reading" /\ phase' = "reading" /\ PageFound(sync)
      /\ sync' = AfterFound(sync) /\ rs' = PageIn(rs, sync.data[1].page)
      /\ UNCHANGED <<ws, written, pages, file, faults, offset, got, seeks>>
  BY DEF TakePage, writerVars
<1>2. /\ Static(written, pages, sc, file, faults) /\ seeks \in 0..MaxSeeks
      /\ Reading(written, pages, sc, file, faults, sync, offset, rs, pos, got)
      /\ seeks = 0 => Kept(written, pages, sc, file, sync, offset, rs, pos, got)
  BY <1>1, CoreReading
<1>3. PICK p2 : /\ Reading(written, pages, sc, file, faults, AfterFound(sync), offset,
                           PageIn(rs, sync.data[1].page), p2, got)
                /\ Joins(pages, sc, sync.data[1].page.pageno + 1, rs, pos,
                         PageIn(rs, sync.data[1].page), p2)
  BY <1>1, <1>2, ReadingTakes
<1>4. Reading(written, pages, sc, file, faults, sync', offset', rs', p2, got')
  BY <1>1, <1>3
<1>5. seeks' \in 0..MaxSeeks
  BY <1>1, <1>2
<1>6. ASSUME seeks' = 0 PROVE Kept(written, pages, sc, file, sync', offset', rs', p2, got')
  <2>1. Kept(written, pages, sc, file, sync, offset, rs, pos, got)
    BY <1>1, <1>2, <1>6
  <2>2. Kept(written, pages, sc, file, AfterFound(sync), offset, PageIn(rs, sync.data[1].page), p2, got)
    BY <1>1, <1>2, <1>3, <2>1, KeptTakes
  <2> QED
    BY <1>1, <2>2
<1> QED
  BY <1>1, <1>4, <1>5, <1>6, ReadKeepsCore

LEMMA TakePacketKeeps ==
  ASSUME NEW sc, NEW pos, Core(sc, pos), TakePacket
  PROVE  IInv'
<1>1. /\ phase = "reading" /\ phase' = "reading" /\ PacketWaits(rs)
      /\ got' = Append(got, Taken(rs)) /\ rs' = AfterPacket(rs)
      /\ UNCHANGED <<ws, written, pages, file, faults, sync, offset, seeks>>
  BY DEF TakePacket, writerVars, Taken
<1>2. /\ Static(written, pages, sc, file, faults) /\ seeks \in 0..MaxSeeks
      /\ Reading(written, pages, sc, file, faults, sync, offset, rs, pos, got)
      /\ seeks = 0 => Kept(written, pages, sc, file, sync, offset, rs, pos, got)
  BY <1>1, CoreReading
<1>3. PICK p2 : /\ Reading(written, pages, sc, file, faults, sync, offset,
                           AfterPacket(rs), p2, Append(got, Taken(rs)))
                /\ Leaves(sc, rs, pos, got, AfterPacket(rs), p2, Append(got, Taken(rs)))
  BY <1>1, <1>2, ReadingGets
<1>4. Reading(written, pages, sc, file, faults, sync', offset', rs', p2, got')
  BY <1>1, <1>3
<1>5. seeks' \in 0..MaxSeeks
  BY <1>1, <1>2
<1>6. ASSUME seeks' = 0 PROVE Kept(written, pages, sc, file, sync', offset', rs', p2, got')
  <2>1. Kept(written, pages, sc, file, sync, offset, rs, pos, got)
    BY <1>1, <1>2, <1>6
  <2>2. Kept(written, pages, sc, file, sync, offset, AfterPacket(rs), p2, Append(got, Taken(rs)))
    BY <1>1, <1>2, <1>3, <2>1, KeptGets
  <2> QED
    BY <1>1, <2>2
<1> QED
  BY <1>1, <1>4, <1>5, <1>6, ReadKeepsCore

LEMMA StutterKeeps ==
  ASSUME IInv, UNCHANGED vars
  PROVE  IInv'
<1>1. UNCHANGED <<phase, ws, written, pages, file, faults, sync, offset, rs, got, seeks>>
  BY DEF vars
<1>2. PICK sc, pos : Core(sc, pos)
  BY DEF IInv
<1>3. Bounds' = Bounds /\ ReaderRests' = ReaderRests
  BY <1>1 DEF Bounds, ReaderRests
<1>4. Core(sc, pos)'
  BY <1>1, <1>2, <1>3 DEF Core
<1> QED
  BY <1>4 DEF IInv

LEMMA StepKeeps == IInv /\ [Next]_vars => IInv'
<1> SUFFICES ASSUME IInv, [Next]_vars PROVE IInv'
  OBVIOUS
<1>1. PICK sc, pos : Core(sc, pos)
  BY DEF IInv
<1>2. CASE \E n \in Sizes, eos \in BOOLEAN : Put(n, eos)
  BY <1>1, <1>2, PutKeeps
<1>3. CASE Pageout \/ Flush
  BY <1>1, <1>3, EmitKeeps DEF Pageout, Flush
<1>4. CASE Close
  BY <1>1, <1>4, CloseKeeps
<1>5. CASE \E i \in 1..Len(file) : Damage(i)
  BY <1>1, <1>5, DamageKeeps
<1>6. CASE \E i \in 0..Len(file) : Truncate(i)
  BY <1>1, <1>6, TruncateKeeps
<1>7. CASE Open
  BY <1>1, <1>7, OpenKeeps
<1>8. CASE \E n \in 1..ReadSize : Read(n)
  BY <1>1, <1>8, ReadKeeps
<1>9. CASE Skip
  BY <1>1, <1>9, SkipKeeps
<1>10. CASE TakePage
  BY <1>1, <1>10, TakePageKeeps
<1>11. CASE TakePacket
  BY <1>1, <1>11, TakePacketKeeps
<1>12. CASE \E i \in 0..Len(file) : Seek(i)
  BY <1>1, <1>12, SeekKeeps
<1>13. CASE UNCHANGED vars
  BY <1>13, StutterKeeps
<1> QED
  BY <1>2, <1>3, <1>4, <1>5, <1>6, <1>7, <1>8, <1>9, <1>10, <1>11, <1>12, <1>13 DEF Next

\* The types of the packets put in and of the streams.
LEMMA InvTypeOK == IInv => TypeOK
<1> SUFFICES ASSUME IInv PROVE TypeOK
  OBVIOUS
<1>1. PICK sc, pos : Core(sc, pos)
  BY DEF IInv
<1>2. /\ phase \in {"writing", "file", "reading"} /\ faults \in 0..MaxFaults /\ seeks \in 0..MaxSeeks
      /\ PacketsOK(written) /\ FileOK(pages, file) /\ WriterOK(written, pages, ws, sc)
  BY <1>1 DEF Core, Bounds, Static
<1>3. written \in Seq(Packet)
  <2> DEFINE T == [data : Seq(Byte), granulepos : Int, eos : BOOLEAN]
  <2>1. written \in Seq(T) /\ Len(written) <= MaxPackets
        /\ \A k \in 1..Len(written) : PacketOK(written, k)
    BY <1>2 DEF PacketsOK
  <2> HIDE DEF T
  <2>2. ASSUME NEW k \in 1..Len(written) PROVE written[k] \in Packet
    <3>1. written[k] \in T
      BY <2>1
    <3>2. /\ written[k].data = [i \in 1..Len(written[k].data) |-> [p |-> k, i |-> i]]
          /\ written[k].data \in Seq(Byte)
          /\ written[k].granulepos = k - 1
      BY <2>1 DEF PacketOK
    <3>3. k \in 1..MaxPackets /\ k - 1 \in -1..MaxPackets
      <4>1. Len(written) \in Nat
        BY <2>1
      <4> QED
        BY <2>1, <4>1, StreamAssumption
    <3>4. written[k].data \in Seq([p : 1..MaxPackets, i : Nat])
      <4> DEFINE d == written[k].data
      <4>1. Len(d) \in Nat
        <5> HIDE DEF Byte
        <5> QED
          BY <3>2
      <4>2. d = [i \in 1..Len(d) |-> [p |-> k, i |-> i]]
        BY <3>2
      <4>3. \A i \in 1..Len(d) : [p |-> k, i |-> i] \in [p : 1..MaxPackets, i : Nat]
        BY <3>3
      <4> DEFINE n == Len(d)
                 B == [p : 1..MaxPackets, i : Nat]
                 e == [i \in 1..n |-> [p |-> k, i |-> i]]
      <4>4. \A i \in 1..n : e[i] \in B
        BY <4>3
      <4>5. d = e /\ n \in Nat
        BY <4>1, <4>2
      <4>6. e \in [1..n -> B]
        BY <4>3
      <4> HIDE DEF n, B, e
      <4>7. e \in Seq(B)
        BY <4>5, <4>6
      <4> QED
        BY <4>5, <4>7 DEF B
    <3>5. written[k] \in [data : Seq([p : 1..MaxPackets, i : Nat]), granulepos : -1..MaxPackets,
                          eos : BOOLEAN]
      <4> DEFINE D == Seq([p : 1..MaxPackets, i : Nat])
                 G == -1..MaxPackets
      <4>1. written[k].data \in D /\ written[k].granulepos \in G
        BY <3>2, <3>3, <3>4
      <4> HIDE DEF D, G
      <4>2. /\ written[k] = [data |-> written[k].data, granulepos |-> written[k].granulepos,
                            eos |-> written[k].eos]
            /\ written[k].eos \in BOOLEAN
        <5> DEFINE S == Seq(Byte)
        <5>1. written[k] \in [data : S, granulepos : Int, eos : BOOLEAN]
          BY <3>1 DEF T
        <5> HIDE DEF S
        <5> QED
          BY <5>1
      <4>3. written[k] \in [data : D, granulepos : G, eos : BOOLEAN]
        BY <4>1, <4>2
      <4> QED
        BY <4>3 DEF D, G
    <3> QED
      BY <3>5 DEF Packet
  <2>3. Len(written) \in Nat /\ written = [k \in 1..Len(written) |-> written[k]]
    BY <2>1
  <2> HIDE DEF Packet
  <2> QED
    BY <2>2, <2>3
<1>4. StreamOK(ws)
  BY <1>2 DEF WriterOK
<1>5. StreamOK(rs) /\ offset \in 0..Len(file) /\ sync.headed \in BOOLEAN /\ sync.bodybytes \in Nat
  <2>1. CASE phase = "reading"
    <3>1. Reading(written, pages, sc, file, faults, sync, offset, rs, pos, got)
      BY <1>1, <2>1 DEF Core
    <3> QED
      BY <3>1 DEF Reading, ReaderOK, Holds, SyncOK
  <2>2. CASE phase # "reading"
    <3>1. sync = SyncInit /\ offset = 0 /\ rs = StreamInit(Serial)
      BY <1>1, <2>2 DEF Core, ReaderRests
    <3>2. Len(file) \in Nat
      BY <1>2 DEF FileOK
    <3>3. sync.headed = FALSE /\ sync.bodybytes = 0
      BY <3>1 DEF SyncInit
    <3>4. sync.headed \in BOOLEAN /\ sync.bodybytes \in Nat
      <4>1. sync.headed \in BOOLEAN
        BY <3>3, Zenon
      <4>2. sync.bodybytes \in Nat
        BY <3>3
      <4> QED
        BY <4>1, <4>2, Zenon
    <3> DEFINE os == StreamInit(Serial)
    <3>5. os = [body |-> <<>>, lacing |-> <<>>, packet |-> 0, bos |-> FALSE, eos |-> FALSE,
                pageno |-> 0, packetno |-> 0, granulepos |-> 0, serialno |-> 1]
      BY DEF StreamInit, Serial
    <3> HIDE DEF os
    <3>6. StreamOK(os)
      <4>1. /\ os.body = <<>> /\ os.lacing = <<>> /\ os.packet = 0
            /\ Len(os.lacing) = 0 /\ Len(os.body) = 0
        BY <3>5
      <4>2. os.body \in Seq(Byte) /\ os.lacing \in Seq(SegType)
        BY <4>1
      <4>3. os \in Stream
        BY <3>5, <4>2 DEF Stream
      <4>4. Bytes(os.lacing, 0) = 0
        BY BytesAdds
      <4> QED
        BY <4>1, <4>3, <4>4 DEF StreamOK
    <3> QED
      BY <3>1, <3>2, <3>4, <3>6 DEF os
  <2> QED
    BY <2>1, <2>2
<1>6. ASSUME NEW os \in {ws, rs}
      PROVE  /\ os.packet \in 0..Len(os.lacing)
             /\ Bytes(os.lacing, Len(os.lacing)) = Len(os.body)
             /\ \A i \in 1..Len(os.lacing) : os.lacing[i].val \in 0..Full
  <2>1. StreamOK(os)
    BY <1>4, <1>5
  <2> QED
    BY <2>1, StreamLaid DEF StreamOK
<1> QED
  BY <1>2, <1>3, <1>5, <1>6 DEF TypeOK

\* Nothing is got before the file is open.
LEMMA NothingGot ==
  ASSUME NEW sc, NEW pos, Core(sc, pos), phase # "reading"
  PROVE  Delivered = {} /\ Len(got) = 0
<1>1. got = <<>>
  BY DEF Core, ReaderRests
<1> QED
  BY <1>1 DEF Delivered

LEMMA InvHoles == IInv => HolesAreReported
<1> SUFFICES ASSUME IInv PROVE HolesAreReported
  OBVIOUS
<1>1. PICK sc, pos : Core(sc, pos)
  BY DEF IInv
<1>2. CASE phase # "reading"
  <2>1. Delivered = {} /\ Len(got) = 0
    BY <1>1, <1>2, NothingGot
  <2>2. 1..Len(got) = {}
    BY <2>1
  <2> QED
    BY <2>1, <2>2, Zenon DEF HolesAreReported
<1>3. CASE phase = "reading"
  <2>1. Reading(written, pages, sc, file, faults, sync, offset, rs, pos, got)
    BY <1>1, <1>3, CoreReading
  <2>2. InOrder(got) /\ (faults = 0 => NoHoles(rs, got))
    BY <2>1 DEF Reading, GotOK, GotAt
  <2>3. Delivered = Got(got)
    BY DEF Delivered, Got
  <2>4. faults = 0 => Delivered = 1..Len(got)
    BY <2>2 DEF NoHoles, Delivered
  <2> QED
    BY <2>2, <2>3, <2>4 DEF InOrder, HolesAreReported
<1> QED
  BY <1>2, <1>3

LEMMA InvWhole == IInv => PacketsAreWhole
<1> SUFFICES ASSUME IInv PROVE PacketsAreWhole
  OBVIOUS
<1>1. PICK sc, pos : Core(sc, pos)
  BY DEF IInv
<1>2. CASE phase # "reading"
  BY <1>1, <1>2, NothingGot DEF PacketsAreWhole
<1>3. CASE phase = "reading"
  <2>1. /\ Static(written, pages, sc, file, faults)
        /\ Reading(written, pages, sc, file, faults, sync, offset, rs, pos, got)
    BY <1>1, <1>3, CoreReading
  <2>2. PacketsOK(written) /\ IsScript(written, sc) /\ PagesOK(written, pages, sc)
    BY <2>1 DEF Static
  <2>3. ASSUME NEW i \in Delivered
        PROVE  LET p == got[i].p
               IN  /\ p.data = written[Id(p)].data
                   /\ p.granulepos \in {-1, written[Id(p)].granulepos}
                   /\ p.granulepos = -1 => /\ Id(p) < MaxPackets
                                           /\ EndPage(Id(p)) = EndPage(Id(p) + 1)
                   /\ p.eos => Id(p) = MaxPackets /\ written[MaxPackets].eos
                   /\ p.bos => Id(p) = 1
    <3> DEFINE p == got[i].p
               k == Id(p)
    <3>1. IsPacket(written, pages, sc, p, k)
      <4>1. i \in Got(got)
        BY DEF Delivered, Got
      <4> QED
        BY <2>1, <4>1 DEF Reading, GotOK, GotAt
    <3> HIDE DEF p, k
    <3>2. /\ k \in 1..Len(written) /\ p.data = written[k].data
          /\ \/ p.granulepos = k - 1
             \/ p.granulepos = -1 /\ k < MaxPackets /\ EndTogether(written, pages, sc, k)
          /\ p.eos = TRUE => k = MaxPackets /\ AtEnd(written)
          /\ p.bos = TRUE => k = 1
      BY <3>1 DEF IsPacket
    <3>3. written[k].granulepos = k - 1
      BY <2>2, <3>2 DEF PacketsOK, PacketOK
    <3>4. k \in Nat /\ k - 1 # -1
      <4>1. Len(written) \in Nat
        BY <2>2 DEF PacketsOK
      <4> QED
        BY <3>2, <4>1
    <3>5. EndTogether(written, pages, sc, k) => EndPage(k) = EndPage(k + 1)
      <4> SUFFICES ASSUME EndTogether(written, pages, sc, k)
                   PROVE  EndPage(k) = EndPage(k + 1)
        OBVIOUS
      <4>1. PICK j \in 1..Len(pages) : /\ EndsOn(written, pages, sc, k, j)
                                       /\ EndsOn(written, pages, sc, k + 1, j)
        BY DEF EndTogether
      <4>2. EndPage(k) = j
        BY <2>2, <3>4, <4>1, EndPageIs
      <4>3. EndPage(k + 1) = j
        BY <2>2, <3>4, <4>1, EndPageIs
      <4> QED
        BY <4>2, <4>3
    <3>6. p.granulepos \in {-1, written[k].granulepos}
      BY <3>2, <3>3
    <3>7. p.granulepos = -1 => k < MaxPackets /\ EndPage(k) = EndPage(k + 1)
      BY <3>2, <3>4, <3>5
    <3>8. p.eos => k = MaxPackets /\ written[MaxPackets].eos
      BY <3>2 DEF AtEnd
    <3>9. p.bos => k = 1
      BY <3>2
    <3> QED
      BY <3>2, <3>6, <3>7, <3>8, <3>9 DEF p, k
  <2> QED
    BY <2>3 DEF PacketsAreWhole
<1> QED
  BY <1>2, <1>3

\* The lacing table of either stream state accounts for every byte of its body
\* at each step, no value passes 255, and what may be returned is within it.
THEOREM StreamTypes == Spec => []TypeOK
<1>1. Init => IInv
  BY InitInv
<1>2. IInv /\ [Next]_vars => IInv'
  BY StepKeeps
<1>3. IInv => TypeOK
  BY InvTypeOK
<1> QED
  BY <1>1, <1>2, <1>3, PTL DEF Spec

\* What ogg_stream_packetout hands out is, byte for byte, a packet that
\* ogg_stream_packetin was given, whatever was lost or damaged and wherever the
\* reader began; its position is the one it was given with, or none when a later
\* packet ends on its page too; only the last one ends the stream.
THEOREM PacketsComeOutWhole == Spec => []PacketsAreWhole
<1>1. Init => IInv
  BY InitInv
<1>2. IInv /\ [Next]_vars => IInv'
  BY StepKeeps
<1>3. IInv => PacketsAreWhole
  BY InvWhole
<1> QED
  BY <1>1, <1>2, <1>3, PTL DEF Spec

\* Packets come out in the order of writing, none twice, and where one is left
\* out ogg_stream_packetout has reported a hole before the next; a file that
\* nobody damaged shows none, though the reader began in the middle of it.
THEOREM HolesComeOut == Spec => []HolesAreReported
<1>1. Init => IInv
  BY InitInv
<1>2. IInv /\ [Next]_vars => IInv'
  BY StepKeeps
<1>3. IInv => HolesAreReported
  BY InvHoles
<1> QED
  BY <1>1, <1>2, <1>3, PTL DEF Spec

\* A page that is all there has been taken once the file is read.
LEMMA IntactTaken ==
  ASSUME pages \in Seq(PageType), FileOK(pages, file), SyncOK(file, sync, offset),
         offset = Len(file), Len(sync.data) < HeadItems,
         NEW tk, Passed(pages, file, Done(sync, offset), tk),
         NEW j \in 1..Len(pages), Intact(j)
  PROVE  j \in tk
<1> DEFINE page == pages[j]
           n == Len(Items(page))
<1>1. page \in PageType
  OBVIOUS
<1>2. n \in Nat /\ n >= 2
  <2>1. Len(page.body) \in Nat /\ n = HeadItems + Len(page.body) /\ n \in Nat
    BY <1>1, ItemsOf
  <2>2. HeadItems = 2
    BY DEF HeadItems
  <2> QED
    BY <2>1, <2>2
<1>3. PICK i \in 1..(Len(file) - n + 1) : SubSeq(file, i, i + n - 1) = Items(page)
  BY DEF Intact
<1>4. PICK S : file \in Seq(S)
  BY DEF FileOK
<1>5. /\ Len(file) \in Nat /\ Len(sync.data) \in Nat /\ Len(sync.data) < 2
      /\ Done(sync, offset) = Len(file) - Len(sync.data)
  <2>1. DataIs(file, sync, offset)
    BY <1>4, DataOf
  <2> QED
    BY <2>1 DEF DataIs, Done, HeadItems
<1> HIDE DEF n
<1> DEFINE e == i - 1
           b == i + n - 1
<1>6. /\ e \in Nat /\ b \in Nat /\ e <= b /\ b <= Len(file) /\ e + 1 = i /\ b - e = n
      /\ e < Done(sync, offset)
  BY <1>2, <1>3, <1>5
<1> HIDE DEF page
<1>7. \A t \in 1..n : Items(page)[t] = file[e + t]
  <2> HIDE DEF e, b
  <2>1. \A t \in 1..(b - e) : SubSeq(file, e + 1, b)[t] = file[e + t]
    BY <1>4, <1>6, SubSeqIs
  <2>2. SubSeq(file, e + 1, b) = Items(page)
    BY <1>3, <1>6 DEF b
  <2> QED
    BY <1>6, <2>1, <2>2
<1>8. IsAt(file, e, page)
  BY <1>7 DEF IsAt, n
<1> HIDE DEF e
<1> QED
  BY <1>6, <1>8 DEF Passed, page

\* The byte of a segment that is the first of its packet.
LEMMA FirstByte ==
  ASSUME NEW w, PacketsOK(w), NEW x, IsMark(w, x), NEW t \in 1..SegVal(w, x),
         NEW k \in 1..Len(w), w[k].data # <<>>, Chunk(w, x)[t] = w[k].data[1]
  PROVE  x = Mark(k, 1)
<1> DEFINE d == w[x.p].data
           q == (x.s - 1) * Full
           r == Len(d) % Full
<1>1. /\ x = Mark(x.p, x.s) /\ x.p \in 1..Len(w) /\ x.s \in 1..Segs(w, x.p)
  BY DEF IsMark
<1>2. /\ Len(d) \in Nat /\ Segs(w, x.p) \in Nat \ {0} /\ r \in 0..(Full - 1)
      /\ Len(d) = Full * (Segs(w, x.p) - 1) + r
  BY <1>1, SegsOf
<1>3. Full \in Nat \ {0}
  BY FramingAssumption
<1> HIDE DEF r
<1>4. x.s \in Nat /\ x.s >= 1 /\ x.s - 1 \in Nat /\ q \in Nat
  <2>1. x.s \in Nat /\ x.s >= 1
    BY <1>1, <1>2
  <2> DEFINE z == x.s - 1
  <2>2. z \in Nat
    BY <2>1
  <2> HIDE DEF z
  <2>3. z * Full \in Nat
    BY <1>3, <2>2
  <2> QED
    BY <2>1, <2>2, <2>3 DEF z
<1>5. SegVal(w, x) = IF x.s < Segs(w, x.p) THEN Full ELSE r
  BY DEF SegVal, r
<1>6. t \in Nat /\ t >= 1
  <2>1. SegVal(w, x) \in 0..Full
    BY SegValOf
  <2> QED
    BY <1>3, <2>1
<1>7. q + t \in 1..Len(d)
  <2>1. CASE x.s < Segs(w, x.p)
    <3> DEFINE z == Segs(w, x.p) - 1 - x.s
    <3>1. z \in Nat /\ Segs(w, x.p) - 1 = x.s + z /\ t <= Full
      BY <1>1, <1>2, <1>4, <1>5, <2>1
    <3> HIDE DEF z
    <3>2. Full * (x.s + z) = Full * x.s + Full * z /\ Full * z \in Nat
          /\ Full * x.s = q + Full
      BY <1>3, <1>4, <3>1
    <3> HIDE DEF q, d, r
    <3>3. Full * (Segs(w, x.p) - 1) = Full * (x.s + z)
      BY <3>1
    <3>4. Full * (Segs(w, x.p) - 1) = q + Full + Full * z
      BY <1>3, <1>4, <3>2, <3>3
    <3> QED
      BY <1>2, <1>3, <1>4, <1>6, <3>1, <3>2, <3>4
  <2>2. CASE ~(x.s < Segs(w, x.p))
    <3>1. x.s = Segs(w, x.p) /\ t <= r
      BY <1>1, <1>2, <1>4, <1>5, <2>2
    <3>2. q = Full * (Segs(w, x.p) - 1)
      BY <1>3, <1>4, <3>1
    <3> HIDE DEF q, d, r
    <3> QED
      BY <1>2, <1>3, <1>4, <1>6, <3>1, <3>2
  <2> QED
    BY <2>1, <2>2
<1>8. Chunk(w, x)[t] = d[q + t]
  BY DEF Chunk
<1>9. \A m \in 1..Len(w) : w[m].data = [i \in 1..Len(w[m].data) |-> [p |-> m, i |-> i]]
  BY DEF PacketsOK, PacketOK
<1>10. d[q + t] = [p |-> x.p, i |-> q + t]
  <2>1. d = [i \in 1..Len(d) |-> [p |-> x.p, i |-> i]]
    BY <1>1, <1>9
  <2> HIDE DEF d, q
  <2> QED
    BY <1>7, <2>1
<1>11. w[k].data[1] = [p |-> k, i |-> 1]
  <2> DEFINE c == w[k].data
  <2>1. c = [i \in 1..Len(c) |-> [p |-> k, i |-> i]]
    BY <1>9
  <2>2. Len(c) \in Nat /\ Len(c) # 0
    <3>1. Len(c) \in Nat
      BY SegsOf
    <3>2. c \in Seq(Byte) /\ c # <<>>
      BY DEF PacketsOK, PacketOK
    <3> HIDE DEF c, Byte
    <3> QED
      BY <3>1, <3>2
  <2> HIDE DEF c
  <2>3. 1 \in 1..Len(c)
    BY <2>2
  <2>4. c[1] = [p |-> k, i |-> 1]
    BY <2>1, <2>3
  <2> QED
    BY <2>4 DEF c
<1> HIDE DEF d, q
<1>12. x.p = k /\ q + t = 1
  <2>1. [p |-> x.p, i |-> q + t] = [p |-> k, i |-> 1]
    BY <1>8, <1>10, <1>11
  <2> QED
    BY <2>1
<1>13. x.s = 1
  <2> SUFFICES ASSUME x.s # 1 PROVE FALSE
    OBVIOUS
  <2> DEFINE z == x.s - 2
  <2>1. z \in Nat /\ x.s - 1 = z + 1
    BY <1>4
  <2> HIDE DEF z
  <2>2. q = (z + 1) * Full
    BY <2>1 DEF q
  <2>3. (z + 1) * Full = z * Full + Full /\ z * Full \in Nat
    BY <1>3, <2>1
  <2> QED
    BY <1>3, <1>4, <1>6, <1>12, <2>2, <2>3
<1> QED
  BY <1>1, <1>12, <1>13

\* The page with the first byte of a packet is the one its first segment is on.
LEMMA BeginPageIs ==
  ASSUME NEW sc, PacketsOK(written), IsScript(written, sc), PagesOK(written, pages, sc),
         NEW k \in 1..Len(written), written[k].data # <<>>,
         NEW r \in 1..Len(sc), sc[r] = Mark(k, 1),
         NEW a \in 1..Len(pages), OnPage(pages, a, r)
  PROVE  BeginPage(k) = a
<1> DEFINE P(j) == \E i \in 1..Len(pages[j].body) : pages[j].body[i] = written[k].data[1]
           C(j) == Cut(pages, j)
           L(j) == LacingOf(pages[j])
           V(j) == Len(pages[j].segments)
           B(j) == pages[j].body
<1>1. /\ pages \in Seq(PageType) /\ Len(pages) \in Nat /\ Len(sc) \in Nat
  BY PagePlaces
<1>2. ASSUME NEW j \in 1..Len(pages)
      PROVE  /\ C(j - 1) \in Nat /\ V(j) \in Nat /\ C(j) = C(j - 1) + V(j)
             /\ \A m \in 1..V(j) :
                  /\ C(j - 1) + m \in 1..Len(sc)
                  /\ IsMark(written, sc[C(j - 1) + m])
                  /\ L(j)[m].val = SegVal(written, sc[C(j - 1) + m])
                  /\ Piece(L(j), B(j), m) = Chunk(written, sc[C(j - 1) + m])
                  /\ L(j)[m].val \in Nat
                  /\ Bytes(L(j), m - 1) \in Nat
                  /\ Bytes(L(j), m - 1) + L(j)[m].val <= Len(B(j))
             /\ Len(B(j)) \in Nat /\ Bytes(L(j), V(j)) = Len(B(j))
  <2>1. /\ C(j - 1) \in Nat /\ V(j) \in Nat /\ C(j) = C(j - 1) + V(j)
        /\ Laid(ValType, L(j), B(j)) /\ Len(L(j)) = V(j)
        /\ \A m \in 1..V(j) :
             /\ C(j - 1) + m \in 1..Len(sc)
             /\ IsMark(written, sc[C(j - 1) + m])
             /\ pages[j].segments[m] \in 0..Full
             /\ pages[j].segments[m] = SegVal(written, sc[C(j - 1) + m])
             /\ Piece(L(j), B(j), m) = Chunk(written, sc[C(j - 1) + m])
             /\ L(j)[m].val = pages[j].segments[m]
    <3>1. C(j - 1) \in Nat /\ V(j) \in Nat /\ C(j) = C(j - 1) + V(j)
      BY PagePlaces
    <3>2. Laid(ValType, L(j), B(j)) /\ Len(L(j)) = V(j)
      BY PagePlaces
    <3>3. ASSUME NEW m \in 1..V(j)
          PROVE  /\ C(j - 1) + m \in 1..Len(sc)
                 /\ IsMark(written, sc[C(j - 1) + m])
                 /\ pages[j].segments[m] \in 0..Full
                 /\ pages[j].segments[m] = SegVal(written, sc[C(j - 1) + m])
      BY PagePlaces
    <3>4. ASSUME NEW m \in 1..V(j)
          PROVE  /\ Piece(L(j), B(j), m) = Chunk(written, sc[C(j - 1) + m])
                 /\ L(j)[m].val = pages[j].segments[m]
      <4>1. Piece(L(j), B(j), m) = Chunk(written, sc[C(j - 1) + m])
        BY DEF PagesOK, PageOK, Carries
      <4>2. L(j)[m].val = pages[j].segments[m]
        BY DEF LacingOf
      <4> QED
        BY <4>1, <4>2
    <3> HIDE DEF C, L, V, B
    <3> QED
      BY <3>1, <3>2, <3>3, <3>4
  <2> HIDE DEF C, L, V, B
  <2>2. /\ Len(B(j)) \in Nat
        /\ \A m \in 0..V(j) : Bytes(L(j), m) \in 0..Len(B(j))
        /\ \A m \in 1..V(j) : /\ Bytes(L(j), m) = Bytes(L(j), m - 1) + L(j)[m].val
                              /\ Bytes(L(j), m - 1) \in Nat
    BY <2>1, LaidBytes
  <2>3. Bytes(L(j), V(j)) = Len(B(j))
    BY <2>1 DEF Laid
  <2>4. ASSUME NEW m \in 1..V(j)
        PROVE  L(j)[m].val \in Nat /\ Bytes(L(j), m - 1) + L(j)[m].val <= Len(B(j))
    <3>1. m \in 0..V(j)
      BY <2>1
    <3>2. Bytes(L(j), m) <= Len(B(j))
      BY <2>2, <3>1
    <3>3. L(j)[m].val \in Nat
      <4>1. L(j)[m].val \in 0..Full
        BY <2>1
      <4> QED
        BY <4>1, FramingAssumption
    <3>4. Bytes(L(j), m) = Bytes(L(j), m - 1) + L(j)[m].val
      BY <2>2
    <3> QED
      BY <3>2, <3>3, <3>4
  <2> QED
    BY <2>1, <2>2, <2>3, <2>4
<1> HIDE DEF C, L, V, B
\* It has that byte.
<1>3. P(a)
  <2> DEFINE m == r - C(a - 1)
  <2>1. r \in (C(a - 1) + 1)..C(a)
    BY DEF OnPage, C
  <2>2. m \in 1..V(a) /\ C(a - 1) + m = r
    BY <1>2, <2>1
  <2> HIDE DEF m
  <2>3. SegVal(written, Mark(k, 1)) >= 1 /\ SegVal(written, Mark(k, 1)) \in Nat
    <3>1. /\ Len(written[k].data) \in Nat /\ Segs(written, k) \in Nat \ {0}
          /\ Len(written[k].data) % Full \in 0..(Full - 1)
          /\ Len(written[k].data) = Full * (Segs(written, k) - 1) + (Len(written[k].data) % Full)
      BY SegsOf
    <3>2. Full \in Nat \ {0}
      BY FramingAssumption
    <3>3. SegVal(written, Mark(k, 1)) = IF 1 < Segs(written, k) THEN Full
                                        ELSE Len(written[k].data) % Full
      BY MarkFields DEF SegVal
    <3>4. Len(written[k].data) # 0
      <4>1. written[k].data \in Seq(Byte)
        BY DEF PacketsOK, PacketOK
      <4> HIDE DEF Byte
      <4> QED
        BY <4>1
    <3>5. CASE 1 < Segs(written, k)
      BY <3>2, <3>3, <3>5
    <3>6. CASE ~(1 < Segs(written, k))
      <4>1. Segs(written, k) - 1 = 0
        BY <3>1, <3>6
      <4>2. Full * (Segs(written, k) - 1) = 0
        BY <3>2, <4>1
      <4> DEFINE u == Len(written[k].data) % Full
      <4> HIDE DEF u
      <4>3. Len(written[k].data) = u /\ u \in 0..(Full - 1)
        BY <3>1, <4>2 DEF u
      <4>4. SegVal(written, Mark(k, 1)) = u
        BY <3>3, <3>6 DEF u
      <4> QED
        BY <3>1, <3>2, <3>4, <4>3, <4>4
    <3> QED
      BY <3>5, <3>6
  <2>4. /\ sc[C(a - 1) + m] = Mark(k, 1)
        /\ L(a)[m].val = SegVal(written, Mark(k, 1))
        /\ Piece(L(a), B(a), m) = Chunk(written, Mark(k, 1))
        /\ Bytes(L(a), m - 1) \in Nat /\ Bytes(L(a), m - 1) + L(a)[m].val <= Len(B(a))
        /\ Len(B(a)) \in Nat
    <3>1. sc[C(a - 1) + m] = Mark(k, 1)
      BY <2>2
    <3> QED
      BY <1>2, <2>2, <3>1
  <2> DEFINE v == SegVal(written, Mark(k, 1))
             x == Mark(k, 1)
  <2>5. Piece(L(a), B(a), m)[1] = B(a)[Bytes(L(a), m - 1) + 1]
    <3> HIDE DEF v
    <3>1. 1 \in 1..L(a)[m].val
      BY <2>3, <2>4
    <3> QED
      BY <3>1 DEF Piece
  <2>6. Chunk(written, x)[1] = written[k].data[1]
    <3> DEFINE d == written[k].data
    <3>1. Chunk(written, x) = [t \in 1..v |-> d[(1 - 1) * Full + t]]
      BY MarkFields DEF Chunk
    <3> HIDE DEF x, v, d
    <3>2. 1 \in 1..v
      BY <2>3 DEF v
    <3>3. (1 - 1) * Full + 1 = 1
      BY FramingAssumption
    <3>4. Chunk(written, x)[1] = d[(1 - 1) * Full + 1]
      BY <3>1, <3>2
    <3> QED
      BY <3>3, <3>4 DEF d
  <2>7. Bytes(L(a), m - 1) + 1 \in 1..Len(B(a))
    BY <2>3, <2>4
  <2>8. B(a)[Bytes(L(a), m - 1) + 1] = written[k].data[1]
    BY <2>4, <2>5, <2>6
  <2> QED
    BY <2>7, <2>8 DEF B
\* No other does.
<1>4. ASSUME NEW j \in 1..Len(pages), P(j) PROVE j = a
  <2>1. PICK i \in 1..Len(B(j)) : B(j)[i] = written[k].data[1]
    BY <1>4 DEF B
  <2>2. i \in 1..Bytes(L(j), V(j)) /\ V(j) \in Nat /\ \A m \in 1..V(j) : L(j)[m].val \in Nat
    BY <1>2
  <2>3. PICK m \in 1..V(j) : \E t \in 1..L(j)[m].val : i = Bytes(L(j), m - 1) + t
    BY <2>2, ByteIn
  <2>4. PICK t \in 1..L(j)[m].val : i = Bytes(L(j), m - 1) + t
    BY <2>3
  <2> DEFINE y == C(j - 1) + m
             x == sc[y]
  <2>5. /\ y \in 1..Len(sc) /\ IsMark(written, x) /\ t \in 1..SegVal(written, x)
        /\ Piece(L(j), B(j), m) = Chunk(written, x)
    BY <1>2
  <2>6. Piece(L(j), B(j), m)[t] = B(j)[i]
    BY <2>4 DEF Piece
  <2> HIDE DEF y
  <2>7. Chunk(written, x)[t] = written[k].data[1]
    BY <2>1, <2>5, <2>6
  <2>8. x = Mark(k, 1)
    BY <2>5, <2>7, FirstByte
  <2>9. y = r
    BY <2>5, <2>8, FirstPlace
  <2>10. OnPage(pages, j, r)
    <3>1. C(j - 1) \in Nat /\ V(j) \in Nat /\ C(j) = C(j - 1) + V(j)
      BY <1>2
    <3>2. y \in (C(j - 1) + 1)..C(j)
      BY <3>1 DEF y
    <3> QED
      BY <2>9, <3>2 DEF OnPage, C
  <2>11. j <= a /\ a <= j
    <3>1. r \in Int /\ r <= r
      OBVIOUS
    <3> QED
      BY <1>1, <2>10, <3>1, PagesInOrder
  <2> QED
    BY <1>1, <2>11
<1> HIDE DEF P
<1>5. BeginPage(k) = CHOOSE j \in 1..Len(pages) : P(j)
  BY DEF BeginPage, P
<1> QED
  BY <1>3, <1>4, <1>5

\* The pages a packet lies on: from that of its first segment to that of its
\* last, and every segment of it is on one of them.
LEMMA PagesOfPacket ==
  ASSUME NEW sc, PacketsOK(written), IsScript(written, sc), PagesOK(written, pages, sc),
         Len(sc) = Cut(pages, Len(pages)),
         NEW k \in 1..Len(written), NEW r \in 1..Len(sc), sc[r] = Mark(k, Segs(written, k)),
         NEW x \in First(sc, r)..r
  PROVE  /\ x \in 1..Len(sc)
         /\ \E j \in 1..Len(pages) : /\ OnPage(pages, j, x)
                                     /\ j \in BeginPage(k)..EndPage(k)
<1> DEFINE n == Segs(written, k)
           h == First(sc, r)
<1>1. /\ pages \in Seq(PageType) /\ Len(pages) \in Nat /\ Len(sc) \in Nat
      /\ n \in Nat /\ n >= 1 /\ k \in Nat
  <2>1. n \in Nat \ {0} /\ Len(written) \in Nat
    BY SegsOf
  <2>2. Len(sc) \in Nat
    BY ScriptMarks
  <2> QED
    BY <2>1, <2>2 DEF PagesOK
<1>2. sc[r].p = k /\ sc[r].s = n
  BY MarkFields
<1> HIDE DEF n
<1>3. h = r - (n - 1) /\ n - 1 \in Nat /\ n - 1 < n /\ n - (n - 1) = 1
  BY <1>1, <1>2 DEF First
<1>4. h \in 1..Len(sc) /\ sc[h] = Mark(k, 1) /\ h <= r
  <2>1. PICK t \in Nat : t = n - 1
    BY <1>3
  <2>2. t < sc[r].s
    BY <1>2, <1>3, <2>1
  <2>3. r - t \in 1..Len(sc) /\ sc[r - t] = Mark(sc[r].p, sc[r].s - t)
    BY <2>2, ScriptBack
  <2>4. r - t = h /\ sc[r].s - t = 1
    BY <1>2, <1>3, <2>1
  <2>5. sc[h] = Mark(k, 1)
    BY <1>2, <2>3, <2>4
  <2>6. h <= r
    BY <1>1, <1>3
  <2> QED
    BY <2>3, <2>4, <2>5, <2>6
<1> HIDE DEF h
<1>5. x \in h..r
  BY DEF h
<1>6. x \in 1..Len(sc) /\ x \in Int /\ h \in Int /\ r \in Int /\ h <= x /\ x <= r
  BY <1>1, <1>4, <1>5
<1>7. PICK b \in 1..Len(pages) : OnPage(pages, b, r)
  BY <1>1, PageOfPlace
<1>8. PICK a \in 1..Len(pages) : OnPage(pages, a, h)
  BY <1>1, <1>4, PageOfPlace
<1>9. PICK j \in 1..Len(pages) : OnPage(pages, j, x)
  BY <1>1, <1>6, PageOfPlace
<1>10. EndPage(k) = b
  <2>1. EndsOn(written, pages, sc, k, b)
    BY <1>7 DEF EndsOn, OnPage
  <2> QED
    BY <1>1, <2>1, EndPageIs
<1>11. BeginPage(k) = a
  <2>1. CASE written[k].data # <<>>
    BY <1>4, <1>8, <2>1, BeginPageIs
  <2>2. CASE written[k].data = <<>>
    <3>1. BeginPage(k) = b
      BY <1>10, <2>2 DEF BeginPage
    <3>2. n = 1
      <4>1. Len(written[k].data) = 0
        BY <2>2
      <4>2. 0 \div Full = 0
        BY FramingAssumption
      <4> QED
        BY <4>1, <4>2 DEF n, Segs
    <3>3. h = r
      BY <1>3, <1>6, <3>2
    <3>4. a <= b /\ b <= a
      <4>1. OnPage(pages, a, r) /\ OnPage(pages, b, r) /\ r <= r
        BY <1>6, <1>7, <1>8, <3>3
      <4> QED
        BY <1>1, <1>6, <4>1, PagesInOrder
    <3> QED
      BY <1>1, <3>1, <3>4
  <2> QED
    BY <2>1, <2>2
<1>12. a <= j
  BY <1>1, <1>6, <1>8, <1>9, PagesInOrder
<1>13. j <= b
  BY <1>1, <1>6, <1>7, <1>9, PagesInOrder
<1>14. j \in BeginPage(k)..EndPage(k)
  BY <1>10, <1>11, <1>12, <1>13
<1> QED
  BY <1>6, <1>9, <1>14

LEMMA InvDamage == IInv => OnlyDamagedIsLost
<1> SUFFICES ASSUME IInv, Finished, seeks = 0,
                    NEW k \in 1..MaxPackets,
                    \A j \in BeginPage(k)..EndPage(k) : Intact(j)
             PROVE  \E i \in Delivered : Id(got[i].p) = k
  BY DEF OnlyDamagedIsLost
<1>1. PICK sc, pos : Core(sc, pos)
  BY DEF IInv
<1>2. /\ phase = "reading" /\ offset = Len(file) /\ NeedsMore(sync) /\ ~Seen(sync).headed
      /\ ~PacketWaits(rs)
  BY DEF Finished
<1>3. /\ Static(written, pages, sc, file, faults)
      /\ Reading(written, pages, sc, file, faults, sync, offset, rs, pos, got)
      /\ Kept(written, pages, sc, file, sync, offset, rs, pos, got)
  BY <1>1, <1>2, CoreReading
<1>4. /\ PacketsOK(written) /\ IsScript(written, sc) /\ PagesOK(written, pages, sc)
      /\ FileOK(pages, file) /\ SyncOK(file, sync, offset) /\ pages \in Seq(PageType)
      /\ ReaderOK(written, pages, sc, rs, pos)
  BY <1>3 DEF Static, Reading, PagesOK
<1>5. Len(sc) = Cut(pages, Len(pages)) /\ Len(written) = MaxPackets
  <2>1. /\ WriterOK(written, pages, ws, sc) /\ ws.lacing = <<>>
        /\ Len(written) = MaxPackets
    BY <1>1, <1>2 DEF Core
  <2>2. Len(sc) = Cut(pages, Len(pages)) + 0
    BY <2>1 DEF WriterOK
  <2>3. Cut(pages, Len(pages)) \in Nat
    <3>1. Len(pages) \in 0..Len(pages)
      BY <1>4
    <3> QED
      BY <1>4, <3>1, CutSteps
  <2> QED
    BY <2>1, <2>2, <2>3
<1>6. Len(sync.data) < HeadItems
  BY <1>2 DEF NeedsMore
<1>7. PICK tk : /\ Came(written, pages, sc, rs, pos, got, tk)
                /\ Passed(pages, file, Done(sync, offset), tk)
  BY <1>3 DEF Kept
<1>8. PICK r \in 1..Len(sc) : sc[r] = Mark(k, Segs(written, k))
  BY <1>4, <1>5, EndsExist
<1>9. Whole(pages, sc, tk, r)
  <2>1. ASSUME NEW x \in First(sc, r)..r PROVE OnPages(pages, tk, x)
    <3>1. PICK j \in 1..Len(pages) : /\ OnPage(pages, j, x)
                                     /\ j \in BeginPage(k)..EndPage(k)
      BY <1>4, <1>5, <1>8, PagesOfPacket
    <3>2. Intact(j)
      BY <3>1
    <3>3. j \in tk
      BY <1>2, <1>4, <1>6, <1>7, <3>2, IntactTaken
    <3> QED
      BY <3>1, <3>3 DEF OnPages
  <2> QED
    BY <2>1 DEF Whole
<1>10. Ends(written, sc[r]) /\ sc[r].p = k
  BY <1>8, MarkFields DEF Ends
<1>11. HeldAt(rs, pos, r) \/ GotIt(got, k)
  BY <1>7, <1>9, <1>10 DEF Came
<1>12. ~HeldAt(rs, pos, r)
  <2> SUFFICES ASSUME NEW i \in 1..Len(rs.lacing), rs.lacing[i].hole = FALSE, pos[i] = r
               PROVE  FALSE
    BY DEF HeldAt
  <2>1. rs.packet \in 0..Len(rs.lacing) /\ Len(rs.lacing) \in Nat
    BY <1>4, HeldEnds
  <2>2. Ends(written, sc[pos[i]])
    BY <1>10
  <2>3. i \in 1..rs.packet
    BY <1>4, <2>2, HeldEnds
  <2>4. ~(rs.packet > 0)
    BY <1>2 DEF PacketWaits
  <2> QED
    BY <2>1, <2>3, <2>4
<1>13. PICK i \in Got(got) : Id(got[i].p) = k
  BY <1>11, <1>12 DEF GotIt
<1>14. i \in Delivered
  BY <1>13 DEF Got, Delivered
<1> QED
  BY <1>13, <1>14

\* Read from its beginning to its end, a damaged file costs the packets on the
\* pages that were hit and no others: ogg_sync_pageseek comes upon every page
\* that is intact, and ogg_stream_pagein and _packetout lose no packet all of
\* whose pages are.
THEOREM DamageStaysLocal == Spec => []OnlyDamagedIsLost
<1>1. Init => IInv
  BY InitInv
<1>2. IInv /\ [Next]_vars => IInv'
  BY StepKeeps
<1>3. IInv => OnlyDamagedIsLost
  BY InvDamage
<1> QED
  BY <1>1, <1>2, <1>3, PTL DEF Spec
=============================================================================
