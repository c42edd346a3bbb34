------------------------------ MODULE SdoProofs ------------------------------
(***************************************************************************)
(* Proofs about Sdo for every dictionary, buffer size and job, with any    *)
(* number of frames lost or doubled.                                       *)
(*                                                                         *)
(* First the invariant of both ends, SdoInv, and what it says of their     *)
(* buffers.  Then what SdoTransferProofs builds on: parts of sequences,    *)
(* what the server's functions do with the data, what is under way between *)
(* the two ends, and what a server does that takes or sends a frame.       *)
(***************************************************************************)
EXTENDS Sdo, SequenceTheorems, WellFoundedInduction, TLAPS

(* The types.  A frame carries as much data as its kind has room for.      *)
Data == Seq(Nat)
Bit == {0, 1}

Commands ==
  {"download", "upload", "blkDownload", "blkUpload", "segment", "next", "block", "subBlock",
   "blkStart", "blkEnd", "blkEndOk", "downloadOk", "uploadOk", "segmentOk", "blkDownloadOk",
   "blkUploadOk", "abort"}

FrameRecord ==
  [c : Commands, idx : Obj \cup {None}, exp : Bit, ind : Nat, t : Bit, last : Bit,
   data : Data, seq : Nat, blk : Nat, crc : Data]

FrameOK(f) ==
  /\ f.c = "block" => Len(f.data) = Seg
  /\ f.c = "subBlock" => f.data = <<>> /\ f.last = 0
  /\ f.c = "segment" => Len(f.data) <= Seg
  /\ f.c = "download" /\ f.exp = 1 => Len(f.data) = Exped /\ f.ind <= Exped
  /\ f.c = "uploadOk" /\ f.exp = 1 => Len(f.data) = f.ind /\ f.ind <= Exped
  /\ f.c = "blkEnd" => f.ind <= Seg

Frames == {f \in FrameRecord : FrameOK(f)}

DownRequest == {"DOWNLOAD_INITIATE_REQ", "DOWNLOAD_BLK_INITIATE_REQ"}
DownStart == {"DOWNLOAD_INITIATE_RSP", "DOWNLOAD_BLK_INITIATE_RSP"}
DownSegment == {"DOWNLOAD_SEGMENT_REQ", "DOWNLOAD_SEGMENT_RSP"}
DownBlock == {"DOWNLOAD_BLK_SUBBLOCK_REQ", "DOWNLOAD_BLK_SUBBLOCK_RSP", "DOWNLOAD_BLK_END_REQ"}
UpRequest == {"UPLOAD_INITIATE_REQ", "UPLOAD_BLK_INITIATE_REQ"}
UpStart == {"UPLOAD_INITIATE_RSP", "UPLOAD_SEGMENT_REQ", "UPLOAD_SEGMENT_RSP",
            "UPLOAD_BLK_INITIATE_RSP", "UPLOAD_BLK_INITIATE_REQ2"}
UpBlock == {"UPLOAD_BLK_SUBBLOCK_SREQ", "UPLOAD_BLK_SUBBLOCK_CRSP"}
Others == {"IDLE", "ABORT", "DOWNLOAD_BLK_END_RSP", "UPLOAD_BLK_END_SREQ", "UPLOAD_BLK_END_CRSP"}
States == DownRequest \cup DownStart \cup DownSegment \cup DownBlock
            \cup UpRequest \cup UpStart \cup UpBlock \cup Others

SrvRecord ==
  [st : States, idx : Obj \cup {None}, ind : Nat, tran : Nat, fin : Bit, t : Bit, buf : Data,
   rd : Nat, seq : Nat, blk : Nat, nod : Nat, crc : Data, rx : Frames \cup {None}, half : Bit,
   out : Seq(Frames), pos : Nat, len : Nat, od : [Obj -> Data]]

CliRecord ==
  [st : States, idx : Obj \cup {None}, ind : Nat, tran : Int, fin : Bit, t : Bit, fifo : Data,
   alt : Nat, seq : Nat, blk : Nat, nod : Nat, crc : Data, lastSeg : Data,
   rx : Frames \cup {None}, half : Bit, out : Seq(Frames), more : Data, got : Data,
            ret : {"none", "ok", "abort", "closed"}]

\* The object is at hand, from the place to write or read on.
AtPlace(s) == s.idx \in Obj /\ s.pos <= s.len /\ s.len <= Len(s.od[s.idx])

SrvBase(s) ==
  s \in SrvRecord /\ s.rd <= Len(s.buf) /\ Len(s.buf) <= Buf /\ s.nod <= Seg

\* What holds in each state. A block is taken with room for its segments and for
\* the end of a text, and uploaded from a place that can be gone back from.
SrvAt(s) ==
  /\ s.st \notin DownRequest \cup UpRequest
  /\ s.st \in DownStart \cup DownSegment \cup DownBlock => AtPlace(s)
  /\ s.st \in DownSegment \cup DownBlock => s.rd = 0
  /\ s.st \in DownSegment => Len(s.buf) + Seg + 2 <= Buf
  /\ s.st \in DownBlock => Len(s.buf) <= s.tran
  /\ s.st = "DOWNLOAD_BLK_SUBBLOCK_REQ" => Len(s.buf) + (s.blk - s.seq) * Seg <= Buf - 2
  /\ s.st \in UpStart \cup UpBlock => s.rd <= s.tran /\ (s.fin = 0 => AtPlace(s))
  /\ s.st = "UPLOAD_INITIATE_RSP" /\ s.ind > 0 /\ s.ind <= Exped => s.ind <= Len(s.buf)
  /\ s.st = "UPLOAD_BLK_SUBBLOCK_SREQ" /\ s.seq > 0 => s.nod = 0
  /\ s.st \in UpBlock /\ s.seq > 0 => s.seq * Seg <= s.rd + s.nod

SrvOK(s) == SrvBase(s) /\ SrvAt(s)

DownSending == {"DOWNLOAD_BLK_SUBBLOCK_REQ", "DOWNLOAD_BLK_SUBBLOCK_RSP"}
CliDown == DownRequest \cup DownStart \cup DownSegment \cup DownBlock \cup {"DOWNLOAD_BLK_END_RSP"}
UpAsked == {"UPLOAD_INITIATE_REQ", "UPLOAD_INITIATE_RSP", "UPLOAD_BLK_INITIATE_REQ",
            "UPLOAD_BLK_INITIATE_RSP"}
UpSegment == {"UPLOAD_SEGMENT_REQ", "UPLOAD_SEGMENT_RSP", "UPLOAD_BLK_INITIATE_REQ2"}
CliUp == UpAsked \cup UpSegment \cup UpBlock \cup {"UPLOAD_BLK_END_SREQ", "UPLOAD_BLK_END_CRSP"}

CliBase(k) == k \in CliRecord /\ Len(k.fifo) <= Fifo /\ k.nod <= Seg

\* An upload has nothing more to send and starts with an empty fifo; the last
\* segment of a block waits aside until the server says how much of it counts.
CliAt(k) ==
  /\ k.st \in CliUp => k.more = <<>>
  /\ k.st \in DownSending => k.alt <= Len(k.fifo)
  /\ k.st \in UpAsked => k.fifo = <<>>
  /\ k.st \in UpAsked \cup UpSegment => k.fin = 0
  /\ k.st \in {"UPLOAD_BLK_INITIATE_RSP", "UPLOAD_BLK_INITIATE_REQ2"} =>
       Len(k.fifo) + k.blk * Seg <= Fifo
  /\ k.st = "UPLOAD_BLK_SUBBLOCK_SREQ" => Len(k.fifo) + (k.blk - k.seq) * Seg <= Fifo
  /\ k.st \in UpBlock /\ k.fin = 1 => Len(k.lastSeg) = Seg
  /\ k.st = "UPLOAD_BLK_END_SREQ" => Len(k.lastSeg) = Seg

CliOK(k) == CliBase(k) /\ CliAt(k)

SdoInv ==
  /\ SrvOK(srv) /\ CliOK(cli)
  /\ toSrv \in Seq(Frames) /\ toCli \in Seq(Frames)
  /\ job \in Jobs \cup {None} /\ faults \in Nat
  /\ cli.st \in CliDown => job \in Jobs /\ job.op = "download"

(***************************************************************************)
(* Sequences.                                                              *)
(***************************************************************************)
LEMMA SubSeqIs ==
  ASSUME NEW d \in Data, NEW a \in Nat, NEW n \in Nat, a + n <= Len(d)
  PROVE  SubSeq(d, a + 1, a + n) \in Data /\ Len(SubSeq(d, a + 1, a + n)) = n
<1>1. CASE n = 0
  BY <1>1, SubSeqEmpty DEF Data
<1>2. CASE n > 0
  BY <1>2, SubSeqProperties DEF Data
<1> QED
  BY <1>1, <1>2

LEMMA LenIs == \A d \in Data : Len(d) \in Nat
BY DEF Data

LEMMA FrontIs ==
  ASSUME NEW d \in Data, NEW n \in Nat, n <= Len(d)
  PROVE  Front_(d, n) \in Data /\ Len(Front_(d, n)) = n
<1>1. CASE n = 0
  BY <1>1, SubSeqEmpty DEF Data, Front_
<1>2. CASE n > 0
  BY <1>2, SubSeqProperties DEF Data, Front_
<1> QED
  BY <1>1, <1>2

LEMMA RestIs ==
  ASSUME NEW d \in Data, NEW n \in Nat, n <= Len(d)
  PROVE  Rest(d, n) \in Data /\ Len(Rest(d, n)) = Len(d) - n
<1> DEFINE m == Len(d) - n
<1>1. m \in Nat /\ n + m = Len(d)
  BY DEF Data
<1>2. SubSeq(d, n + 1, n + m) \in Data /\ Len(SubSeq(d, n + 1, n + m)) = m
  <2> HIDE DEF m
  <2> QED
    BY <1>1, SubSeqIs
<1> QED
  BY <1>1, <1>2 DEF Rest

LEMMA CatIs ==
  ASSUME NEW d \in Data, NEW e \in Data
  PROVE  d \o e \in Data /\ Len(d \o e) = Len(d) + Len(e)
BY ConcatProperties DEF Data

LEMMA ZerosAre ==
  ASSUME NEW n \in Nat
  PROVE  Zeros(n) \in Data /\ Len(Zeros(n)) = n
BY DEF Zeros, Data

LEMMA PadIs ==
  ASSUME NEW d \in Data, Len(d) <= Seg
  PROVE  Pad(d) \in Data /\ Len(Pad(d)) = Seg
<1>1. Len(d) \in Nat /\ Seg - Len(d) \in Nat
  BY SdoAssumption DEF Data
<1>2. Zeros(Seg - Len(d)) \in Data /\ Len(Zeros(Seg - Len(d))) = Seg - Len(d)
  BY <1>1, ZerosAre
<1> QED
  BY <1>1, <1>2, CatIs, SdoAssumption DEF Pad

LEMMA LowIs ==
  ASSUME NEW a \in Nat, NEW b \in Nat
  PROVE  /\ Low(a, b) \in Nat /\ Low(a, b) <= a /\ Low(a, b) <= b
         /\ Low(a, b) = a \/ Low(a, b) = b
BY DEF Low

\* A set of numbers has a least one, and CHOOSE finds it.
LEMMA LeastIs ==
  ASSUME NEW S \in SUBSET Nat, S # {}
  PROVE  (CHOOSE m \in S : \A k \in S : m <= k) \in S
<1>1. PICK m \in S : \A k \in S : ~(<<k, m>> \in OpToRel(<, Nat))
  BY NatLessThanWellFounded, WFMin
<1>2. \A k \in S : ~(k < m)
  <2> SUFFICES ASSUME NEW k \in S, k < m PROVE FALSE
    OBVIOUS
  <2>1. <<k, m>> \in Nat \X Nat
    BY ONLY S \in SUBSET Nat, m \in S, k \in S
  <2>2. <<k, m>>[1] = k /\ <<k, m>>[2] = m
    OBVIOUS
  <2> QED
    BY <1>1, <2>1, <2>2, Zenon DEF OpToRel
<1>3. \A k \in S : m <= k
  BY <1>2
<1> QED
  BY <1>3

LEMMA TextLenIs ==
  ASSUME NEW d \in Data
  PROVE  TextLen(d) \in Nat /\ TextLen(d) <= Len(d)
<1> DEFINE z == {i \in 1..Len(d) : d[i] = 0}
           m == CHOOSE i \in z : \A k \in z : i <= k
<1>1. Len(d) \in Nat /\ z \in SUBSET Nat
  BY DEF Data
<1>2. TextLen(d) = IF z = {} THEN Len(d) ELSE IF m = 1 THEN 1 ELSE m - 1
  BY Zenon DEF TextLen
<1>3. CASE z = {}
  BY <1>1, <1>2, <1>3
<1>4. CASE z # {}
  <2>1. m \in z
    <3> HIDE DEF z
    <3> QED
      BY <1>1, <1>4, LeastIs
  <2>2. m \in 1..Len(d)
    BY <2>1
  <2> HIDE DEF m, z
  <2> QED
    BY <1>1, <1>2, <1>4, <2>2
<1> QED
  BY <1>3, <1>4

LEMMA DivIs ==
  ASSUME NEW a \in Nat, NEW b \in Nat \ {0}
  PROVE  a \div b \in Nat /\ (a \div b) * b <= a
OBVIOUS

LEMMA TimesIs ==
  ASSUME NEW a \in Nat, NEW b \in Nat, NEW c \in Nat, a <= b
  PROVE  /\ a * c \in Nat /\ a * c <= b * c
         /\ (b - a) * c = b * c - a * c
         /\ (b - a) * c \in Nat
         /\ (b + 1) * c = b * c + c
OBVIOUS

\* The segments a sub-block is asked for fit behind what the buffer holds.
LEMMA BlockIs ==
  ASSUME NEW s, Len(s.buf) \in Nat, s.buf = <<>> \/ ~(BlockSize(s) < Cap)
  PROVE  /\ BlockSize(s) \in Nat /\ BlockSize(s) * Seg \in Nat
         /\ Len(s.buf) + BlockSize(s) * Seg <= Buf - 2
<1> DEFINE l == Len(s.buf)
           d == (Buf - 2) - l
           x == d \div Seg
           n == Low(x, Cap)
<1>1. l \in Nat /\ Seg \in Nat \ {0} /\ Buf - 2 \in Nat /\ Cap \in Nat \ {0} /\ d \in Int
  BY SdoAssumption
<1>2. BlockSize(s) = n
  BY DEF BlockSize
<1>3. d >= 0
  <2>1. CASE s.buf = <<>>
    BY ONLY <1>1, <2>1
  <2>2. CASE s.buf # <<>> /\ d < 0
    <3>1. x \in Int /\ x < 0
      <4> HIDE DEF d
      <4> QED
        BY ONLY <1>1, <2>2
    <3>2. ~(n < Cap)
      <4> HIDE DEF n
      <4> QED
        BY ONLY <1>2, <2>2, s.buf = <<>> \/ ~(BlockSize(s) < Cap)
    <3> HIDE DEF x
    <3> QED
      BY ONLY <1>1, <3>1, <3>2 DEF Low
  <2> HIDE DEF d
  <2> QED
    BY ONLY <1>1, <2>1, <2>2
<1>4. x \in Nat /\ x * Seg <= d
  <2> HIDE DEF d
  <2> QED
    BY ONLY <1>1, <1>3, DivIs
<1>5. n \in Nat /\ n <= x
  <2> HIDE DEF x
  <2> QED
    BY ONLY <1>1, <1>4, LowIs
<1>6. n * Seg \in Nat /\ n * Seg <= x * Seg /\ x * Seg \in Nat
  <2> HIDE DEF n, x
  <2> QED
    BY ONLY <1>1, <1>4, <1>5, TimesIs
<1> HIDE DEF n, x
<1>7. l + n * Seg <= Buf - 2
  <2> DEFINE m == n * Seg
             y == x * Seg
  <2>1. m \in Nat /\ y \in Nat /\ m <= y /\ y <= d
    BY ONLY <1>4, <1>6
  <2> HIDE DEF m, y, l
  <2>2. l + m <= Buf - 2
    BY ONLY <1>1, <2>1
  <2> QED
    BY ONLY <2>2 DEF m
<1> QED
  BY ONLY <1>2, <1>5, <1>6, <1>7

LEMMA SegmentFits ==
  ASSUME NEW x \in Nat, NEW y \in Nat, x + Seg + 2 <= Buf, y <= Seg
  PROVE  x + y \in Nat /\ x + y <= Buf
BY SdoAssumption

\* What of q segments the other side did not take, of which the last was nod
\* short, can be gone back from place x.
LEMMA GoBack ==
  ASSUME NEW q \in Nat, NEW p \in Nat, p < q, NEW x \in Nat, NEW nod \in Nat, nod <= Seg,
         q * Seg <= x + nod
  PROVE  (q - p) * Seg - nod \in Nat /\ (q - p) * Seg - nod <= x
<1> DEFINE k == q - p - 1
           kS == k * Seg
           pS == p * Seg
           qS == q * Seg
           dS == (q - p) * Seg
<1>1. Seg \in Nat /\ k \in Nat /\ q - p = k + 1
  BY SdoAssumption
<1>2. pS \in Nat /\ dS = qS - pS /\ qS \in Nat
  BY <1>1, TimesIs
<1>3. kS \in Nat /\ dS = kS + Seg
  BY ONLY <1>1, TimesIs
<1>4. qS <= x + nod
  OBVIOUS
<1> HIDE DEF k, kS, pS, qS, dS
<1>5. dS - nod \in Nat /\ dS - nod <= x
  BY ONLY <1>1, <1>2, <1>3, <1>4, nod \in Nat, nod <= Seg, x \in Nat
<1> QED
  BY ONLY <1>5 DEF dS

LEMMA StatesAre ==
  /\ DownRequest \subseteq States /\ DownStart \subseteq States /\ DownSegment \subseteq States
  /\ DownBlock \subseteq States /\ UpRequest \subseteq States /\ UpStart \subseteq States
  /\ UpBlock \subseteq States /\ Others \subseteq States
  /\ "IDLE" \in States /\ "ABORT" \in States
BY DEF States, Others

LEMMA SrvStopIs ==
  ASSUME NEW s \in SrvRecord
  PROVE  LET r == Stop(s) IN
         /\ r \in SrvRecord /\ r.st = "ABORT"
         /\ r.idx = s.idx /\ r.ind = s.ind /\ r.tran = s.tran /\ r.fin = s.fin /\ r.t = s.t
         /\ r.buf = s.buf /\ r.rd = s.rd /\ r.seq = s.seq /\ r.blk = s.blk /\ r.nod = s.nod
         /\ r.crc = s.crc /\ r.rx = s.rx /\ r.half = s.half /\ r.pos = s.pos
         /\ r.len = s.len /\ r.od = s.od
<1>1. Stop(s) \in SrvRecord
  BY StatesAre DEF Stop, SrvRecord
<1>2. LET r == [s EXCEPT !.st = "ABORT"] IN
      /\ r.st = "ABORT"
      /\ r.idx = s.idx /\ r.ind = s.ind /\ r.tran = s.tran /\ r.fin = s.fin /\ r.t = s.t
      /\ r.buf = s.buf /\ r.rd = s.rd /\ r.seq = s.seq /\ r.blk = s.blk /\ r.nod = s.nod
      /\ r.crc = s.crc /\ r.rx = s.rx /\ r.half = s.half /\ r.pos = s.pos
      /\ r.len = s.len /\ r.od = s.od
  BY DEF SrvRecord
<1> QED
  BY <1>1, <1>2 DEF Stop

LEMMA SrvStopOK ==
  ASSUME NEW s, SrvBase(s)
  PROVE  SrvOK(Stop(s)) /\ Stop(s).st = "ABORT" /\ Stop(s).rx = s.rx
<1>1. SrvBase(Stop(s)) /\ Stop(s).st = "ABORT"
  BY SrvStopIs DEF SrvBase
<1>2. SrvAt(Stop(s))
  BY <1>1 DEF SrvAt, DownRequest, UpRequest, DownStart, DownSegment, DownBlock, UpStart, UpBlock
<1> QED
  BY <1>1, <1>2, SrvStopIs DEF SrvOK, SrvBase

LEMMA SubIs ==
  ASSUME NEW s, SrvBase(s), s.rx \in Frames, NEW up \in BOOLEAN
  PROVE  LET r == OD_getSub(s, up) IN
         \/ r = Stop(s)
         \/ /\ SrvBase(r) /\ AtPlace(r) /\ r.pos = 0 /\ r.st = s.st /\ r.rx = s.rx
<1> DEFINE o == s.rx.idx
           r == [s EXCEPT !.idx = o, !.len = Len(s.od[o]), !.pos = 0]
<1>1. CASE o \notin Obj \/ (~up /\ o \in ReadOnly)
  BY <1>1 DEF OD_getSub
<1>2. CASE ~(o \notin Obj \/ (~up /\ o \in ReadOnly))
  <2>1. OD_getSub(s, up) = r
    BY <1>2 DEF OD_getSub
  <2>2. s \in SrvRecord /\ o \in Obj /\ s.od[o] \in Data /\ Len(s.od[o]) \in Nat
    BY <1>2, LenIs DEF SrvBase, SrvRecord
  <2>3. r \in SrvRecord
    BY ONLY <2>2, 0 \in Nat DEF SrvRecord
  <2>4. /\ r.idx = o /\ r.len = Len(s.od[o]) /\ r.pos = 0 /\ r.st = s.st /\ r.rx = s.rx
        /\ r.od = s.od /\ r.buf = s.buf /\ r.rd = s.rd /\ r.nod = s.nod
    BY ONLY <2>2 DEF SrvRecord
  <2> HIDE DEF r, o
  <2> QED
    BY <2>1, <2>2, <2>3, <2>4 DEF SrvBase, AtPlace
<1> QED
  BY <1>1, <1>2

\* What a write needs: the object, which is at least as long as the write's end.
LEMMA WriteIs ==
  ASSUME NEW s \in SrvRecord, s.idx \in Obj, s.len <= Len(s.od[s.idx]), NEW d \in Data
  PROVE  LET w == OD_writeOriginal(s, d)
             r == w.e
         IN  /\ r \in SrvRecord
             /\ w.ret # "LONG" => AtPlace(r)
             /\ r.st = s.st /\ r.ind = s.ind /\ r.tran = s.tran /\ r.fin = s.fin /\ r.t = s.t
             /\ r.buf = s.buf /\ r.rd = s.rd /\ r.seq = s.seq /\ r.blk = s.blk /\ r.nod = s.nod
             /\ r.rx = s.rx
<1> DEFINE left == s.len - s.pos
           n == Len(d)
           obj == s.od[s.idx]
           new == Front_(obj, s.pos) \o d \o Rest(obj, s.pos + n)
           e == [s EXCEPT !.od[s.idx] = Front_(@, s.pos) \o d \o Rest(@, s.pos + n),
                          !.pos = IF left > n THEN @ + n ELSE 0]
           w == OD_writeOriginal(s, d)
<1>1. /\ s.pos \in Nat /\ s.len \in Nat /\ n \in Nat /\ s.od \in [Obj -> Data]
      /\ obj \in Data /\ Len(obj) \in Nat
  BY LenIs DEF SrvRecord
<1>2. CASE left < n
  BY <1>2 DEF OD_writeOriginal
<1>3. CASE ~(left < n)
  <2>1. w.e = e /\ s.pos + n <= s.len
    BY <1>1, <1>3 DEF OD_writeOriginal
  <2>2. new \in Data /\ Len(new) = Len(obj)
    <3>1. s.pos <= Len(obj) /\ s.pos + n \in Nat /\ s.pos + n <= Len(obj)
      BY <1>1, <2>1
    <3>2. Front_(obj, s.pos) \in Data /\ Len(Front_(obj, s.pos)) = s.pos
      BY ONLY <1>1, <3>1, FrontIs
    <3>3. Rest(obj, s.pos + n) \in Data /\ Len(Rest(obj, s.pos + n)) = Len(obj) - (s.pos + n)
      BY ONLY <1>1, <3>1, RestIs
    <3>4. Front_(obj, s.pos) \o d \in Data /\ Len(Front_(obj, s.pos) \o d) = s.pos + n
      BY <3>2, CatIs
    <3> HIDE DEF obj, n
    <3> QED
      BY <1>1, <3>1, <3>3, <3>4, CatIs
  <2> DEFINE p == IF left > n THEN s.pos + n ELSE 0
             f == [s.od EXCEPT ![s.idx] = new]
  <2>3. e = [s EXCEPT !.od = f, !.pos = p]
    BY ONLY <1>1, s \in SrvRecord DEF SrvRecord
  <2>4. p \in Nat /\ p <= s.len /\ f \in [Obj -> Data] /\ Len(f[s.idx]) = Len(obj)
    BY ONLY <1>1, <2>1, <2>2, s.idx \in Obj
  <2> HIDE DEF p, f
  <2>5. [s EXCEPT !.od = f, !.pos = p] \in SrvRecord
    BY ONLY <2>4, s \in SrvRecord DEF SrvRecord
  <2>6. LET r == [s EXCEPT !.od = f, !.pos = p] IN
        /\ r.pos = p /\ r.od = f /\ r.len = s.len /\ r.idx = s.idx
        /\ r.st = s.st /\ r.ind = s.ind /\ r.tran = s.tran /\ r.fin = s.fin /\ r.t = s.t
        /\ r.buf = s.buf /\ r.rd = s.rd /\ r.seq = s.seq /\ r.blk = s.blk /\ r.nod = s.nod
        /\ r.rx = s.rx
    BY ONLY s \in SrvRecord DEF SrvRecord
  <2>7. AtPlace([s EXCEPT !.od = f, !.pos = p])
    BY <2>4, <2>6 DEF AtPlace
  <2> HIDE DEF e, w
  <2> QED
    BY ONLY <2>1, <2>3, <2>5, <2>6, <2>7 DEF w
<1> QED
  BY <1>2, <1>3

\* What readFromOd needs, and what it leaves: it stops, or has nothing to do,
\* or the buffer begins with what was not sent yet.
Readable(s) ==
  /\ s \in SrvRecord
  /\ s.rd <= Len(s.buf) /\ Len(s.buf) <= Buf
  /\ s.fin = 0 => AtPlace(s)

Read(r, s, min) ==
  /\ r \in SrvRecord /\ Len(r.buf) <= Buf /\ r.rd <= Len(r.buf) /\ r.rd \in {0, s.rd}
  /\ r.od = s.od /\ r.idx = s.idx /\ r.ind = s.ind /\ r.tran = s.tran /\ r.t = s.t
  /\ r.seq = s.seq /\ r.blk = s.blk /\ r.nod = s.nod /\ r.rx = s.rx
  /\ \/ r.st = "ABORT"
     \/ r.st = s.st /\ (r.fin = 0 => AtPlace(r) /\ Len(r.buf) - r.rd >= min)

LEMMA ReadIs ==
  ASSUME NEW s, Readable(s), NEW min \in Nat, NEW sum \in BOOLEAN
  PROVE  Read(readFromOd(s, min, sum), s, min)
<1> DEFINE rest == Rest(s.buf, s.rd)
           room == Buf - Len(rest)
           left == s.len - s.pos
           n == Low(left, room)
           read == SubSeq(s.od[s.idx], s.pos + 1, s.pos + n)
           cut == s.idx \in Str /\ TextLen(read) < Len(read)
           new == IF cut THEN Front_(read, TextLen(read)) ELSE read
           part == (left > room /\ ~cut) \/ rest \o new = <<>>
           full == [s EXCEPT !.buf = rest \o new, !.rd = 0, !.fin = IF part THEN 0 ELSE 1,
                             !.pos = IF left > room THEN @ + room ELSE 0,
                             !.len = IF cut THEN s.tran + Len(new) ELSE @,
                             !.crc = IF sum THEN @ \o new ELSE @]
           r == readFromOd(s, min, sum)
<1>1. /\ s.buf \in Data /\ s.rd \in Nat /\ s.pos \in Nat /\ s.len \in Nat /\ s.tran \in Nat
      /\ s.fin \in Bit /\ s.crc \in Data /\ s.od \in [Obj -> Data]
  BY DEF Readable, SrvRecord
<1>2. rest \in Data /\ Len(rest) = Len(s.buf) - s.rd /\ room \in Nat
  <2>1. s.rd <= Len(s.buf) /\ Len(s.buf) <= Buf
    BY DEF Readable
  <2>2. rest \in Data /\ Len(rest) = Len(s.buf) - s.rd
    BY ONLY <1>1, <2>1, RestIs
  <2>3. Len(s.buf) \in Nat /\ Buf \in Nat
    BY <1>1, LenIs, SdoAssumption
  <2> HIDE DEF rest
  <2> QED
    BY ONLY <1>1, <2>1, <2>2, <2>3
<1>3. r = IF s.fin = 1 \/ Len(rest) >= min THEN s
          ELSE IF part /\ Len(rest \o new) < min THEN Stop(s) ELSE full
  BY Zenon DEF readFromOd
<1>4. CASE s.fin = 1 \/ Len(rest) >= min
  <2> HIDE DEF rest, full, part, new
  <2>1. r = s
    BY ONLY <1>3, <1>4
  <2> HIDE DEF r
  <2> QED
    BY <1>1, <1>2, <1>4, <2>1 DEF Read, Readable, r
<1>5. CASE s.fin = 0 /\ Len(rest) < min
  <2>1. AtPlace(s) /\ left \in Nat
    BY <1>1, <1>5 DEF Readable, AtPlace
  <2>2. s.od[s.idx] \in Data /\ n \in Nat /\ n <= left /\ n <= room
        /\ (n = left \/ n = room) /\ s.pos + n <= Len(s.od[s.idx])
    <3>1. s.od[s.idx] \in Data /\ Len(s.od[s.idx]) \in Nat /\ s.len <= Len(s.od[s.idx])
      BY <1>1, <2>1 DEF AtPlace, Data
    <3>2. n \in Nat /\ n <= left /\ n <= room /\ (n = left \/ n = room)
      BY <1>2, <2>1, LowIs
    <3> HIDE DEF n
    <3> QED
      BY <1>1, <2>1, <3>1, <3>2
  <2>3. read \in Data /\ Len(read) = n
    <3> HIDE DEF n
    <3> QED
      BY ONLY <1>1, <2>2, SubSeqIs
  <2>4. new \in Data /\ Len(new) <= n
    BY <2>2, <2>3, TextLenIs, FrontIs
  <2>5. ~cut => Len(new) = n
    BY <2>3
  <2>6. rest \o new \in Data /\ Len(rest \o new) = Len(rest) + Len(new) /\ s.crc \o new \in Data
    BY <1>1, <1>2, <2>4, CatIs
  <2> HIDE DEF rest, read, new, cut, r, full, part
  <2>7. CASE part /\ Len(rest \o new) < min
    <3>1. r = Stop(s)
      BY ONLY <1>2, <1>3, <1>5, <2>7, min \in Nat, LenIs
    <3>2. s \in SrvRecord /\ s.rd <= Len(s.buf) /\ Len(s.buf) <= Buf
      BY DEF Readable
    <3>3. Read(Stop(s), s, min)
      BY ONLY <3>2, SrvStopIs DEF Read
    <3> QED
      BY ONLY <3>1, <3>3 DEF r
  <2>8. CASE ~(part /\ Len(rest \o new) < min)
    <3>1. r = full
      BY ONLY <1>2, <1>3, <1>5, <2>8
    <3>2. /\ full.buf = rest \o new /\ full.rd = 0 /\ full.fin = (IF part THEN 0 ELSE 1)
          /\ full.pos = (IF left > room THEN s.pos + room ELSE 0)
          /\ full.len = (IF cut THEN s.tran + Len(new) ELSE s.len)
          /\ full.crc = (IF sum THEN s.crc \o new ELSE s.crc)
          /\ full.od = s.od /\ full.idx = s.idx /\ full.ind = s.ind /\ full.tran = s.tran
          /\ full.t = s.t /\ full.seq = s.seq /\ full.blk = s.blk /\ full.nod = s.nod
          /\ full.rx = s.rx /\ full.st = s.st /\ full.half = s.half
      BY DEF Readable, SrvRecord, full
    <3>3. Len(new) \in Nat /\ Len(s.buf) \in Nat /\ Len(rest) \in Nat /\ s.tran + Len(new) \in Nat
      BY ONLY LenIs, <1>1, <1>2, <2>4
    <3>4. full \in SrvRecord
      <4>1. /\ (IF part THEN 0 ELSE 1) \in Bit
            /\ (IF left > room THEN s.pos + room ELSE 0) \in Nat
            /\ (IF cut THEN s.tran + Len(new) ELSE s.len) \in Nat
            /\ (IF sum THEN s.crc \o new ELSE s.crc) \in Data
        BY <1>1, <1>2, <2>6, <3>3 DEF Bit
      <4> QED
        <5> DEFINE fin == IF part THEN 0 ELSE 1
                   pos == IF left > room THEN s.pos + room ELSE 0
                   len == IF cut THEN s.tran + Len(new) ELSE s.len
                   crc == IF sum THEN s.crc \o new ELSE s.crc
                   cat == rest \o new
        <5>1. full = [s EXCEPT !.buf = cat, !.rd = 0, !.fin = fin, !.pos = pos, !.len = len,
                               !.crc = crc]
          BY DEF Readable, SrvRecord, full
        <5>2. /\ s \in SrvRecord /\ cat \in Data /\ fin \in Bit /\ pos \in Nat /\ len \in Nat
              /\ crc \in Data /\ 0 \in Nat
          BY ONLY <2>6, <4>1, Readable(s) DEF Readable
        <5> HIDE DEF fin, pos, len, crc, cat
        <5> QED
          BY ONLY <5>1, <5>2 DEF SrvRecord
    <3>5. Len(full.buf) \in Nat /\ Len(full.buf) <= Buf
      <4>1. Buf \in Nat /\ Len(rest) + Len(new) <= Buf
        BY ONLY <1>2, <2>2, <2>4, <3>3, SdoAssumption
      <4> QED
        BY ONLY <2>6, <3>2, <3>3, <4>1
    <3>6. full.fin = 0 => AtPlace(full) /\ Len(full.buf) >= min
      <4> SUFFICES ASSUME full.fin = 0 PROVE AtPlace(full) /\ Len(full.buf) >= min
        OBVIOUS
      <4>1. part /\ ~cut /\ left > room
        <5>1. part
          BY <3>2
        <5>2. rest \o new # <<>>
          BY <1>2, <1>5, <2>6, <2>8, <3>3, <5>1
        <5> QED
          BY <5>1, <5>2 DEF part
      <4>2. Len(full.buf) >= min
        BY <2>6, <2>8, <3>2, <3>3, <4>1
      <4>3. full.pos = s.pos + room /\ full.len = s.len /\ full.idx = s.idx /\ full.od = s.od
        BY <3>2, <4>1
      <4>4. full.pos <= full.len
        BY <1>1, <1>2, <4>1, <4>3
      <4> QED
        BY <2>1, <4>2, <4>3, <4>4 DEF AtPlace
    <3>7. Read(full, s, min)
      BY <3>2, <3>4, <3>5, <3>6 DEF Read
    <3> QED
      BY <3>1, <3>7 DEF r
  <2> QED
    BY <2>7, <2>8
<1> QED
  BY <1>1, <1>2, <1>4, <1>5 DEF Bit

LEMMA TerminatorIs ==
  ASSUME NEW s \in SrvRecord
  PROVE  LET z == Terminator(s) IN
         /\ z \in Data
         /\ z # <<>> => s.tran + Len(z) <= s.len
<1>1. s.tran \in Nat /\ s.len \in Nat
  BY DEF SrvRecord
<1>2. <<0, 0>> \in Data /\ <<0>> \in Data /\ <<>> \in Data /\ Len(<<0, 0>>) = 2 /\ Len(<<0>>) = 1
  BY DEF Data
<1> QED
  BY <1>1, <1>2 DEF Terminator

LEMMA ValidateIs ==
  ASSUME NEW s, SrvBase(s), AtPlace(s), s.rd = 0, NEW sum \in 0..2, NEW crcClient
  PROVE  LET r == validateAndWriteToOD(s, sum, crcClient) IN
         /\ SrvBase(r) /\ r.rx = s.rx
         /\ \/ r.st = "ABORT"
            \/ /\ AtPlace(r) /\ r.buf = <<>> /\ r.rd = 0 /\ r.st = s.st /\ r.tran = s.tran
               /\ r.fin = s.fin /\ r.seq = s.seq /\ r.blk = s.blk
<1> DEFINE z == Terminator(s)
           len == IF z = <<>> THEN s.len ELSE s.tran + Len(z)
           crc == IF sum > 0 THEN s.crc \o s.buf ELSE s.crc
           sized == [s EXCEPT !.len = len, !.crc = crc]
           w == OD_writeOriginal(sized, s.buf \o z)
           written == [w.e EXCEPT !.buf = <<>>]
           r == validateAndWriteToOD(s, sum, crcClient)
<1>1. s \in SrvRecord /\ s.len \in Nat /\ s.tran \in Nat /\ s.buf \in Data /\ s.crc \in Data
      /\ s.rd = 0 /\ s.nod <= Seg
  BY DEF SrvBase, SrvRecord
<1>2. z \in Data /\ Len(z) \in Nat /\ (z # <<>> => s.tran + Len(z) <= s.len)
  BY <1>1, TerminatorIs, LenIs
<1>3. len \in Nat /\ len <= s.len /\ crc \in Data /\ s.buf \o z \in Data
  BY <1>1, <1>2, CatIs
<1>4. r = IF SizeWrong(s) \/ CrcWrong(s, sum, crcClient) THEN Stop(s)
          ELSE IF w.ret = "LONG" \/ (s.fin = 1) # (w.ret = "OK") THEN Stop(written) ELSE written
  <2>1. sized = [s EXCEPT !.len = IF z = <<>> THEN @ ELSE s.tran + Len(z),
                          !.crc = IF sum > 0 THEN @ \o s.buf ELSE @]
    BY ONLY <1>1 DEF SrvRecord
  <2> HIDE DEF sized
  <2> QED
    BY <2>1, Zenon DEF validateAndWriteToOD
<1> HIDE DEF z, len, crc
<1>5. sized \in SrvRecord
  BY ONLY <1>1, <1>3 DEF SrvRecord
<1>6. /\ sized.len = len /\ sized.od = s.od /\ sized.idx = s.idx
      /\ sized.st = s.st /\ sized.tran = s.tran /\ sized.fin = s.fin /\ sized.seq = s.seq
      /\ sized.blk = s.blk /\ sized.rd = s.rd /\ sized.nod = s.nod
      /\ sized.rx = s.rx
  BY ONLY <1>1 DEF SrvRecord
<1> HIDE DEF sized
<1>7. sized.idx \in Obj /\ sized.len <= Len(sized.od[sized.idx])
  <2>1. s.idx \in Obj /\ s.len <= Len(s.od[s.idx]) /\ Len(s.od[s.idx]) \in Nat
    BY <1>1, LenIs DEF AtPlace, SrvRecord
  <2> QED
    BY ONLY <1>1, <1>3, <1>6, <2>1
<1>8. /\ w.e \in SrvRecord /\ (w.ret # "LONG" => AtPlace(w.e))
      /\ w.e.st = s.st /\ w.e.tran = s.tran /\ w.e.fin = s.fin /\ w.e.seq = s.seq
      /\ w.e.blk = s.blk /\ w.e.rd = 0 /\ w.e.nod = s.nod /\ w.e.rx = s.rx
  BY ONLY <1>1, <1>3, <1>5, <1>6, <1>7, WriteIs
<1> HIDE DEF w
<1>9. <<>> \in Data /\ Len(<<>>) = 0
  BY DEF Data
<1>10. written \in SrvRecord
  BY ONLY <1>8, <1>9 DEF SrvRecord
<1>11. /\ written.buf = <<>> /\ written.od = w.e.od /\ written.idx = w.e.idx
       /\ written.pos = w.e.pos /\ written.len = w.e.len
       /\ written.st = s.st /\ written.tran = s.tran /\ written.fin = s.fin
       /\ written.seq = s.seq /\ written.blk = s.blk /\ written.rd = 0
       /\ written.nod = s.nod /\ written.rx = s.rx
  BY ONLY <1>8 DEF SrvRecord
<1> HIDE DEF written
<1>12. SrvBase(written) /\ (w.ret # "LONG" => AtPlace(written))
  BY ONLY <1>1, <1>8, <1>9, <1>10, <1>11, SdoAssumption DEF SrvBase, AtPlace
<1>13. SrvBase(Stop(written)) /\ Stop(written).st = "ABORT"
       /\ Stop(written).rx = s.rx
  BY ONLY <1>11, <1>12, SrvStopOK DEF SrvOK
<1>14. SrvBase(Stop(s)) /\ Stop(s).st = "ABORT" /\ Stop(s).rx = s.rx
  BY SrvStopOK DEF SrvOK
<1> HIDE DEF r
<1>15. r = Stop(s) \/ r = Stop(written) \/ (r = written /\ w.ret # "LONG")
  BY ONLY <1>4
<1>16. CASE r = Stop(s)
  BY ONLY <1>14, <1>16 DEF r
<1>17. CASE r = Stop(written)
  BY ONLY <1>13, <1>17 DEF r
<1>18. CASE r = written /\ w.ret # "LONG"
  BY ONLY <1>11, <1>12, <1>18 DEF r
<1> QED
  BY ONLY <1>15, <1>16, <1>17, <1>18

\* What a new request is taken to: its object, and for an upload the first data.
Requested(r) ==
  \/ r.st = "ABORT"
  \/ /\ r.st \in DownRequest /\ AtPlace(r)
     /\ r.st = "DOWNLOAD_INITIATE_REQ" => r.rx.c = "download"
  \/ /\ r.st \in UpRequest /\ r.rd = 0 /\ (r.fin = 0 => AtPlace(r))
     /\ r.ind > 0 /\ r.ind <= Exped => r.ind <= Len(r.buf)

LEMMA NewRequestIs ==
  ASSUME NEW s, SrvBase(s), s.rx \in Frames
  PROVE  LET r == NewRequest(s) IN
         SrvBase(r) /\ r.rx = s.rx /\ Requested(r)
<1> DEFINE up == s.rx.c \in {"upload", "blkUpload"}
           st == CASE s.rx.c = "download" -> "DOWNLOAD_INITIATE_REQ"
                   [] s.rx.c = "upload" -> "UPLOAD_INITIATE_REQ"
                   [] s.rx.c = "blkDownload" -> "DOWNLOAD_BLK_INITIATE_REQ"
                   [] s.rx.c = "blkUpload" -> "UPLOAD_BLK_INITIATE_REQ"
                   [] OTHER -> "ABORT"
           found == OD_getSub(s, up)
           ready == [found EXCEPT !.st = st]
           clean == [ready EXCEPT !.buf = <<>>, !.rd = 0, !.tran = 0, !.fin = 0]
           read == readFromOd(clean, Seg, FALSE)
           r == NewRequest(s)
<1>1. /\ st = "ABORT" \/ (up /\ st \in UpRequest) \/ (~up /\ st \in DownRequest)
      /\ st = "DOWNLOAD_INITIATE_REQ" => s.rx.c = "download"
      /\ up \in BOOLEAN
  BY DEF UpRequest, DownRequest
<1>2. r = IF st = "ABORT" \/ found.st = "ABORT" THEN Stop(s)
          ELSE IF ~up THEN ready
          ELSE IF read.st = "ABORT" THEN read
          ELSE IF read.fin = 1 /\ read.len # Len(read.buf) THEN Stop(read)
          ELSE [read EXCEPT !.ind = IF read.fin = 0 /\ read.idx \in Str THEN 0 ELSE read.len]
  BY DEF NewRequest
<1> HIDE DEF up, st, r
<1>3. SrvBase(Stop(s)) /\ Stop(s).rx = s.rx /\ Requested(Stop(s))
  BY SrvStopOK DEF SrvOK, Requested
<1>4. CASE st = "ABORT" \/ found.st = "ABORT"
  BY ONLY <1>2, <1>3, <1>4 DEF r
<1>5. CASE ~(st = "ABORT" \/ found.st = "ABORT")
  <2>1. /\ SrvBase(found) /\ AtPlace(found) /\ found.pos = 0
        /\ found.rx = s.rx
    BY <1>1, <1>5, SubIs, SrvStopOK
  <2> HIDE DEF found
  <2>2. st \in States
    BY <1>1, StatesAre
  <2>3. ready \in SrvRecord
    BY ONLY <2>1, <2>2 DEF SrvBase, SrvRecord
  <2>4. /\ ready.st = st /\ ready.rx = s.rx /\ ready.pos = found.pos
        /\ ready.idx = found.idx /\ ready.len = found.len /\ ready.od = found.od
        /\ ready.buf = found.buf /\ ready.rd = found.rd /\ ready.nod = found.nod
    BY ONLY <2>1 DEF SrvBase, SrvRecord
  <2> HIDE DEF ready
  <2>5. SrvBase(ready) /\ AtPlace(ready)
    BY ONLY <2>1, <2>3, <2>4 DEF SrvBase, AtPlace
  <2>6. CASE ~up
    <3>1. r = ready
      BY ONLY <1>2, <1>5, <2>6
    <3>2. st \in DownRequest
      BY ONLY <1>1, <1>5, <2>6
    <3>3. Requested(ready)
      BY ONLY <1>1, <2>4, <2>5, <3>2 DEF Requested
    <3> QED
      BY ONLY <2>4, <2>5, <3>1, <3>3 DEF r
  <2>7. CASE up
    <3>0. <<>> \in Data /\ Len(<<>>) = 0 /\ Buf \in Nat
      BY SdoAssumption DEF Data
    <3>1. clean \in SrvRecord
      BY ONLY <2>3, <3>0, 0 \in Nat DEF SrvRecord, Bit
    <3>2. /\ clean.buf = <<>> /\ clean.rd = 0 /\ clean.tran = 0 /\ clean.fin = 0
          /\ clean.st = st /\ clean.rx = s.rx /\ clean.pos = ready.pos
          /\ clean.idx = ready.idx /\ clean.len = ready.len /\ clean.od = ready.od
          /\ clean.nod = ready.nod
      BY ONLY <2>3, <2>4 DEF SrvRecord
    <3> HIDE DEF clean
    <3>3. Readable(clean) /\ clean.st # "ABORT" /\ clean.nod <= Seg
      BY ONLY <1>5, <2>5, <3>0, <3>1, <3>2 DEF Readable, AtPlace, SrvBase
    <3>4. Read(read, clean, Seg)
      BY <3>3, ReadIs, SdoAssumption
    <3> HIDE DEF read
    <3>5. SrvBase(read) /\ read.rx = s.rx /\ read.rd = 0
          /\ (read.st = "ABORT" \/ read.st = st) /\ read \in SrvRecord
          /\ Len(read.buf) \in Nat /\ read.len \in Nat /\ read.fin \in Bit
      BY ONLY <3>2, <3>3, <3>4, LenIs DEF Read, SrvBase, SrvRecord
    <3>6. read.st # "ABORT" /\ read.fin = 0 => AtPlace(read) /\ Len(read.buf) >= Seg
      BY ONLY <3>4, <3>5, SdoAssumption DEF Read
    <3>7. CASE read.st = "ABORT"
      <4>1. r = read
        BY ONLY <1>2, <1>5, <2>7, <3>7
      <4> QED
        BY ONLY <3>5, <3>7, <4>1 DEF Requested, r
    <3>8. CASE read.st # "ABORT" /\ read.fin = 1 /\ read.len # Len(read.buf)
      <4>1. r = Stop(read)
        BY ONLY <1>2, <1>5, <2>7, <3>8
      <4>2. /\ SrvBase(Stop(read)) /\ Stop(read).rx = s.rx
            /\ Requested(Stop(read))
        BY ONLY <3>5, SrvStopOK DEF SrvOK, Requested
      <4> QED
        BY ONLY <4>1, <4>2 DEF r
    <3>9. CASE read.st # "ABORT" /\ ~(read.fin = 1 /\ read.len # Len(read.buf))
      <4> DEFINE ind == IF read.fin = 0 /\ read.idx \in Str THEN 0 ELSE read.len
                 e == [read EXCEPT !.ind = ind]
      <4>1. r = e
        BY ONLY <1>2, <1>5, <2>7, <3>9
      <4>2. ind \in Nat /\ (ind > 0 /\ ind <= Exped => ind <= Len(read.buf))
        BY ONLY <3>5, <3>6, <3>9, SdoAssumption DEF Bit
      <4> HIDE DEF ind
      <4>3. e \in SrvRecord
        BY ONLY <3>5, <4>2 DEF SrvRecord
      <4>4. /\ e.ind = ind /\ e.st = st /\ e.rx = s.rx /\ e.rd = 0
            /\ e.buf = read.buf /\ e.nod = read.nod /\ e.fin = read.fin /\ e.pos = read.pos
            /\ e.idx = read.idx /\ e.len = read.len /\ e.od = read.od
        BY ONLY <3>5, <3>9 DEF SrvRecord
      <4> HIDE DEF e
      <4>5. SrvBase(e)
        BY ONLY <3>5, <4>3, <4>4 DEF SrvBase
      <4>6. st \in UpRequest
        BY ONLY <1>1, <1>5, <2>7
      <4>7. Requested(e)
        BY ONLY <3>6, <3>9, <4>2, <4>4, <4>6 DEF Requested, AtPlace
      <4> QED
        BY ONLY <4>1, <4>4, <4>5, <4>7 DEF r
    <3> QED
      BY ONLY <3>7, <3>8, <3>9
  <2> QED
    BY ONLY <2>6, <2>7
<1> QED
  BY ONLY <1>4, <1>5

LEMMA FrameIs ==
  ASSUME NEW f \in Frames
  PROVE  /\ f \in FrameRecord /\ FrameOK(f)
         /\ f.c \in Commands /\ f.idx \in Obj \cup {None} /\ f.exp \in Bit /\ f.ind \in Nat
         /\ f.t \in Bit /\ f.last \in Bit /\ f.data \in Data /\ Len(f.data) \in Nat
         /\ f.seq \in Nat /\ f.blk \in Nat /\ f.crc \in Data
<1>1. f \in FrameRecord /\ FrameOK(f)
  BY DEF Frames
<1>2. /\ f.c \in Commands /\ f.idx \in Obj \cup {None} /\ f.exp \in Bit /\ f.ind \in Nat
      /\ f.t \in Bit /\ f.last \in Bit /\ f.data \in Data
      /\ f.seq \in Nat /\ f.blk \in Nat /\ f.crc \in Data
  BY ONLY <1>1 DEF FrameRecord
<1> QED
  BY ONLY <1>1, <1>2, LenIs

\* SrvAt, state by state
LEMMA SrvAtIs ==
  ASSUME NEW s
  PROVE  /\ s.st \in Others => SrvAt(s)
         /\ s.st \in DownStart /\ AtPlace(s) => SrvAt(s)
         /\ s.st \in DownSegment /\ AtPlace(s) /\ s.rd = 0 /\ Len(s.buf) + Seg + 2 <= Buf => SrvAt(s)
         /\ s.st \in DownBlock /\ s.st # "DOWNLOAD_BLK_SUBBLOCK_REQ" /\ AtPlace(s) /\ s.rd = 0
              /\ Len(s.buf) <= s.tran => SrvAt(s)
         /\ s.st = "DOWNLOAD_BLK_SUBBLOCK_REQ" /\ AtPlace(s) /\ s.rd = 0 /\ Len(s.buf) <= s.tran
              /\ Len(s.buf) + (s.blk - s.seq) * Seg <= Buf - 2 => SrvAt(s)
         /\ s.st \in UpStart /\ s.rd <= s.tran /\ (s.fin = 0 => AtPlace(s))
              /\ (s.st = "UPLOAD_INITIATE_RSP" /\ s.ind > 0 /\ s.ind <= Exped => s.ind <= Len(s.buf))
              => SrvAt(s)
         /\ s.st \in UpBlock /\ s.rd <= s.tran /\ (s.fin = 0 => AtPlace(s))
              /\ (s.seq > 0 => s.seq * Seg <= s.rd + s.nod)
              /\ (s.st = "UPLOAD_BLK_SUBBLOCK_SREQ" /\ s.seq > 0 => s.nod = 0) => SrvAt(s)
<1>1. s.st \in Others => SrvAt(s)
  BY DEF SrvAt, Others, DownRequest, UpRequest, DownStart, DownSegment, DownBlock, UpStart,
           UpBlock
<1>2. s.st \in DownStart /\ AtPlace(s) => SrvAt(s)
  BY DEF SrvAt, Others, DownRequest, UpRequest, DownStart, DownSegment, DownBlock, UpStart,
           UpBlock
<1>3. s.st \in DownSegment /\ AtPlace(s) /\ s.rd = 0 /\ Len(s.buf) + Seg + 2 <= Buf => SrvAt(s)
  BY DEF SrvAt, Others, DownRequest, UpRequest, DownStart, DownSegment, DownBlock, UpStart,
           UpBlock
<1>4. s.st \in DownBlock /\ s.st # "DOWNLOAD_BLK_SUBBLOCK_REQ" /\ AtPlace(s) /\ s.rd = 0
              /\ Len(s.buf) <= s.tran => SrvAt(s)
  BY DEF SrvAt, Others, DownRequest, UpRequest, DownStart, DownSegment, DownBlock, UpStart,
           UpBlock
<1>5. s.st = "DOWNLOAD_BLK_SUBBLOCK_REQ" /\ AtPlace(s) /\ s.rd = 0 /\ Len(s.buf) <= s.tran
              /\ Len(s.buf) + (s.blk - s.seq) * Seg <= Buf - 2 => SrvAt(s)
  BY DEF SrvAt, Others, DownRequest, UpRequest, DownStart, DownSegment, DownBlock, UpStart,
           UpBlock
<1>6. s.st \in UpStart /\ s.rd <= s.tran /\ (s.fin = 0 => AtPlace(s))
        /\ (s.st = "UPLOAD_INITIATE_RSP" /\ s.ind > 0 /\ s.ind <= Exped => s.ind <= Len(s.buf))
      => SrvAt(s)
  BY DEF SrvAt, Others, DownRequest, UpRequest, DownStart, DownSegment, DownBlock, UpStart,
           UpBlock
<1>7. s.st \in UpBlock /\ s.rd <= s.tran /\ (s.fin = 0 => AtPlace(s))
        /\ (s.seq > 0 => s.seq * Seg <= s.rd + s.nod)
        /\ (s.st = "UPLOAD_BLK_SUBBLOCK_SREQ" /\ s.seq > 0 => s.nod = 0) => SrvAt(s)
  BY DEF SrvAt, Others, DownRequest, UpRequest, DownStart, DownSegment, DownBlock, UpStart,
           UpBlock
<1> QED
  BY ONLY <1>1, <1>2, <1>3, <1>4, <1>5, <1>6, <1>7

\* Only the state changes.
LEMMA SrvStateIs ==
  ASSUME NEW s, SrvBase(s), NEW x \in States
  PROVE  LET r == [s EXCEPT !.st = x] IN
         /\ SrvBase(r) /\ r.st = x
         /\ r.idx = s.idx /\ r.ind = s.ind /\ r.tran = s.tran /\ r.fin = s.fin /\ r.t = s.t
         /\ r.buf = s.buf /\ r.rd = s.rd /\ r.seq = s.seq /\ r.blk = s.blk /\ r.nod = s.nod
         /\ r.rx = s.rx
         /\ AtPlace(s) => AtPlace(r)
<1> DEFINE r == [s EXCEPT !.st = x]
<1>1. r \in SrvRecord
  BY DEF SrvBase, SrvRecord
<1>2. /\ r.st = x
      /\ r.idx = s.idx /\ r.ind = s.ind /\ r.tran = s.tran /\ r.fin = s.fin /\ r.t = s.t
      /\ r.buf = s.buf /\ r.rd = s.rd /\ r.seq = s.seq /\ r.blk = s.blk /\ r.nod = s.nod
      /\ r.rx = s.rx /\ r.pos = s.pos /\ r.len = s.len /\ r.od = s.od
  BY DEF SrvBase, SrvRecord
<1> HIDE DEF r
<1>3. SrvBase(r) /\ (AtPlace(s) => AtPlace(r))
  BY <1>1, <1>2 DEF SrvBase, AtPlace
<1> QED
  BY ONLY <1>2, <1>3 DEF r

LEMMA InitiateDownloadOK ==
  ASSUME NEW s, SrvBase(s), AtPlace(s), s.rx \in Frames, s.rx.c = "download"
  PROVE  LET r == InitiateDownload(s) IN SrvOK(r) /\ r.rx = s.rx
<1> DEFINE n == IF s.rx.ind > 0 THEN s.rx.ind ELSE Low(s.len, Exped)
           short == s.idx \in Str /\ n < s.len
           z == IF ~short THEN <<>> ELSE IF s.len - n = 1 THEN <<0>> ELSE <<0, 0>>
           len == IF short THEN n + Len(z) ELSE s.len
           sized == [s EXCEPT !.len = IF short THEN n + Len(z) ELSE @]
           w == OD_writeOriginal(sized, Front_(s.rx.data, n) \o z)
           done == [w.e EXCEPT !.st = "DOWNLOAD_INITIATE_RSP", !.fin = 1]
           begun1 == [s EXCEPT !.st = "DOWNLOAD_INITIATE_RSP", !.fin = 0, !.ind = s.rx.ind]
           bad == (~short /\ n # s.len) \/ w.ret # "OK"
           r == InitiateDownload(s)
<1>1. r = IF s.rx.exp = 1 THEN IF bad THEN Stop(s) ELSE done
          ELSE IF ~Fits(s) THEN Stop(s) ELSE begun1
  BY DEF InitiateDownload
<1> HIDE DEF r, bad
<1>2. /\ s \in SrvRecord /\ s.len \in Nat /\ s.idx \in Obj /\ s.pos <= s.len
      /\ Len(s.od[s.idx]) \in Nat /\ s.len <= Len(s.od[s.idx])
      /\ s.rd <= Len(s.buf) /\ Len(s.buf) <= Buf /\ s.nod <= Seg
  BY LenIs DEF SrvBase, SrvRecord, AtPlace
<1>3. SrvOK(Stop(s)) /\ Stop(s).rx = s.rx
  BY SrvStopOK
<1>4. "DOWNLOAD_INITIATE_RSP" \in States /\ "DOWNLOAD_INITIATE_RSP" \in DownStart
  BY StatesAre DEF DownStart
<1>5. CASE s.rx.exp = 1 /\ ~bad
  <2>1. /\ s.rx.data \in Data /\ Len(s.rx.data) = Exped /\ s.rx.ind <= Exped /\ s.rx.ind \in Nat
        /\ Exped \in Nat
    BY <1>5, FrameIs, SdoAssumption DEF FrameOK
  <2>2. n \in Nat /\ n <= Exped
    BY ONLY <1>2, <2>1, LowIs
  <2> HIDE DEF n
  <2>3. z \in Data /\ Len(z) \in Nat /\ len \in Nat /\ len <= s.len
    <3>1. <<0, 0>> \in Data /\ <<0>> \in Data /\ <<>> \in Data
          /\ Len(<<0, 0>>) = 2 /\ Len(<<0>>) = 1 /\ Len(<<>>) = 0
      BY DEF Data
    <3> QED
      BY ONLY <1>2, <2>2, <3>1
  <2>4. Front_(s.rx.data, n) \o z \in Data
    BY ONLY <2>1, <2>2, <2>3, FrontIs, CatIs
  <2>5. sized = [s EXCEPT !.len = len]
    BY ONLY <1>2 DEF SrvRecord
  <2> HIDE DEF z, len, short
  <2>6. [s EXCEPT !.len = len] \in SrvRecord
    BY ONLY <1>2, <2>3 DEF SrvRecord
  <2>7. LET e == [s EXCEPT !.len = len] IN
        /\ e.idx = s.idx /\ e.len = len /\ e.od = s.od /\ e.buf = s.buf /\ e.rd = s.rd
        /\ e.nod = s.nod /\ e.rx = s.rx
    BY ONLY <1>2 DEF SrvRecord
  <2>8. /\ sized \in SrvRecord /\ sized.idx \in Obj /\ sized.len <= Len(sized.od[sized.idx])
        /\ sized.buf = s.buf /\ sized.rd = s.rd
        /\ sized.nod = s.nod /\ sized.rx = s.rx
    <3>1. s.idx \in Obj /\ len <= Len(s.od[s.idx])
      BY ONLY <1>2, <2>3
    <3> HIDE DEF sized
    <3> QED
      BY ONLY <3>1, <2>5, <2>6, <2>7
  <2> HIDE DEF sized
  <2>9. w.ret = "OK"
    BY <1>5 DEF bad
  <2>10. /\ w.e \in SrvRecord /\ AtPlace(w.e) /\ w.e.buf = s.buf /\ w.e.rd = s.rd
         /\ w.e.nod = s.nod /\ w.e.rx = s.rx
    BY ONLY <2>4, <2>8, <2>9, WriteIs
  <2> HIDE DEF w
  <2>11. done \in SrvRecord
    BY ONLY <1>4, <2>10 DEF SrvRecord, Bit
  <2>12. /\ done.st = "DOWNLOAD_INITIATE_RSP" /\ done.idx = w.e.idx /\ done.pos = w.e.pos
         /\ done.len = w.e.len /\ done.od = w.e.od /\ done.buf = s.buf /\ done.rd = s.rd
         /\ done.nod = s.nod /\ done.rx = s.rx
    BY ONLY <2>10 DEF SrvRecord
  <2> HIDE DEF done
  <2>13. SrvBase(done) /\ AtPlace(done)
    BY ONLY <1>2, <2>10, <2>11, <2>12 DEF SrvBase, AtPlace
  <2>14. SrvOK(done)
    BY ONLY <1>4, <2>12, <2>13, SrvAtIs DEF SrvOK
  <2>15. r = done
    BY ONLY <1>1, <1>5
  <2> QED
    BY ONLY <2>12, <2>14, <2>15 DEF r
<1>6. CASE s.rx.exp # 1 /\ Fits(s)
  <2>1. s.rx.ind \in Nat
    BY FrameIs
  <2>2. begun1 \in SrvRecord
    BY ONLY <1>2, <1>4, <2>1 DEF SrvRecord, Bit
  <2>3. /\ begun1.st = "DOWNLOAD_INITIATE_RSP" /\ begun1.idx = s.idx /\ begun1.pos = s.pos
        /\ begun1.len = s.len /\ begun1.od = s.od /\ begun1.buf = s.buf /\ begun1.rd = s.rd
        /\ begun1.nod = s.nod /\ begun1.rx = s.rx
    BY ONLY <1>2 DEF SrvRecord
  <2>4. r = begun1
    BY ONLY <1>1, <1>6
  <2> HIDE DEF begun1
  <2>5. SrvBase(begun1) /\ AtPlace(begun1)
    BY ONLY <1>2, <2>2, <2>3 DEF SrvBase, AtPlace
  <2>6. SrvOK(begun1)
    BY ONLY <1>4, <2>3, <2>5, SrvAtIs DEF SrvOK
  <2> QED
    BY ONLY <2>3, <2>4, <2>6 DEF r
<1>7. CASE (s.rx.exp = 1 /\ bad) \/ (s.rx.exp # 1 /\ ~Fits(s))
  <2>1. r = Stop(s)
    BY ONLY <1>1, <1>7
  <2> QED
    BY ONLY <1>3, <2>1 DEF r
<1> QED
  BY ONLY <1>5, <1>6, <1>7

LEMMA DownloadSegmentOK ==
  ASSUME NEW s, SrvOK(s), s.rx \in Frames, s.st = "DOWNLOAD_SEGMENT_REQ"
  PROVE  LET r == DownloadSegment(s) IN SrvOK(r) /\ r.rx = s.rx
<1> DEFINE a == [s EXCEPT !.fin = s.rx.last, !.buf = @ \o s.rx.data, !.tran = @ + Len(s.rx.data)]
           v == validateAndWriteToOD(a, 0, <<>>)
           writes == a.fin = 1 \/ Buf - Len(a.buf) < Seg + 2
           w == IF writes THEN v ELSE a
           done == [w EXCEPT !.st = "DOWNLOAD_SEGMENT_RSP"]
           r == DownloadSegment(s)
<1>1. r = IF ~ToggleOk(s) THEN Stop(s) ELSE IF a.tran > a.len THEN Stop(a)
          ELSE IF w.st = "ABORT" THEN w ELSE done
  BY DEF DownloadSegment
<1> HIDE DEF r
<1>2. SrvOK(Stop(s)) /\ Stop(s).rx = s.rx
  BY SrvStopOK DEF SrvOK
<1>3. CASE ~ToggleOk(s)
  BY ONLY <1>1, <1>2, <1>3 DEF r
<1>4. CASE ToggleOk(s)
  <2>1. /\ s.rx.data \in Data /\ Len(s.rx.data) \in Nat /\ Len(s.rx.data) <= Seg
           /\ s.rx.last \in Bit
    BY <1>4, FrameIs DEF FrameOK, ToggleOk
  <2>2. /\ s \in SrvRecord /\ AtPlace(s) /\ s.rd = 0 /\ Len(s.buf) + Seg + 2 <= Buf
        /\ s.buf \in Data /\ Len(s.buf) \in Nat /\ s.tran \in Nat /\ s.nod <= Seg
    BY LenIs DEF SrvOK, SrvBase, SrvAt, DownSegment, SrvRecord
  <2>3. s.buf \o s.rx.data \in Data /\ Len(s.buf \o s.rx.data) = Len(s.buf) + Len(s.rx.data)
    BY ONLY <2>1, <2>2, CatIs
  <2>4. a \in SrvRecord
    <3>1. s.tran + Len(s.rx.data) \in Nat
      BY ONLY <2>1, <2>2
    <3> QED
      BY ONLY <2>1, <2>2, <2>3, <3>1 DEF SrvRecord
  <2>5. /\ a.buf = s.buf \o s.rx.data /\ a.st = s.st /\ a.idx = s.idx /\ a.pos = s.pos
        /\ a.len = s.len /\ a.od = s.od /\ a.rd = s.rd /\ a.nod = s.nod /\ a.rx = s.rx
    BY ONLY <2>2 DEF SrvRecord
  <2> HIDE DEF a
  <2>6. SrvBase(a) /\ AtPlace(a) /\ a.rd = 0 /\ Len(a.buf) \in Nat
    <3>1. Len(a.buf) \in Nat /\ Len(a.buf) <= Buf /\ a.rd <= Len(a.buf)
      <4>1. Len(a.buf) = Len(s.buf) + Len(s.rx.data) /\ a.rd = 0
        BY ONLY <2>2, <2>3, <2>5
      <4>2. Len(s.buf) + Len(s.rx.data) \in Nat /\ Len(s.buf) + Len(s.rx.data) <= Buf
        BY ONLY <2>1, <2>2, SegmentFits
      <4>3. Len(a.buf) \in Nat /\ Len(a.buf) <= Buf
        BY ONLY <4>1, <4>2
      <4>4. a.rd = 0 /\ Len(a.buf) \in Nat
        BY ONLY <4>1, <4>3, Zenon
      <4>5. a.rd <= Len(a.buf)
        BY ONLY <4>4
      <4> QED
        BY ONLY <4>3, <4>5
    <3> QED
      BY ONLY <2>2, <2>4, <2>5, <3>1 DEF SrvBase, AtPlace
  <2>7. SrvOK(Stop(a)) /\ Stop(a).rx = s.rx
    BY ONLY <2>5, <2>6, SrvStopOK
  <2>8. /\ SrvBase(v) /\ v.rx = s.rx
        /\ v.st = "ABORT" \/ (AtPlace(v) /\ v.buf = <<>> /\ v.rd = 0)
    <3>1. 0 \in 0..2
      OBVIOUS
    <3> QED
      BY ONLY <2>5, <2>6, <3>1, ValidateIs
  <2> HIDE DEF v
  <2>9. /\ SrvBase(w) /\ w.rx = s.rx
        /\ w.st = "ABORT" \/ (AtPlace(w) /\ w.rd = 0 /\ Len(w.buf) + Seg + 2 <= Buf)
    <3>1. CASE writes
      <4>1. Len(<<>>) = 0
        OBVIOUS
      <4> QED
        BY ONLY <2>8, <3>1, <4>1, SdoAssumption
    <3>2. CASE ~writes
      <4>1. Len(a.buf) + Seg + 2 <= Buf
        BY ONLY <2>6, <3>2, SdoAssumption
      <4> QED
        BY ONLY <2>5, <2>6, <3>2, <4>1
    <3> QED
      BY ONLY <3>1, <3>2
  <2> HIDE DEF w
  <2>10. CASE a.tran > a.len
    BY ONLY <1>1, <1>4, <2>7, <2>10 DEF r
  <2>11. CASE ~(a.tran > a.len) /\ w.st = "ABORT"
    <3>1. r = w
      BY ONLY <1>1, <1>4, <2>11
    <3>2. SrvAt(w)
      BY ONLY <2>11, SrvAtIs DEF Others
    <3> QED
      BY ONLY <2>9, <3>1, <3>2 DEF r, SrvOK
  <2>12. CASE ~(a.tran > a.len) /\ w.st # "ABORT"
    <3>1. r = done
      BY ONLY <1>1, <1>4, <2>12
    <3>2. "DOWNLOAD_SEGMENT_RSP" \in States /\ "DOWNLOAD_SEGMENT_RSP" \in DownSegment
      BY StatesAre DEF DownSegment
    <3>3. /\ SrvBase(done) /\ AtPlace(done) /\ done.rd = 0 /\ done.buf = w.buf
          /\ done.st = "DOWNLOAD_SEGMENT_RSP" /\ done.rx = s.rx
      BY ONLY <2>9, <2>12, <3>2, SrvStateIs
    <3> HIDE DEF done
    <3>4. SrvAt(done)
      BY ONLY <2>9, <2>12, <3>2, <3>3, SrvAtIs
    <3> QED
      BY ONLY <3>1, <3>3, <3>4 DEF r, SrvOK
  <2> QED
    BY ONLY <2>10, <2>11, <2>12
<1> QED
  BY ONLY <1>3, <1>4

LEMMA EndBlockDownloadOK ==
  ASSUME NEW s, SrvOK(s), s.rx \in Frames, s.st = "DOWNLOAD_BLK_END_REQ"
  PROVE  LET r == EndBlockDownload(s) IN SrvOK(r) /\ r.rx = s.rx
<1> DEFINE n == Len(s.buf) - s.rx.ind
           a == [s EXCEPT !.tran = @ - s.rx.ind, !.buf = Front_(@, n)]
           w == validateAndWriteToOD(a, 2, s.rx.crc)
           done == [w EXCEPT !.st = "DOWNLOAD_BLK_END_RSP"]
           r == EndBlockDownload(s)
<1>1. r = IF s.rx.c # "blkEnd" \/ n <= 0 THEN Stop(s) ELSE IF w.st = "ABORT" THEN w ELSE done
  BY DEF EndBlockDownload
<1> HIDE DEF r
<1>2. SrvOK(Stop(s)) /\ Stop(s).rx = s.rx
  BY SrvStopOK DEF SrvOK
<1>3. CASE s.rx.c # "blkEnd" \/ n <= 0
  BY ONLY <1>1, <1>2, <1>3 DEF r
<1>4. CASE ~(s.rx.c # "blkEnd" \/ n <= 0)
  <2>1. s.rx.ind \in Nat
    BY FrameIs
  <2>2. /\ s \in SrvRecord /\ AtPlace(s) /\ s.rd = 0 /\ Len(s.buf) <= s.tran
        /\ s.buf \in Data /\ Len(s.buf) \in Nat /\ s.tran \in Nat /\ s.nod <= Seg
        /\ Len(s.buf) <= Buf
    BY LenIs DEF SrvOK, SrvBase, SrvAt, DownBlock, SrvRecord
  <2>3. n \in Nat /\ n <= Len(s.buf) /\ s.tran - s.rx.ind \in Nat
    BY ONLY <1>4, <2>1, <2>2
  <2> HIDE DEF n
  <2>4. Front_(s.buf, n) \in Data /\ Len(Front_(s.buf, n)) = n
    BY ONLY <2>2, <2>3, FrontIs
  <2>5. a \in SrvRecord
    BY ONLY <2>2, <2>3, <2>4 DEF SrvRecord
  <2>6. /\ a.buf = Front_(s.buf, n) /\ a.st = s.st /\ a.idx = s.idx /\ a.pos = s.pos
        /\ a.len = s.len /\ a.od = s.od /\ a.rd = s.rd /\ a.nod = s.nod /\ a.rx = s.rx
    BY ONLY <2>2 DEF SrvRecord
  <2> HIDE DEF a
  <2>7. SrvBase(a) /\ AtPlace(a) /\ a.rd = 0
    BY ONLY <2>2, <2>3, <2>4, <2>5, <2>6, SdoAssumption DEF SrvBase, AtPlace
  <2>8. SrvBase(w) /\ w.rx = s.rx
    <3>1. 2 \in 0..2
      OBVIOUS
    <3> QED
      BY ONLY <2>6, <2>7, <3>1, ValidateIs
  <2> HIDE DEF w
  <2>9. CASE w.st = "ABORT"
    <3>1. r = w
      BY ONLY <1>1, <1>4, <2>9
    <3>2. SrvAt(w)
      BY ONLY <2>9, SrvAtIs DEF Others
    <3> QED
      BY ONLY <2>8, <3>1, <3>2 DEF r, SrvOK
  <2>10. CASE w.st # "ABORT"
    <3>1. r = done
      BY ONLY <1>1, <1>4, <2>10
    <3>2. "DOWNLOAD_BLK_END_RSP" \in States /\ "DOWNLOAD_BLK_END_RSP" \in Others
      BY StatesAre DEF Others
    <3>3. SrvBase(done) /\ done.st = "DOWNLOAD_BLK_END_RSP" /\ done.rx = s.rx
      BY ONLY <2>8, <3>2, SrvStateIs
    <3> HIDE DEF done
    <3>4. SrvAt(done)
      BY ONLY <3>2, <3>3, SrvAtIs
    <3> QED
      BY ONLY <3>1, <3>3, <3>4 DEF r, SrvOK
  <2> QED
    BY ONLY <2>9, <2>10
<1> QED
  BY ONLY <1>3, <1>4

LEMMA InitiateBlockUploadOK ==
  ASSUME NEW s, SrvBase(s), s.rx \in Frames, s.rd = 0, s.fin = 0 => AtPlace(s),
         s.ind > 0 /\ s.ind <= Exped => s.ind <= Len(s.buf)
  PROVE  LET r == InitiateBlockUpload(s) IN SrvOK(r) /\ r.rx = s.rx
<1> DEFINE small == [s EXCEPT !.st = "UPLOAD_INITIATE_RSP"]
           block == [s EXCEPT !.crc = s.buf, !.blk = s.rx.blk, !.st = "UPLOAD_BLK_INITIATE_RSP"]
           r == InitiateBlockUpload(s)
<1>1. r = small \/ r = Stop(s) \/ r = block
  BY DEF InitiateBlockUpload
<1>2. SrvOK(Stop(s)) /\ Stop(s).rx = s.rx
  BY SrvStopOK
<1>3. /\ s \in SrvRecord /\ s.tran \in Nat /\ s.buf \in Data /\ s.rx.blk \in Nat
      /\ s.rd <= Len(s.buf) /\ Len(s.buf) <= Buf /\ s.nod <= Seg
  BY FrameIs DEF SrvBase, SrvRecord
<1>4. /\ "UPLOAD_INITIATE_RSP" \in States /\ "UPLOAD_INITIATE_RSP" \in UpStart
      /\ "UPLOAD_BLK_INITIATE_RSP" \in States /\ "UPLOAD_BLK_INITIATE_RSP" \in UpStart
  BY StatesAre DEF UpStart
<1>5. SrvOK(small) /\ small.rx = s.rx
  <2>1. /\ SrvBase(small) /\ (AtPlace(s) => AtPlace(small)) /\ small.st = "UPLOAD_INITIATE_RSP"
        /\ small.rd = 0 /\ small.tran = s.tran /\ small.fin = s.fin /\ small.ind = s.ind
        /\ small.buf = s.buf /\ small.rx = s.rx
    BY <1>4, SrvStateIs
  <2> HIDE DEF small
  <2>2. SrvAt(small)
    BY <1>3, <1>4, <2>1, SrvAtIs
  <2> QED
    BY <2>1, <2>2 DEF SrvOK
<1>6. SrvOK(block) /\ block.rx = s.rx
  <2>1. block \in SrvRecord
    BY ONLY <1>3, <1>4 DEF SrvRecord
  <2>2. /\ block.st = "UPLOAD_BLK_INITIATE_RSP" /\ block.rd = s.rd /\ block.tran = s.tran
        /\ block.fin = s.fin /\ block.buf = s.buf /\ block.rx = s.rx
        /\ block.idx = s.idx /\ block.pos = s.pos /\ block.len = s.len /\ block.od = s.od
        /\ block.nod = s.nod
    BY ONLY <1>3 DEF SrvRecord
  <2> HIDE DEF block
  <2>3. SrvBase(block) /\ (AtPlace(s) => AtPlace(block))
    BY ONLY <1>3, <2>1, <2>2 DEF SrvBase, AtPlace
  <2>4. SrvAt(block)
    BY <1>3, <1>4, <2>2, <2>3, SrvAtIs
  <2> QED
    BY <2>2, <2>3, <2>4 DEF SrvOK
<1> HIDE DEF r, small, block
<1> QED
  BY ONLY <1>1, <1>2, <1>5, <1>6 DEF r

LEMMA ConfirmSubBlockOK ==
  ASSUME NEW s, SrvOK(s), s.rx \in Frames, s.st \in UpBlock
  PROVE  LET r == ConfirmSubBlock(s) IN SrvOK(r) /\ r.rx = s.rx
<1> DEFINE lost == (s.seq - s.rx.seq) * Seg - s.nod
           a == IF s.rx.seq < s.seq THEN [s EXCEPT !.rd = @ - lost, !.tran = @ - lost] ELSE s
           b == [a EXCEPT !.blk = s.rx.blk]
           d == readFromOd(b, s.rx.blk * Seg, TRUE)
           end == [d EXCEPT !.st = "UPLOAD_BLK_END_SREQ"]
           on == [d EXCEPT !.seq = 0, !.st = "UPLOAD_BLK_SUBBLOCK_SREQ"]
           r == ConfirmSubBlock(s)
<1>1. r = IF s.rx.c # "subBlock" \/ s.rx.blk < 1 \/ s.rx.seq > s.seq THEN Stop(s)
          ELSE IF d.st = "ABORT" THEN d ELSE IF Len(d.buf) = d.rd THEN end ELSE on
  BY DEF ConfirmSubBlock
<1> HIDE DEF r
<1>2. SrvOK(Stop(s)) /\ Stop(s).rx = s.rx
  BY SrvStopOK DEF SrvOK
<1>3. CASE s.rx.c # "subBlock" \/ s.rx.blk < 1 \/ s.rx.seq > s.seq
  BY ONLY <1>1, <1>2, <1>3 DEF r
<1>4. CASE ~(s.rx.c # "subBlock" \/ s.rx.blk < 1 \/ s.rx.seq > s.seq)
  <2>1. s.rx.seq \in Nat /\ s.rx.blk \in Nat
    BY FrameIs
  <2>2. /\ s \in SrvRecord /\ s.rd \in Nat /\ s.tran \in Nat /\ s.nod \in Nat /\ s.seq \in Nat
        /\ s.rd <= Len(s.buf) /\ Len(s.buf) <= Buf /\ s.nod <= Seg /\ Len(s.buf) \in Nat
        /\ s.rd <= s.tran /\ (s.fin = 0 => AtPlace(s))
        /\ (s.seq > 0 => s.seq * Seg <= s.rd + s.nod)
        /\ Seg \in Nat
    BY LenIs, SdoAssumption DEF SrvOK, SrvBase, SrvAt, SrvRecord
  <2>3. a \in SrvRecord /\ a.rd \in Nat /\ a.tran \in Nat /\ a.rd <= s.rd /\ a.rd <= a.tran
    <3>1. CASE s.rx.seq < s.seq
      <4>1. lost \in Int /\ 0 <= lost /\ lost <= s.rd
        <5>1. s.seq * Seg <= s.rd + s.nod
          BY ONLY <2>1, <2>2, <3>1
        <5>2. lost \in Nat /\ lost <= s.rd
          BY ONLY <2>1, <2>2, <3>1, <5>1, GoBack
        <5> HIDE DEF lost
        <5> QED
          BY ONLY <5>2
      <4> HIDE DEF lost
      <4>2. s.rd - lost \in Nat /\ s.tran - lost \in Nat /\ s.rd - lost <= s.rd
            /\ s.rd - lost <= s.tran - lost
        BY ONLY <2>2, <4>1
      <4>3. [s EXCEPT !.rd = s.rd - lost, !.tran = s.tran - lost] \in SrvRecord
        BY ONLY <2>2, <4>2 DEF SrvRecord
      <4>4. a = [s EXCEPT !.rd = s.rd - lost, !.tran = s.tran - lost]
        BY ONLY <2>2, <3>1 DEF SrvRecord
      <4>5. a.rd = s.rd - lost /\ a.tran = s.tran - lost
        BY ONLY <2>2, <4>4 DEF SrvRecord
      <4> HIDE DEF a
      <4> QED
        BY ONLY <4>2, <4>3, <4>4, <4>5
    <3>2. CASE ~(s.rx.seq < s.seq)
      BY ONLY <2>2, <3>2
    <3> QED
      BY ONLY <3>1, <3>2
  <2>4. /\ a.buf = s.buf /\ a.st = s.st /\ a.idx = s.idx /\ a.pos = s.pos /\ a.len = s.len
        /\ a.od = s.od /\ a.nod = s.nod /\ a.rx = s.rx /\ a.fin = s.fin
    BY ONLY <2>2 DEF SrvRecord
  <2> HIDE DEF a
  <2>5. b \in SrvRecord
    BY ONLY <2>1, <2>3 DEF SrvRecord
  <2>6. /\ b.buf = s.buf /\ b.st = s.st /\ b.idx = s.idx /\ b.pos = s.pos /\ b.len = s.len
        /\ b.od = s.od /\ b.nod = s.nod /\ b.rx = s.rx /\ b.fin = s.fin
        /\ b.rd = a.rd /\ b.tran = a.tran
    BY ONLY <2>3, <2>4 DEF SrvRecord
  <2> HIDE DEF b
  <2>7. Readable(b)
    <3>1. b.rd <= Len(b.buf)
      BY ONLY <2>2, <2>3, <2>6
    <3> QED
      BY ONLY <2>2, <2>5, <2>6, <3>1 DEF Readable, AtPlace
  <2>8. Read(d, b, s.rx.blk * Seg)
    <3>1. s.rx.blk * Seg \in Nat /\ TRUE \in BOOLEAN
      BY ONLY <2>1, <2>2
    <3> QED
      BY ONLY <2>7, <3>1, ReadIs
  <2> HIDE DEF d
  <2>9. /\ SrvBase(d) /\ d \in SrvRecord /\ d.rx = s.rx /\ d.rd <= d.tran
        /\ d.st # "ABORT" => (d.fin = 0 => AtPlace(d))
    <3>1. d.rd \in {0, b.rd} /\ d.tran = b.tran
      BY ONLY <2>8 DEF Read
    <3>2. d.rd <= d.tran
      BY ONLY <2>3, <2>6, <3>1
    <3> QED
      BY ONLY <2>2, <2>6, <2>8, <3>2 DEF Read, SrvBase
  <2>10. CASE d.st = "ABORT"
    <3>1. r = d
      BY ONLY <1>1, <1>4, <2>10
    <3>2. SrvAt(d)
      BY ONLY <2>10, SrvAtIs DEF Others
    <3> QED
      BY ONLY <2>9, <3>1, <3>2 DEF r, SrvOK
  <2>11. CASE d.st # "ABORT" /\ Len(d.buf) = d.rd
    <3>1. r = end
      BY ONLY <1>1, <1>4, <2>11
    <3>2. "UPLOAD_BLK_END_SREQ" \in States /\ "UPLOAD_BLK_END_SREQ" \in Others
      BY StatesAre DEF Others
    <3>3. SrvBase(end) /\ end.st = "UPLOAD_BLK_END_SREQ" /\ end.rx = s.rx
      BY ONLY <2>9, <3>2, SrvStateIs
    <3> HIDE DEF end
    <3>4. SrvAt(end)
      BY ONLY <3>2, <3>3, SrvAtIs
    <3> QED
      BY ONLY <3>1, <3>3, <3>4 DEF r, SrvOK
  <2>12. CASE d.st # "ABORT" /\ Len(d.buf) # d.rd
    <3>1. r = on
      BY ONLY <1>1, <1>4, <2>12
    <3>2. "UPLOAD_BLK_SUBBLOCK_SREQ" \in States /\ "UPLOAD_BLK_SUBBLOCK_SREQ" \in UpBlock
      BY StatesAre DEF UpBlock
    <3>3. on \in SrvRecord
      BY ONLY <2>9, <3>2 DEF SrvRecord
    <3>4. /\ on.st = "UPLOAD_BLK_SUBBLOCK_SREQ" /\ on.seq = 0 /\ on.rx = s.rx
          /\ on.rd = d.rd /\ on.tran = d.tran /\ on.fin = d.fin /\ on.buf = d.buf
          /\ on.idx = d.idx /\ on.pos = d.pos /\ on.len = d.len /\ on.od = d.od /\ on.nod = d.nod
      BY ONLY <2>9 DEF SrvRecord
    <3> HIDE DEF on
    <3>5. SrvBase(on) /\ (on.fin = 0 => AtPlace(on))
      BY ONLY <2>9, <2>12, <3>3, <3>4 DEF SrvBase, AtPlace
    <3>6. SrvAt(on)
      BY ONLY <2>9, <3>2, <3>4, <3>5, SrvAtIs
    <3> QED
      BY ONLY <3>1, <3>4, <3>5, <3>6 DEF r, SrvOK
  <2> QED
    BY ONLY <2>10, <2>11, <2>12
<1> QED
  BY ONLY <1>3, <1>4

LEMMA SrvTakenOK ==
  ASSUME NEW s, s.rx \in Frames,
         \/ s.st # "IDLE" /\ SrvOK(s)
         \/ SrvBase(s) /\ Requested(s)
  PROVE  LET r == SrvTaken(s) IN SrvOK(r) /\ r.rx = s.rx
<1> DEFINE r == SrvTaken(s)
           Good(e) == SrvOK(e) /\ e.rx = s.rx
<1>1. SrvBase(s) /\ Good(Stop(s))
  BY SrvStopOK DEF SrvOK
<1>2. CASE s.st = "ABORT"
  <2>1. r = s /\ SrvAt(s)
    BY ONLY <1>2, SrvAtIs DEF SrvTaken, Others
  <2> QED
    BY ONLY <1>1, <2>1 DEF SrvOK
<1>3. CASE s.st = "DOWNLOAD_INITIATE_REQ"
  <2>1. SrvBase(s) /\ Requested(s)
    BY <1>3 DEF SrvOK, SrvAt, DownRequest
  <2>2. AtPlace(s) /\ s.rx.c = "download"
    BY ONLY <1>3, <2>1 DEF Requested, UpRequest
  <2>3. r = InitiateDownload(s)
    BY ONLY <1>3 DEF SrvTaken
  <2> QED
    BY ONLY <2>1, <2>2, <2>3, s.rx \in Frames, InitiateDownloadOK
<1>4. CASE s.st = "DOWNLOAD_SEGMENT_REQ"
  <2>1. SrvOK(s)
    BY <1>4 DEF Requested, DownRequest, UpRequest
  <2>2. r = DownloadSegment(s)
    BY ONLY <1>4 DEF SrvTaken
  <2> QED
    BY ONLY <1>4, <2>1, <2>2, s.rx \in Frames, DownloadSegmentOK
<1>5. CASE s.st = "UPLOAD_INITIATE_REQ"
  <2>1. SrvBase(s) /\ Requested(s)
    BY <1>5 DEF SrvOK, SrvAt, UpRequest
  <2>2. s.rd = 0 /\ (s.fin = 0 => AtPlace(s)) /\ (s.ind > 0 /\ s.ind <= Exped => s.ind <= Len(s.buf))
    BY ONLY <1>5, <2>1 DEF Requested, DownRequest
  <2> DEFINE e == [s EXCEPT !.st = "UPLOAD_INITIATE_RSP"]
  <2>3. r = e
    BY ONLY <1>5 DEF SrvTaken
  <2>4. "UPLOAD_INITIATE_RSP" \in States /\ "UPLOAD_INITIATE_RSP" \in UpStart
    BY StatesAre DEF UpStart
  <2>5. /\ SrvBase(e) /\ (AtPlace(s) => AtPlace(e)) /\ e.st = "UPLOAD_INITIATE_RSP" /\ e.rd = s.rd
        /\ e.tran = s.tran /\ e.fin = s.fin /\ e.ind = s.ind /\ e.buf = s.buf /\ e.rx = s.rx
    BY ONLY <2>1, <2>4, SrvStateIs
  <2> HIDE DEF e
  <2>6. e.rd <= e.tran
    BY <2>1, <2>2, <2>5 DEF SrvBase, SrvRecord
  <2>7. SrvAt(e)
    BY ONLY <2>2, <2>4, <2>5, <2>6, SrvAtIs
  <2> QED
    BY ONLY <2>3, <2>5, <2>7 DEF SrvOK
<1>6. CASE s.st = "UPLOAD_SEGMENT_REQ"
  <2>1. SrvOK(s)
    BY <1>6 DEF Requested, DownRequest, UpRequest
  <2> DEFINE e == [s EXCEPT !.st = "UPLOAD_SEGMENT_RSP"]
  <2>2. r = e \/ r = Stop(s)
    BY ONLY <1>6 DEF SrvTaken
  <2>3. "UPLOAD_SEGMENT_RSP" \in States /\ "UPLOAD_SEGMENT_RSP" \in UpStart
    BY StatesAre DEF UpStart
  <2>4. /\ SrvBase(e) /\ (AtPlace(s) => AtPlace(e)) /\ e.st = "UPLOAD_SEGMENT_RSP" /\ e.rd = s.rd
        /\ e.tran = s.tran /\ e.fin = s.fin /\ e.rx = s.rx
    BY ONLY <1>1, <2>3, SrvStateIs
  <2>5. s.rd <= s.tran /\ (s.fin = 0 => AtPlace(s))
    BY ONLY <1>6, <2>1 DEF SrvOK, SrvAt, UpStart
  <2> HIDE DEF e
  <2>6. SrvAt(e)
    BY ONLY <2>3, <2>4, <2>5, SrvAtIs
  <2> QED
    BY ONLY <1>1, <2>2, <2>4, <2>6 DEF SrvOK
<1>7. CASE s.st = "DOWNLOAD_BLK_INITIATE_REQ"
  <2>1. SrvBase(s) /\ Requested(s)
    BY <1>7 DEF SrvOK, SrvAt, DownRequest
  <2>2. AtPlace(s)
    BY ONLY <1>7, <2>1 DEF Requested, UpRequest
  <2> DEFINE e == [s EXCEPT !.st = "DOWNLOAD_BLK_INITIATE_RSP", !.ind = s.rx.ind, !.fin = 0]
  <2>3. r = e \/ r = Stop(s)
    BY ONLY <1>7 DEF SrvTaken
  <2>4. "DOWNLOAD_BLK_INITIATE_RSP" \in States /\ "DOWNLOAD_BLK_INITIATE_RSP" \in DownStart
    BY StatesAre DEF DownStart
  <2>5. e \in SrvRecord
    <3>1. s.rx.ind \in Nat
      BY FrameIs
    <3> QED
      BY ONLY <1>1, <2>4, <3>1 DEF SrvBase, SrvRecord, Bit
  <2>6. /\ e.st = "DOWNLOAD_BLK_INITIATE_RSP" /\ e.rx = s.rx /\ e.rd = s.rd
        /\ e.buf = s.buf /\ e.idx = s.idx /\ e.pos = s.pos /\ e.len = s.len /\ e.od = s.od
        /\ e.nod = s.nod
    BY ONLY <1>1 DEF SrvBase, SrvRecord
  <2> HIDE DEF e
  <2>7. SrvBase(e) /\ AtPlace(e)
    BY ONLY <1>1, <2>2, <2>5, <2>6 DEF SrvBase, AtPlace
  <2>8. SrvAt(e)
    BY ONLY <2>4, <2>6, <2>7, SrvAtIs
  <2> QED
    BY ONLY <1>1, <2>3, <2>6, <2>7, <2>8 DEF SrvOK
<1>8. CASE s.st = "DOWNLOAD_BLK_SUBBLOCK_REQ"
  <2>1. SrvOK(s)
    BY <1>8 DEF Requested, DownRequest, UpRequest
  <2>2. r = s
    BY ONLY <1>8 DEF SrvTaken
  <2> QED
    BY ONLY <2>1, <2>2
<1>9. CASE s.st = "DOWNLOAD_BLK_END_REQ"
  <2>1. SrvOK(s)
    BY <1>9 DEF Requested, DownRequest, UpRequest
  <2>2. r = EndBlockDownload(s)
    BY ONLY <1>9 DEF SrvTaken
  <2> QED
    BY ONLY <1>9, <2>1, <2>2, s.rx \in Frames, EndBlockDownloadOK
<1>10. CASE s.st = "UPLOAD_BLK_INITIATE_REQ"
  <2>1. SrvBase(s) /\ Requested(s)
    BY <1>10 DEF SrvOK, SrvAt, UpRequest
  <2>2. s.rd = 0 /\ (s.fin = 0 => AtPlace(s)) /\ (s.ind > 0 /\ s.ind <= Exped => s.ind <= Len(s.buf))
    BY ONLY <1>10, <2>1 DEF Requested, DownRequest
  <2>3. r = InitiateBlockUpload(s)
    BY ONLY <1>10 DEF SrvTaken
  <2> QED
    BY ONLY <2>1, <2>2, <2>3, s.rx \in Frames, InitiateBlockUploadOK
<1>11. CASE s.st = "UPLOAD_BLK_INITIATE_REQ2"
  <2>1. SrvOK(s)
    BY <1>11 DEF Requested, DownRequest, UpRequest
  <2> DEFINE e == [s EXCEPT !.seq = 0, !.st = "UPLOAD_BLK_SUBBLOCK_SREQ"]
  <2>2. r = e \/ r = Stop(s)
    BY ONLY <1>11 DEF SrvTaken
  <2>3. "UPLOAD_BLK_SUBBLOCK_SREQ" \in States /\ "UPLOAD_BLK_SUBBLOCK_SREQ" \in UpBlock
    BY StatesAre DEF UpBlock
  <2>4. e \in SrvRecord
    BY ONLY <1>1, <2>3 DEF SrvBase, SrvRecord
  <2>5. /\ e.st = "UPLOAD_BLK_SUBBLOCK_SREQ" /\ e.seq = 0 /\ e.rd = s.rd /\ e.tran = s.tran
        /\ e.fin = s.fin /\ e.rx = s.rx /\ e.buf = s.buf /\ e.idx = s.idx
        /\ e.pos = s.pos /\ e.len = s.len /\ e.od = s.od /\ e.nod = s.nod
    BY ONLY <1>1 DEF SrvBase, SrvRecord
  <2>6. s.rd <= s.tran /\ (s.fin = 0 => AtPlace(s))
    BY ONLY <1>11, <2>1 DEF SrvOK, SrvAt, UpStart
  <2> HIDE DEF e
  <2>7. SrvBase(e) /\ (e.fin = 0 => AtPlace(e))
    BY ONLY <1>1, <2>4, <2>5, <2>6 DEF SrvBase, AtPlace
  <2>8. SrvAt(e)
    BY ONLY <2>3, <2>5, <2>6, <2>7, SrvAtIs
  <2> QED
    BY ONLY <1>1, <2>2, <2>5, <2>7, <2>8 DEF SrvOK
<1>12. CASE s.st \in UpBlock
  <2>1. SrvOK(s)
    BY <1>12 DEF Requested, DownRequest, UpRequest, UpBlock
  <2>2. r = ConfirmSubBlock(s)
    BY ONLY <1>12 DEF SrvTaken, UpBlock
  <2> QED
    BY ONLY <1>12, <2>1, <2>2, s.rx \in Frames, ConfirmSubBlockOK
<1>13. CASE s.st \notin UpBlock \cup {"ABORT", "DOWNLOAD_INITIATE_REQ", "DOWNLOAD_SEGMENT_REQ",
         "UPLOAD_INITIATE_REQ", "UPLOAD_SEGMENT_REQ", "DOWNLOAD_BLK_INITIATE_REQ",
         "DOWNLOAD_BLK_SUBBLOCK_REQ", "DOWNLOAD_BLK_END_REQ", "UPLOAD_BLK_INITIATE_REQ",
         "UPLOAD_BLK_INITIATE_REQ2"}
  <2>1. r = Stop(s)
    BY ONLY <1>13 DEF SrvTaken, UpBlock
  <2> QED
    BY ONLY <1>1, <2>1
<1> QED
  BY ONLY <1>2, <1>3, <1>4, <1>5, <1>6, <1>7, <1>8, <1>9, <1>10, <1>11, <1>12, <1>13

LEMMA SrvTakeOK ==
  ASSUME NEW s, SrvOK(s), s.rx \in Frames
  PROVE  SrvOK(SrvTake(s))
<1> DEFINE q == IF s.st = "IDLE" THEN NewRequest(s) ELSE s
           e == SrvTaken(q)
           r == [e EXCEPT !.rx = None]
<1>1. SrvBase(s)
  BY DEF SrvOK
<1>2. SrvOK(e)
  <2>1. CASE s.st = "IDLE"
    <3>1. SrvBase(q) /\ Requested(q) /\ q.rx \in Frames
      BY <1>1, <2>1, NewRequestIs
    <3> HIDE DEF q
    <3> QED
      BY ONLY <3>1, SrvTakenOK
  <2>2. CASE s.st # "IDLE"
    <3>1. q = s
      BY ONLY <2>2
    <3> HIDE DEF q
    <3> QED
      BY <2>2, <3>1, SrvTakenOK
  <2> QED
    BY <2>1, <2>2
<1> HIDE DEF e
<1>3. r \in SrvRecord
  BY ONLY <1>2 DEF SrvOK, SrvBase, SrvRecord
<1>4. /\ r.st = e.st /\ r.idx = e.idx /\ r.ind = e.ind /\ r.tran = e.tran /\ r.fin = e.fin
      /\ r.buf = e.buf /\ r.rd = e.rd /\ r.seq = e.seq /\ r.blk = e.blk /\ r.nod = e.nod
      /\ r.pos = e.pos /\ r.len = e.len /\ r.od = e.od
  BY ONLY <1>2 DEF SrvOK, SrvBase, SrvRecord
<1> HIDE DEF r
<1>5. SrvBase(r)
  BY ONLY <1>2, <1>3, <1>4 DEF SrvOK, SrvBase
<1>6. AtPlace(e) <=> AtPlace(r)
  BY ONLY <1>4 DEF AtPlace
<1>7. SrvAt(r)
  BY ONLY <1>2, <1>4, <1>6 DEF SrvOK, SrvAt
<1> QED
  BY ONLY <1>2, <1>4, <1>5, <1>7 DEF SrvOK, SrvTake, r, e

(***************************************************************************)
(* What the server sends.                                                  *)
(***************************************************************************)
LEMMA FrameOf ==
  ASSUME NEW c \in Commands
  PROVE  LET f == Frame(c) IN
         /\ f \in FrameRecord
         /\ f.c = c /\ f.idx = None /\ f.exp = 0 /\ f.ind = 0 /\ f.t = 0 /\ f.last = 0
         /\ f.data = <<>> /\ f.seq = 0 /\ f.blk = 0 /\ f.crc = <<>>
<1> DEFINE f == [[c |-> "", idx |-> None, exp |-> 0, ind |-> 0, t |-> 0, last |-> 0,
                  data |-> <<>>, seq |-> 0, blk |-> 0, crc |-> <<>>] EXCEPT !.c = c]
<1>1. Frame(c) = f
  BY Zenon DEF Frame, blank
<1>2. <<>> \in Data /\ 0 \in Nat /\ 0 \in Bit /\ None \in Obj \cup {None}
  BY DEF Data, Bit
<1>3. f \in FrameRecord
  BY ONLY <1>2, c \in Commands DEF FrameRecord
<1>4. /\ f.c = c /\ f.idx = None /\ f.exp = 0 /\ f.ind = 0 /\ f.t = 0 /\ f.last = 0
      /\ f.data = <<>> /\ f.seq = 0 /\ f.blk = 0 /\ f.crc = <<>>
  OBVIOUS
<1> HIDE DEF f
<1> QED
  BY ONLY <1>1, <1>3, <1>4

\* A frame that names its object, a toggle bit and numbers, without data.
LEMMA PlainFrame ==
  ASSUME NEW c \in Commands \ {"block", "blkEnd"}, NEW idx \in Obj \cup {None}, NEW ind \in Nat,
         NEW t \in Bit, NEW seq \in Nat, NEW blk \in Nat
  PROVE  /\ Frame(c) \in Frames
         /\ [Frame(c) EXCEPT !.idx = idx] \in Frames
         /\ [Frame(c) EXCEPT !.t = t] \in Frames
         /\ [Frame(c) EXCEPT !.idx = idx, !.ind = ind] \in Frames
         /\ [Frame(c) EXCEPT !.idx = idx, !.blk = blk] \in Frames
         /\ [Frame(c) EXCEPT !.seq = seq, !.blk = blk] \in Frames
<1> DEFINE f == Frame(c)
<1>1. /\ f \in FrameRecord
      /\ f.c = c /\ f.exp = 0 /\ f.last = 0 /\ f.data = <<>>
  BY FrameOf
<1>2. c # "block" /\ c # "blkEnd" /\ Len(<<>>) = 0 /\ Seg \in Nat
  BY SdoAssumption
<1> HIDE DEF f
<1>3. f \in Frames
  BY ONLY <1>1, <1>2 DEF Frames, FrameOK
<1>4. [f EXCEPT !.idx = idx] \in Frames
  <2>1. [f EXCEPT !.idx = idx] \in FrameRecord
    BY <1>1 DEF FrameRecord
  <2>2. FrameOK([f EXCEPT !.idx = idx])
    BY ONLY <1>1, <1>2 DEF FrameOK, FrameRecord
  <2> QED
    BY ONLY <2>1, <2>2 DEF Frames
<1>5. [f EXCEPT !.t = t] \in Frames
  <2>1. [f EXCEPT !.t = t] \in FrameRecord
    BY <1>1 DEF FrameRecord
  <2>2. FrameOK([f EXCEPT !.t = t])
    BY ONLY <1>1, <1>2 DEF FrameOK, FrameRecord
  <2> QED
    BY ONLY <2>1, <2>2 DEF Frames
<1>6. [f EXCEPT !.idx = idx, !.ind = ind] \in Frames
  <2>1. [f EXCEPT !.idx = idx, !.ind = ind] \in FrameRecord
    BY <1>1 DEF FrameRecord
  <2>2. FrameOK([f EXCEPT !.idx = idx, !.ind = ind])
    BY ONLY <1>1, <1>2 DEF FrameOK, FrameRecord
  <2> QED
    BY ONLY <2>1, <2>2 DEF Frames
<1>7. [f EXCEPT !.idx = idx, !.blk = blk] \in Frames
  <2>1. [f EXCEPT !.idx = idx, !.blk = blk] \in FrameRecord
    BY <1>1 DEF FrameRecord
  <2>2. FrameOK([f EXCEPT !.idx = idx, !.blk = blk])
    BY ONLY <1>1, <1>2 DEF FrameOK, FrameRecord
  <2> QED
    BY ONLY <2>1, <2>2 DEF Frames
<1>8. [f EXCEPT !.seq = seq, !.blk = blk] \in Frames
  <2>1. [f EXCEPT !.seq = seq, !.blk = blk] \in FrameRecord
    BY <1>1 DEF FrameRecord
  <2>2. FrameOK([f EXCEPT !.seq = seq, !.blk = blk])
    BY ONLY <1>1, <1>2 DEF FrameOK, FrameRecord
  <2> QED
    BY ONLY <2>1, <2>2 DEF Frames
<1> QED
  BY ONLY <1>3, <1>4, <1>5, <1>6, <1>7, <1>8 DEF f

\* A segment; one of a block; the end of a block; expedited data.
LEMMA SegmentFrame ==
  ASSUME NEW t \in Bit, NEW last \in Bit, NEW d \in Data, Len(d) <= Seg
  PROVE  [Frame("segment") EXCEPT !.t = t, !.last = last, !.data = d] \in Frames
<1> DEFINE f == Frame("segment")
           g == [f EXCEPT !.t = t, !.last = last, !.data = d]
<1>1. f \in FrameRecord /\ f.c = "segment"
  BY FrameOf DEF Commands
<1> HIDE DEF f
<1>2. g \in FrameRecord
  BY <1>1 DEF FrameRecord
<1>3. g.c = "segment" /\ g.data = d
  BY ONLY <1>1 DEF FrameRecord
<1> HIDE DEF g
<1>4. g \in Frames
  BY ONLY <1>2, <1>3, Len(d) <= Seg DEF Frames, FrameOK
<1> QED
  BY ONLY <1>4 DEF f, g

LEMMA BlockFrame ==
  ASSUME NEW seq \in Nat, NEW last \in Bit, NEW d \in Data, Len(d) = Seg
  PROVE  [Frame("block") EXCEPT !.seq = seq, !.last = last, !.data = d] \in Frames
<1> DEFINE f == Frame("block")
           g == [f EXCEPT !.seq = seq, !.last = last, !.data = d]
<1>1. f \in FrameRecord /\ f.c = "block"
  BY FrameOf DEF Commands
<1> HIDE DEF f
<1>2. g \in FrameRecord
  BY <1>1 DEF FrameRecord
<1>3. g.c = "block" /\ g.data = d
  BY ONLY <1>1 DEF FrameRecord
<1> HIDE DEF g
<1>4. g \in Frames
  BY ONLY <1>2, <1>3, Len(d) = Seg DEF Frames, FrameOK
<1> QED
  BY ONLY <1>4 DEF f, g

LEMMA BlockEndFrame ==
  ASSUME NEW n \in Nat, n <= Seg, NEW d \in Data
  PROVE  [Frame("blkEnd") EXCEPT !.ind = n, !.crc = d] \in Frames
<1> DEFINE f == Frame("blkEnd")
           g == [f EXCEPT !.ind = n, !.crc = d]
<1>1. f \in FrameRecord /\ f.c = "blkEnd"
  BY FrameOf DEF Commands
<1> HIDE DEF f
<1>2. g \in FrameRecord
  BY <1>1 DEF FrameRecord
<1>3. g.c = "blkEnd" /\ g.ind = n
  BY ONLY <1>1 DEF FrameRecord
<1> HIDE DEF g
<1>4. g \in Frames
  BY ONLY <1>2, <1>3, n <= Seg DEF Frames, FrameOK
<1> QED
  BY ONLY <1>4 DEF f, g

LEMMA UploadFrame ==
  ASSUME NEW idx \in Obj \cup {None}, NEW n \in Nat, n <= Exped, NEW d \in Data, Len(d) = n
  PROVE  [Frame("uploadOk") EXCEPT !.idx = idx, !.exp = 1, !.ind = n, !.data = d] \in Frames
<1> DEFINE f == Frame("uploadOk")
           g == [f EXCEPT !.idx = idx, !.exp = 1, !.ind = n, !.data = d]
<1>1. f \in FrameRecord /\ f.c = "uploadOk"
  BY FrameOf DEF Commands
<1> HIDE DEF f
<1>2. g \in FrameRecord
  BY <1>1 DEF FrameRecord, Bit
<1>3. g.c = "uploadOk" /\ g.ind = n /\ g.data = d
  BY ONLY <1>1 DEF FrameRecord
<1> HIDE DEF g
<1>4. g \in Frames
  BY ONLY <1>2, <1>3, Len(d) = n, n <= Exped DEF Frames, FrameOK
<1> QED
  BY ONLY <1>4 DEF f, g

LEMMA DownloadFrame ==
  ASSUME NEW idx \in Obj \cup {None}, NEW n \in Nat, n <= Exped, NEW d \in Data, Len(d) = Exped
  PROVE  [[Frame("download") EXCEPT !.idx = idx] EXCEPT !.exp = 1, !.ind = n,
           !.data = d] \in Frames
<1> DEFINE f == Frame("download")
           g == [[f EXCEPT !.idx = idx] EXCEPT !.exp = 1, !.ind = n, !.data = d]
<1>1. f \in FrameRecord /\ f.c = "download"
  BY FrameOf DEF Commands
<1> HIDE DEF f
<1>2. g \in FrameRecord
  BY <1>1 DEF FrameRecord, Bit
<1>3. g.c = "download" /\ g.ind = n /\ g.data = d
  BY ONLY <1>1 DEF FrameRecord
<1> HIDE DEF g
<1>4. g \in Frames
  BY ONLY <1>2, <1>3, Len(d) = Exped, n <= Exped DEF Frames, FrameOK
<1> QED
  BY ONLY <1>4 DEF f, g

LEMMA SrvSendIs ==
  ASSUME NEW e, SrvOK(e), NEW f \in Frames
  PROVE  SrvOK(Send(e, f))
<1> DEFINE r == [e EXCEPT !.out = <<f>>]
<1>1. e \in SrvRecord /\ <<f>> \in Seq(Frames)
  BY DEF SrvOK, SrvBase
<1>2. r \in SrvRecord
  BY ONLY <1>1 DEF SrvRecord
<1>3. /\ r.st = e.st /\ r.idx = e.idx /\ r.ind = e.ind /\ r.tran = e.tran /\ r.fin = e.fin
      /\ r.buf = e.buf /\ r.rd = e.rd /\ r.seq = e.seq /\ r.blk = e.blk /\ r.nod = e.nod
      /\ r.pos = e.pos /\ r.len = e.len /\ r.od = e.od
  BY ONLY <1>1 DEF SrvRecord
<1>4. Send(e, f) = r
  BY DEF Send
<1> HIDE DEF r
<1>5. SrvBase(r) /\ (AtPlace(e) <=> AtPlace(r))
  BY ONLY <1>2, <1>3, SrvOK(e) DEF SrvOK, SrvBase, AtPlace
<1>6. SrvAt(r)
  BY ONLY <1>3, <1>5, SrvOK(e) DEF SrvOK, SrvAt
<1> QED
  BY ONLY <1>4, <1>5, <1>6 DEF SrvOK

LEMMA AnswerUploadOK ==
  ASSUME NEW s, SrvOK(s), s.st = "UPLOAD_INITIATE_RSP"
  PROVE  SrvOK(AnswerUpload(s))
<1> DEFINE exped == s.ind > 0 /\ s.ind <= Exped
           done == [s EXCEPT !.st = "IDLE"]
           on == [s EXCEPT !.st = "UPLOAD_SEGMENT_REQ", !.t = 0]
           f == [Frame("uploadOk") EXCEPT !.idx = s.idx, !.exp = 1, !.ind = s.ind,
                                          !.data = Front_(s.buf, s.ind)]
           g == [Frame("uploadOk") EXCEPT !.idx = s.idx, !.ind = s.ind]
<1>1. AnswerUpload(s) = IF exped THEN Send(done, f) ELSE Send(on, g)
  BY DEF AnswerUpload
<1>2. /\ s \in SrvRecord /\ s.idx \in Obj \cup {None} /\ s.ind \in Nat /\ s.buf \in Data
      /\ s.rd <= s.tran /\ (s.fin = 0 => AtPlace(s)) /\ (exped => s.ind <= Len(s.buf))
      /\ SrvBase(s)
  BY DEF SrvOK, SrvBase, SrvAt, SrvRecord, UpStart
<1>3. CASE exped
  <2>1. f \in Frames
    <3>1. Front_(s.buf, s.ind) \in Data /\ Len(Front_(s.buf, s.ind)) = s.ind
      BY ONLY <1>2, <1>3, FrontIs
    <3> QED
      BY ONLY <1>2, <1>3, <3>1, UploadFrame
  <2>2. SrvOK(done)
    <3>1. "IDLE" \in States /\ "IDLE" \in Others
      BY StatesAre DEF Others
    <3>2. SrvBase(done) /\ done.st = "IDLE"
      BY ONLY <1>2, <3>1, SrvStateIs
    <3> HIDE DEF done
    <3> QED
      BY ONLY <3>1, <3>2, SrvAtIs DEF SrvOK
  <2> HIDE DEF f, done
  <2> QED
    BY ONLY <1>1, <1>3, <2>1, <2>2, SrvSendIs
<1>4. CASE ~exped
  <2>1. g \in Frames
    <3>1. "uploadOk" \in Commands \ {"block", "blkEnd"}
      BY DEF Commands
    <3>2. 0 \in Bit /\ 0 \in Nat
      BY DEF Bit
    <3> QED
      BY ONLY <1>2, <3>1, <3>2, PlainFrame
  <2>2. SrvOK(on)
    <3>1. "UPLOAD_SEGMENT_REQ" \in States /\ "UPLOAD_SEGMENT_REQ" \in UpStart
      BY StatesAre DEF UpStart
    <3>2. on \in SrvRecord
      BY ONLY <1>2, <3>1 DEF SrvRecord, Bit
    <3>3. /\ on.st = "UPLOAD_SEGMENT_REQ" /\ on.rd = s.rd /\ on.tran = s.tran /\ on.fin = s.fin
          /\ on.buf = s.buf /\ on.idx = s.idx /\ on.pos = s.pos /\ on.len = s.len
          /\ on.od = s.od /\ on.nod = s.nod
      BY ONLY <1>2 DEF SrvRecord
    <3> HIDE DEF on
    <3>4. SrvBase(on) /\ (on.fin = 0 => AtPlace(on))
      BY ONLY <1>2, <3>2, <3>3 DEF SrvBase, AtPlace
    <3>5. SrvAt(on)
      BY ONLY <1>2, <3>1, <3>3, <3>4, SrvAtIs
    <3> QED
      BY ONLY <3>4, <3>5 DEF SrvOK
  <2> HIDE DEF g, on
  <2> QED
    BY ONLY <1>1, <1>4, <2>1, <2>2, SrvSendIs
<1> QED
  BY ONLY <1>3, <1>4

LEMMA AnswerSegmentOK ==
  ASSUME NEW s, SrvOK(s), s.st = "UPLOAD_SEGMENT_RSP"
  PROVE  SrvOK(AnswerSegment(s))
<1> DEFINE d == readFromOd(s, Seg, FALSE)
           left == Len(d.buf) - d.rd
           last == left < Seg \/ (d.fin = 1 /\ left = Seg)
           n == Low(left, Seg)
           st == IF last THEN "IDLE" ELSE "UPLOAD_SEGMENT_REQ"
           a == [d EXCEPT !.t = 1 - @, !.rd = @ + n, !.tran = @ + n,
                          !.st = IF last THEN "IDLE" ELSE "UPLOAD_SEGMENT_REQ"]
           f == [Frame("segment") EXCEPT !.t = d.t, !.last = IF last THEN 1 ELSE 0,
                                         !.data = SubSeq(d.buf, d.rd + 1, d.rd + n)]
           wrong == a.ind > 0 /\ (a.tran > a.ind \/ (last /\ a.tran < a.ind))
           r == AnswerSegment(s)
<1>1. r = IF d.st = "ABORT" THEN d ELSE IF wrong THEN Stop(a) ELSE Send(a, f)
  BY DEF AnswerSegment
<1> HIDE DEF r
<1>2. /\ s \in SrvRecord /\ s.rd \in Nat /\ s.tran \in Nat /\ s.rd <= s.tran
      /\ (s.fin = 0 => AtPlace(s)) /\ s.nod <= Seg /\ Readable(s)
  BY DEF SrvOK, SrvBase, SrvAt, SrvRecord, UpStart, Readable
<1>3. Seg \in Nat
  BY SdoAssumption
<1>4. Read(d, s, Seg)
  BY ONLY <1>2, <1>3, FALSE \in BOOLEAN, ReadIs
<1> HIDE DEF d
<1>5. /\ SrvBase(d) /\ d \in SrvRecord /\ d.rd <= d.tran /\ d.rd \in Nat /\ d.tran \in Nat
      /\ d.buf \in Data /\ Len(d.buf) \in Nat /\ d.t \in Bit /\ d.rd <= Len(d.buf)
  <2>1. d \in SrvRecord /\ d.rd \in {0, s.rd} /\ d.tran = s.tran
    BY ONLY <1>4 DEF Read
  <2>2. d.rd <= d.tran
    BY ONLY <1>2, <2>1
  <2>3. SrvBase(d)
    BY ONLY <1>2, <1>4 DEF Read, SrvBase
  <2> QED
    BY ONLY <2>1, <2>2, <2>3, LenIs DEF SrvBase, SrvRecord
<1>6. CASE d.st = "ABORT"
  <2>1. SrvAt(d)
    BY ONLY <1>6, SrvAtIs DEF Others
  <2> QED
    BY ONLY <1>1, <1>5, <1>6, <2>1 DEF SrvOK, r
<1>7. CASE d.st # "ABORT"
  <2>1. d.fin = 0 => AtPlace(d)
    BY ONLY <1>4, <1>7 DEF Read
  <2>2. left \in Nat
    BY ONLY <1>5
  <2>3. n \in Nat /\ n <= left /\ n <= Seg
    BY ONLY <1>3, <2>2, LowIs
  <2> HIDE DEF n
  <2>4. d.rd + n \in Nat /\ d.tran + n \in Nat /\ d.rd + n <= Len(d.buf) /\ d.rd + n <= d.tran + n
    BY ONLY <1>5, <2>3
  <2>5. f \in Frames
    <3>1. /\ SubSeq(d.buf, d.rd + 1, d.rd + n) \in Data
          /\ Len(SubSeq(d.buf, d.rd + 1, d.rd + n)) = n
      BY ONLY <1>5, <2>3, <2>4, SubSeqIs
    <3>2. (IF last THEN 1 ELSE 0) \in Bit
      BY DEF Bit
    <3> HIDE DEF last
    <3> QED
      BY ONLY <1>5, <2>3, <3>1, <3>2, SegmentFrame
  <2>6. st \in States /\ (st \in Others \/ (st \in UpStart /\ st # "UPLOAD_INITIATE_RSP"))
    BY StatesAre DEF Others, UpStart
  <2>7. 1 - d.t \in Bit
    BY ONLY <1>5 DEF Bit
  <2> HIDE DEF f, left
  <2>8. a = [d EXCEPT !.t = 1 - d.t, !.rd = d.rd + n, !.tran = d.tran + n, !.st = st]
    BY ONLY <1>5 DEF SrvRecord
  <2> HIDE DEF a, st, last
  <2>9. a \in SrvRecord
    BY ONLY <1>5, <2>4, <2>6, <2>7, <2>8 DEF SrvRecord
  <2>10. /\ a.st = st /\ a.rd = d.rd + n /\ a.tran = d.tran + n /\ a.fin = d.fin
         /\ a.buf = d.buf /\ a.idx = d.idx /\ a.pos = d.pos /\ a.len = d.len /\ a.od = d.od
         /\ a.nod = d.nod
    BY ONLY <1>5, <2>8 DEF SrvRecord
  <2>11. SrvBase(a) /\ (a.fin = 0 => AtPlace(a))
    BY ONLY <1>5, <2>1, <2>4, <2>9, <2>10 DEF SrvBase, AtPlace
  <2>12. a.rd <= a.tran
    BY ONLY <2>4, <2>10
  <2>13. SrvOK(a)
    BY ONLY <2>6, <2>10, <2>11, <2>12, SrvAtIs DEF SrvOK
  <2>14. SrvOK(Stop(a)) /\ SrvOK(Send(a, f))
    BY ONLY <2>5, <2>11, <2>13, SrvStopOK, SrvSendIs
  <2>15. r = Stop(a) \/ r = Send(a, f)
    BY ONLY <1>1, <1>7
  <2> QED
    BY ONLY <2>14, <2>15 DEF r
<1> QED
  BY ONLY <1>6, <1>7

LEMMA AnswerSubBlockOK ==
  ASSUME NEW s, SrvOK(s), s.st = "DOWNLOAD_BLK_SUBBLOCK_RSP"
  PROVE  SrvOK(AnswerSubBlock(s))
<1> DEFINE empties == s.fin = 0 /\ BlockSize(s) < Cap /\ s.buf # <<>>
           w == IF empties THEN validateAndWriteToOD(s, 1, <<>>) ELSE s
           n == IF s.fin = 1 THEN s.blk ELSE BlockSize(w)
           seq == IF s.fin = 1 THEN w.seq ELSE 0
           rx == IF s.fin = 1 THEN w.rx ELSE None
           st == IF s.fin = 1 THEN "DOWNLOAD_BLK_END_REQ" ELSE "DOWNLOAD_BLK_SUBBLOCK_REQ"
           a == [w EXCEPT !.blk = n, !.seq = IF s.fin = 1 THEN @ ELSE 0,
                          !.rx = IF s.fin = 1 THEN @ ELSE None,
                          !.st = IF s.fin = 1 THEN "DOWNLOAD_BLK_END_REQ"
                                 ELSE "DOWNLOAD_BLK_SUBBLOCK_REQ"]
           f == [Frame("subBlock") EXCEPT !.seq = s.seq, !.blk = n]
           r == AnswerSubBlock(s)
<1>1. r = IF w.st = "ABORT" THEN w ELSE Send(a, f)
  BY DEF AnswerSubBlock
<1> HIDE DEF r
<1>2. /\ SrvBase(s) /\ s \in SrvRecord /\ AtPlace(s) /\ s.rd = 0 /\ Len(s.buf) <= s.tran
      /\ s.fin \in Bit /\ s.seq \in Nat /\ s.blk \in Nat
  BY DEF SrvOK, SrvBase, SrvAt, SrvRecord, DownBlock
<1>3. /\ SrvBase(w)
      /\ \/ w.st = "ABORT"
         \/ /\ AtPlace(w) /\ w.rd = 0 /\ w.tran = s.tran /\ w.fin = s.fin
            /\ w.buf = s.buf \/ w.buf = <<>>
            /\ s.fin = 0 => w.buf = <<>> \/ ~(BlockSize(w) < Cap)
  <2>1. CASE empties
    <3> DEFINE v == validateAndWriteToOD(s, 1, <<>>)
    <3>1. 1 \in 0..2
      OBVIOUS
    <3>2. /\ SrvBase(v)
          /\ \/ v.st = "ABORT"
             \/ /\ AtPlace(v) /\ v.buf = <<>> /\ v.rd = 0 /\ v.tran = s.tran /\ v.fin = s.fin
      BY ONLY <1>2, <3>1, ValidateIs
    <3>3. w = v
      BY ONLY <2>1
    <3> HIDE DEF v, w
    <3> QED
      BY ONLY <3>2, <3>3
  <2>2. CASE ~empties
    <3>1. w = s
      BY ONLY <2>2
    <3> HIDE DEF w
    <3> QED
      BY ONLY <1>2, <2>2, <3>1
  <2> HIDE DEF w, empties
  <2> QED
    BY ONLY <2>1, <2>2
<1> HIDE DEF w
<1>4. CASE w.st = "ABORT"
  <2>1. SrvAt(w)
    BY ONLY <1>4, SrvAtIs DEF Others
  <2> QED
    BY ONLY <1>1, <1>3, <1>4, <2>1 DEF SrvOK, r
<1>5. CASE w.st # "ABORT"
  <2>1. /\ AtPlace(w) /\ w.rd = 0 /\ w.tran = s.tran /\ w \in SrvRecord
        /\ w.buf = s.buf \/ w.buf = <<>>
        /\ s.fin = 0 => w.buf = <<>> \/ ~(BlockSize(w) < Cap)
        /\ w.seq \in Nat /\ w.rx \in Frames \cup {None}
    BY ONLY <1>3, <1>5 DEF SrvBase, SrvRecord
  <2>2. n \in Nat /\ (s.fin = 0 => n * Seg \in Nat /\ Len(w.buf) + n * Seg <= Buf - 2)
    <3>1. CASE s.fin = 1
      BY ONLY <1>2, <3>1
    <3>2. CASE s.fin = 0
      <4>1. n = BlockSize(w)
        BY ONLY <3>2
      <4>2. Len(w.buf) \in Nat
        BY ONLY <2>1, LenIs DEF SrvRecord
      <4> HIDE DEF n
      <4> QED
        BY ONLY <2>1, <3>2, <4>1, <4>2, BlockIs
    <3> QED
      BY ONLY <1>2, <3>1, <3>2 DEF Bit
  <2> HIDE DEF n
  <2>3. f \in Frames
    <3>1. "subBlock" \in Commands \ {"block", "blkEnd"}
      BY DEF Commands
    <3>2. 0 \in Bit /\ 0 \in Nat /\ None \in Obj \cup {None}
      BY DEF Bit
    <3> QED
      BY ONLY <1>2, <2>2, <3>1, <3>2, PlainFrame
  <2> HIDE DEF f
  <2>4. st \in States /\ st \in DownBlock
    BY StatesAre DEF DownBlock
  <2>5. a = [w EXCEPT !.blk = n, !.seq = seq, !.rx = rx, !.st = st]
    BY ONLY <2>1 DEF SrvRecord
  <2>6. seq \in Nat /\ rx \in Frames \cup {None}
    BY ONLY <2>1
  <2>7. (s.fin = 0 => st = "DOWNLOAD_BLK_SUBBLOCK_REQ" /\ seq = 0)
        /\ (s.fin = 1 => st # "DOWNLOAD_BLK_SUBBLOCK_REQ")
    OBVIOUS
  <2> HIDE DEF a, seq, rx, st
  <2>8. a \in SrvRecord
    BY ONLY <2>1, <2>2, <2>4, <2>5, <2>6 DEF SrvRecord
  <2>9. /\ a.st = st /\ a.seq = seq /\ a.blk = n /\ a.rd = w.rd /\ a.tran = w.tran
        /\ a.buf = w.buf /\ a.idx = w.idx /\ a.pos = w.pos /\ a.len = w.len /\ a.od = w.od
        /\ a.nod = w.nod
    BY ONLY <2>1, <2>5 DEF SrvRecord
  <2>10. SrvBase(a) /\ AtPlace(a)
    BY ONLY <1>3, <2>1, <2>8, <2>9 DEF SrvBase, AtPlace
  <2>11. a.rd = 0 /\ Len(a.buf) <= a.tran
    <3>1. s.tran \in Nat /\ Len(<<>>) = 0
      BY ONLY <1>2 DEF SrvRecord
    <3> QED
      BY ONLY <1>2, <2>1, <2>9, <3>1
  <2>12. st = "DOWNLOAD_BLK_SUBBLOCK_REQ" => Len(a.buf) + (a.blk - a.seq) * Seg <= Buf - 2
    <3> SUFFICES ASSUME st = "DOWNLOAD_BLK_SUBBLOCK_REQ"
                 PROVE  Len(a.buf) + (a.blk - a.seq) * Seg <= Buf - 2
      OBVIOUS
    <3>1. s.fin = 0
      BY ONLY <1>2, <2>7, st = "DOWNLOAD_BLK_SUBBLOCK_REQ" DEF Bit
    <3>2. a.buf = w.buf /\ a.seq = 0 /\ a.blk = n
      BY ONLY <2>7, <2>9, <3>1
    <3>3. n - 0 = n /\ n * Seg \in Nat /\ Len(w.buf) + n * Seg <= Buf - 2
      BY ONLY <2>2, <3>1
    <3> QED
      BY ONLY <3>2, <3>3
  <2>13. SrvOK(a)
    BY ONLY <2>4, <2>9, <2>10, <2>11, <2>12, SrvAtIs DEF SrvOK
  <2>14. SrvOK(Send(a, f))
    BY ONLY <2>3, <2>13, SrvSendIs
  <2> QED
    BY ONLY <1>1, <1>5, <2>14 DEF r
<1> QED
  BY ONLY <1>4, <1>5

LEMMA SendBlockSegmentOK ==
  ASSUME NEW s, SrvOK(s), s.st = "UPLOAD_BLK_SUBBLOCK_SREQ"
  PROVE  SrvOK(SendBlockSegment(s))
<1> DEFINE left == Len(s.buf) - s.rd
           last == left < Seg \/ (s.fin = 1 /\ left = Seg)
           n == Low(left, Seg)
           a == [s EXCEPT !.seq = @ + 1, !.rd = @ + n, !.nod = Seg - n, !.tran = @ + n]
           done == a.rd = Len(a.buf)
           stays == ~(done \/ a.seq >= a.blk)
           st == IF done \/ a.seq >= a.blk THEN "UPLOAD_BLK_SUBBLOCK_CRSP" ELSE a.st
           wrong == a.ind > 0 /\ (a.tran > a.ind \/ (done /\ a.tran < a.ind))
           b == [a EXCEPT !.st = IF done \/ a.seq >= a.blk THEN "UPLOAD_BLK_SUBBLOCK_CRSP" ELSE @]
           f == [Frame("block") EXCEPT !.seq = a.seq, !.last = IF last THEN 1 ELSE 0,
                                       !.data = Pad(SubSeq(s.buf, s.rd + 1, s.rd + n))]
           r == SendBlockSegment(s)
<1>1. r = IF wrong THEN Stop(a) ELSE Send(b, f)
  BY DEF SendBlockSegment
<1> HIDE DEF r
<1>2. /\ s \in SrvRecord /\ s.rd \in Nat /\ s.tran \in Nat /\ s.seq \in Nat /\ s.nod \in Nat
      /\ s.buf \in Data /\ Len(s.buf) \in Nat /\ s.rd <= Len(s.buf) /\ Len(s.buf) <= Buf
      /\ s.rd <= s.tran /\ (s.fin = 0 => AtPlace(s))
      /\ (s.seq > 0 => s.nod = 0 /\ s.seq * Seg <= s.rd + s.nod)
  BY LenIs DEF SrvOK, SrvBase, SrvAt, SrvRecord, UpBlock
<1>3. Seg \in Nat
  BY SdoAssumption
<1>4. left \in Nat /\ n \in Nat /\ n <= left /\ n <= Seg /\ (n = left \/ n = Seg)
  <2>1. left \in Nat
    BY ONLY <1>2
  <2> HIDE DEF left
  <2> QED
    BY ONLY <1>3, <2>1, LowIs
<1> DEFINE w == SubSeq(s.buf, s.rd + 1, s.rd + n)
<1>5. w \in Data /\ Len(w) = n
  <2> HIDE DEF n
  <2>1. s.rd + n <= Len(s.buf)
    BY ONLY <1>2, <1>4
  <2> QED
    BY ONLY <1>2, <1>4, <2>1, SubSeqIs
<1> HIDE DEF n, w
<1>6. /\ s.seq + 1 \in Nat /\ s.rd + n \in Nat /\ Seg - n \in Nat /\ s.tran + n \in Nat
      /\ Seg - n <= Seg /\ s.rd + n <= Len(s.buf) /\ s.rd + n <= s.tran + n
      /\ (s.rd + n # Len(s.buf) => n = Seg)
  <2>1. n <= Len(s.buf) - s.rd /\ n <= Seg /\ (n = Len(s.buf) - s.rd \/ n = Seg) /\ n \in Nat
    BY ONLY <1>4
  <2> HIDE DEF left
  <2>2. /\ s.seq \in Nat /\ s.rd \in Nat /\ s.tran \in Nat /\ Len(s.buf) \in Nat
        /\ s.rd <= Len(s.buf) /\ s.rd <= s.tran
    BY ONLY <1>2
  <2>3. s.seq + 1 \in Nat /\ s.rd + n \in Nat /\ s.tran + n \in Nat
    <3>1. s.seq \in Nat /\ s.rd \in Nat /\ s.tran \in Nat /\ n \in Nat
      BY ONLY <2>1, <2>2
    <3> QED
      BY ONLY <3>1
  <2>4. Seg - n \in Nat /\ Seg - n <= Seg
    BY ONLY <1>3, <2>1
  <2>5. s.rd + n <= Len(s.buf) /\ (s.rd + n # Len(s.buf) => n = Seg)
    BY ONLY <1>3, <2>1, <2>2
  <2>6. s.rd + n <= s.tran + n
    BY ONLY <2>1, <2>2
  <2> QED
    BY ONLY <2>3, <2>4, <2>5, <2>6
<1>7. (s.seq + 1) * Seg <= (s.rd + n) + (Seg - n)
  <2>1. (s.seq + 1) * Seg = s.seq * Seg + Seg /\ s.seq * Seg \in Nat
    BY ONLY <1>2, <1>3, TimesIs
  <2>2. s.seq * Seg <= s.rd
    <3>1. CASE s.seq = 0
      BY ONLY <1>2, <1>3, <3>1
    <3>2. CASE s.seq > 0
      BY ONLY <1>2, <3>2
    <3> QED
      BY ONLY <1>2, <3>1, <3>2
  <2>3. (s.rd + n) + (Seg - n) = s.rd + Seg
    <3>1. s.rd \in Nat /\ n \in Nat
      BY ONLY <1>2, <1>4
    <3> QED
      BY ONLY <1>3, <3>1
  <2>4. s.seq * Seg + Seg <= s.rd + Seg
    <3>1. s.rd \in Nat
      BY ONLY <1>2
    <3> QED
      BY ONLY <1>3, <2>1, <2>2, <3>1
  <2> QED
    BY ONLY <2>1, <2>3, <2>4
<1>8. a = [s EXCEPT !.seq = s.seq + 1, !.rd = s.rd + n, !.nod = Seg - n, !.tran = s.tran + n]
  BY ONLY <1>2 DEF SrvRecord
<1> HIDE DEF a
<1>9. a \in SrvRecord
  BY ONLY <1>2, <1>6, <1>8 DEF SrvRecord
<1>10. /\ a.st = s.st /\ a.seq = s.seq + 1 /\ a.rd = s.rd + n /\ a.nod = Seg - n
       /\ a.tran = s.tran + n /\ a.buf = s.buf /\ a.fin = s.fin /\ a.idx = s.idx
       /\ a.pos = s.pos /\ a.len = s.len /\ a.od = s.od
  BY ONLY <1>2, <1>8 DEF SrvRecord
<1>11. SrvBase(a) /\ (a.fin = 0 => AtPlace(a))
  BY ONLY <1>2, <1>6, <1>9, <1>10 DEF SrvBase, AtPlace
<1>12. SrvOK(Stop(a))
  BY ONLY <1>11, SrvStopOK
<1>13. f \in Frames
  <2>1. Pad(w) \in Data /\ Len(Pad(w)) = Seg
    BY ONLY <1>4, <1>5, PadIs
  <2>2. (IF last THEN 1 ELSE 0) \in Bit /\ a.seq \in Nat
    BY ONLY <1>6, <1>10 DEF Bit
  <2> HIDE DEF last
  <2> QED
    BY ONLY <2>1, <2>2, BlockFrame DEF w
<1> HIDE DEF f, wrong
<1>14. SrvOK(b)
  <2>1. st \in {"UPLOAD_BLK_SUBBLOCK_CRSP", "UPLOAD_BLK_SUBBLOCK_SREQ"}
        /\ (st = "UPLOAD_BLK_SUBBLOCK_SREQ" => ~done)
    BY ONLY <1>10, s.st = "UPLOAD_BLK_SUBBLOCK_SREQ"
  <2>2. st \in UpBlock /\ st \in States
    BY ONLY <2>1, StatesAre DEF UpBlock
  <2>3. b = [a EXCEPT !.st = st]
    BY ONLY <1>9 DEF SrvRecord
  <2>4. ~done => n = Seg
    BY ONLY <1>6, <1>10
  <2> HIDE DEF st, b, done
  <2>5. /\ SrvBase(b) /\ b.st = st /\ b.seq = a.seq /\ b.rd = a.rd /\ b.nod = a.nod
        /\ b.tran = a.tran /\ b.fin = a.fin /\ (AtPlace(a) => AtPlace(b))
    BY ONLY <1>11, <2>2, <2>3, SrvStateIs
  <2>6. b.st = "UPLOAD_BLK_SUBBLOCK_SREQ" => b.nod = 0
    <3>1. n = Seg => Seg - n = 0
      BY ONLY <1>3
    <3> QED
      BY ONLY <1>10, <2>1, <2>4, <2>5, <3>1
  <2>7. b.rd <= b.tran /\ b.seq * Seg <= b.rd + b.nod
    BY ONLY <1>6, <1>7, <1>10, <2>5
  <2>8. b.fin = 0 => AtPlace(b)
    BY ONLY <1>11, <2>5
  <2>9. SrvAt(b)
    BY ONLY <2>2, <2>5, <2>6, <2>7, <2>8, SrvAtIs
  <2> QED
    BY ONLY <2>5, <2>9 DEF SrvOK
<1> HIDE DEF b
<1>15. SrvOK(Send(b, f))
  BY ONLY <1>13, <1>14, SrvSendIs
<1> QED
  BY ONLY <1>1, <1>12, <1>15 DEF r

LEMMA SrvSendOK ==
  ASSUME NEW s, SrvOK(s)
  PROVE  SrvOK(SrvSend(s))
<1> DEFINE r == SrvSend(s)
<1>1. /\ SrvBase(s) /\ SrvAt(s) /\ s \in SrvRecord /\ s.fin \in Bit /\ s.t \in Bit
      /\ s.idx \in Obj \cup {None} /\ s.ind \in Nat /\ s.nod \in Nat /\ s.nod <= Seg
      /\ s.crc \in Data /\ s.st \in States
  BY DEF SrvOK, SrvBase, SrvRecord
<1>2. Seg \in Nat \ {0} /\ Buf \in Nat /\ Seg + 2 <= Buf
  BY SdoAssumption
<1>3. <<>> \in Data /\ Len(<<>>) = 0 /\ 0 \in Bit /\ 0 \in Nat
  BY DEF Data, Bit
<1>4. CASE s.st = "DOWNLOAD_INITIATE_RSP"
  <2> DEFINE done == [s EXCEPT !.st = "IDLE"]
             on == [s EXCEPT !.t = 0, !.tran = 0, !.buf = <<>>, !.rd = 0,
                      !.st = "DOWNLOAD_SEGMENT_REQ"]
             f == [Frame("downloadOk") EXCEPT !.idx = s.idx]
  <2>1. r = Send(IF s.fin = 1 THEN done ELSE on, f)
    BY ONLY <1>4 DEF SrvSend
  <2> HIDE DEF r
  <2>2. f \in Frames
    <3>1. "downloadOk" \in Commands \ {"block", "blkEnd"}
      BY DEF Commands
    <3> QED
      BY ONLY <1>1, <1>3, <3>1, PlainFrame
  <2>3. SrvOK(done)
    <3>1. "IDLE" \in States /\ "IDLE" \in Others
      BY StatesAre DEF Others
    <3>2. SrvBase(done) /\ done.st = "IDLE"
      BY ONLY <1>1, <3>1, SrvStateIs
    <3> HIDE DEF done
    <3> QED
      BY ONLY <3>1, <3>2, SrvAtIs DEF SrvOK
  <2>4. SrvOK(on)
    <3>1. "DOWNLOAD_SEGMENT_REQ" \in States /\ "DOWNLOAD_SEGMENT_REQ" \in DownSegment
      BY StatesAre DEF DownSegment
    <3>2. on \in SrvRecord
      BY ONLY <1>1, <1>3, <3>1 DEF SrvRecord
    <3>3. /\ on.st = "DOWNLOAD_SEGMENT_REQ" /\ on.rd = 0 /\ on.buf = <<>> /\ on.idx = s.idx
          /\ on.pos = s.pos /\ on.len = s.len /\ on.od = s.od /\ on.nod = s.nod
      BY ONLY <1>1 DEF SrvRecord
    <3> HIDE DEF on
    <3>4. AtPlace(s)
      BY ONLY <1>1, <1>4 DEF SrvAt, DownStart
    <3>5. AtPlace(on)
      BY ONLY <3>3, <3>4 DEF AtPlace
    <3>6. on.rd <= Len(on.buf) /\ Len(on.buf) <= Buf /\ Len(on.buf) + Seg + 2 <= Buf
      BY ONLY <1>2, <1>3, <3>3
    <3>7. SrvBase(on)
      BY ONLY <1>1, <3>2, <3>3, <3>6 DEF SrvBase
    <3> QED
      BY ONLY <3>1, <3>3, <3>5, <3>6, <3>7, SrvAtIs DEF SrvOK
  <2> HIDE DEF f, on, done
  <2> QED
    BY ONLY <2>1, <2>2, <2>3, <2>4, SrvSendIs DEF r
<1>5. CASE s.st = "DOWNLOAD_SEGMENT_RSP"
  <2> DEFINE st == IF s.fin = 1 THEN "IDLE" ELSE "DOWNLOAD_SEGMENT_REQ"
             on == [s EXCEPT !.t = 1 - @, !.st = IF s.fin = 1 THEN "IDLE" ELSE "DOWNLOAD_SEGMENT_REQ"]
             f == [Frame("segmentOk") EXCEPT !.t = s.t]
  <2>1. r = Send(on, f)
    BY ONLY <1>5 DEF SrvSend
  <2> HIDE DEF r
  <2>2. f \in Frames
    <3>1. "segmentOk" \in Commands \ {"block", "blkEnd"}
      BY DEF Commands
    <3> QED
      BY ONLY <1>1, <1>3, <3>1, PlainFrame
  <2>3. SrvOK(on)
    <3>1. st \in States /\ (st \in Others \/ st \in DownSegment)
      BY StatesAre DEF Others, DownSegment
    <3>2. 1 - s.t \in Bit
      BY ONLY <1>1 DEF Bit
    <3>3. on = [s EXCEPT !.t = 1 - s.t, !.st = st]
      BY ONLY <1>1 DEF SrvRecord
    <3> HIDE DEF on, st
    <3>4. on \in SrvRecord
      BY ONLY <1>1, <3>1, <3>2, <3>3 DEF SrvRecord
    <3>5. /\ on.st = st /\ on.rd = s.rd /\ on.buf = s.buf /\ on.idx = s.idx
          /\ on.pos = s.pos /\ on.len = s.len /\ on.od = s.od /\ on.nod = s.nod
      BY ONLY <1>1, <3>3 DEF SrvRecord
    <3>6. AtPlace(s) /\ s.rd = 0 /\ Len(s.buf) + Seg + 2 <= Buf
      BY ONLY <1>1, <1>5 DEF SrvAt, DownSegment
    <3>7. SrvBase(on) /\ AtPlace(on)
      BY ONLY <1>1, <3>4, <3>5, <3>6 DEF SrvBase, AtPlace
    <3> QED
      BY ONLY <3>1, <3>5, <3>6, <3>7, SrvAtIs DEF SrvOK
  <2> HIDE DEF f, on
  <2> QED
    BY ONLY <2>1, <2>2, <2>3, SrvSendIs DEF r
<1>6. CASE s.st = "UPLOAD_INITIATE_RSP"
  <2>1. r = AnswerUpload(s)
    BY ONLY <1>6 DEF SrvSend
  <2> QED
    BY ONLY <1>6, <2>1, SrvOK(s), AnswerUploadOK
<1>7. CASE s.st = "UPLOAD_SEGMENT_RSP"
  <2>1. r = AnswerSegment(s)
    BY ONLY <1>7 DEF SrvSend
  <2> QED
    BY ONLY <1>7, <2>1, SrvOK(s), AnswerSegmentOK
<1>8. CASE s.st = "DOWNLOAD_BLK_INITIATE_RSP"
  <2> DEFINE n == BlockSize([s EXCEPT !.buf = <<>>])
             on == [s EXCEPT !.blk = n, !.tran = 0, !.fin = 0, !.buf = <<>>, !.rd = 0, !.seq = 0,
                             !.crc = <<>>, !.rx = None, !.half = 0,
                                      !.st = "DOWNLOAD_BLK_SUBBLOCK_REQ"]
             f == [Frame("blkDownloadOk") EXCEPT !.idx = s.idx, !.blk = n]
  <2>1. r = Send(on, f)
    BY ONLY <1>8 DEF SrvSend
  <2> HIDE DEF r
  <2>2. n \in Nat /\ n * Seg <= Buf - 2
    <3> DEFINE e == [s EXCEPT !.buf = <<>>]
    <3>1. e.buf = <<>> /\ Len(e.buf) = 0
      BY ONLY <1>1 DEF SrvRecord
    <3> HIDE DEF e
    <3>2. 0 \in Nat
      OBVIOUS
    <3>3. BlockSize(e) \in Nat /\ BlockSize(e) * Seg \in Nat /\ 0 + BlockSize(e) * Seg <= Buf - 2
      BY ONLY <3>1, <3>2, BlockIs
    <3> DEFINE m == BlockSize(e) * Seg
    <3>4. m <= Buf - 2
      <4>1. m \in Nat /\ 0 + m <= Buf - 2
        BY ONLY <3>3
      <4> HIDE DEF m
      <4> QED
        BY ONLY <1>2, <4>1
    <3> QED
      BY ONLY <3>3, <3>4 DEF e
  <2> HIDE DEF n
  <2>3. f \in Frames
    <3>1. "blkDownloadOk" \in Commands \ {"block", "blkEnd"}
      BY DEF Commands
    <3> QED
      BY ONLY <1>1, <1>3, <2>2, <3>1, PlainFrame
  <2>4. SrvOK(on)
    <3>1. "DOWNLOAD_BLK_SUBBLOCK_REQ" \in States
      BY StatesAre DEF DownBlock
    <3>2. on \in SrvRecord
      BY ONLY <1>1, <1>3, <2>2, <3>1 DEF SrvRecord
    <3>3. /\ on.st = "DOWNLOAD_BLK_SUBBLOCK_REQ" /\ on.rd = 0 /\ on.buf = <<>> /\ on.idx = s.idx
          /\ on.pos = s.pos /\ on.len = s.len /\ on.od = s.od /\ on.nod = s.nod
          /\ on.tran = 0 /\ on.blk = n /\ on.seq = 0
      BY ONLY <1>1 DEF SrvRecord
    <3> HIDE DEF on
    <3>4. AtPlace(s)
      BY ONLY <1>1, <1>8 DEF SrvAt, DownStart
    <3>5. AtPlace(on)
      BY ONLY <3>3, <3>4 DEF AtPlace
    <3>6. /\ on.rd <= Len(on.buf) /\ Len(on.buf) <= Buf /\ Len(on.buf) <= on.tran
          /\ Len(on.buf) + (on.blk - on.seq) * Seg <= Buf - 2
      <4>1. n - 0 = n /\ n * Seg \in Int
        BY ONLY <1>2, <2>2
      <4> QED
        BY ONLY <1>2, <1>3, <2>2, <3>3, <4>1
    <3>7. SrvBase(on)
      BY ONLY <1>1, <3>2, <3>3, <3>6 DEF SrvBase
    <3> QED
      BY ONLY <3>3, <3>5, <3>6, <3>7, SrvAtIs DEF SrvOK
  <2> HIDE DEF f, on
  <2> QED
    BY ONLY <2>1, <2>3, <2>4, SrvSendIs DEF r
<1>9. CASE s.st = "DOWNLOAD_BLK_SUBBLOCK_RSP"
  <2>1. r = AnswerSubBlock(s)
    BY ONLY <1>9 DEF SrvSend
  <2> QED
    BY ONLY <1>9, <2>1, SrvOK(s), AnswerSubBlockOK
<1>10. CASE s.st = "DOWNLOAD_BLK_END_RSP"
  <2> DEFINE done == [s EXCEPT !.st = "IDLE"]
             f == Frame("blkEndOk")
  <2>1. r = Send(done, f)
    BY ONLY <1>10 DEF SrvSend
  <2> HIDE DEF r
  <2>2. f \in Frames
    <3>1. "blkEndOk" \in Commands \ {"block", "blkEnd"}
      BY DEF Commands
    <3> QED
      BY ONLY <1>1, <1>3, <3>1, PlainFrame
  <2>3. SrvOK(done)
    <3>1. "IDLE" \in States /\ "IDLE" \in Others
      BY StatesAre DEF Others
    <3>2. SrvBase(done) /\ done.st = "IDLE"
      BY ONLY <1>1, <3>1, SrvStateIs
    <3> HIDE DEF done
    <3> QED
      BY ONLY <3>1, <3>2, SrvAtIs DEF SrvOK
  <2> HIDE DEF f, done
  <2> QED
    BY ONLY <2>1, <2>2, <2>3, SrvSendIs DEF r
<1>11. CASE s.st = "UPLOAD_BLK_INITIATE_RSP"
  <2> DEFINE on == [s EXCEPT !.st = "UPLOAD_BLK_INITIATE_REQ2"]
             f == [Frame("blkUploadOk") EXCEPT !.idx = s.idx, !.ind = s.ind]
  <2>1. r = Send(on, f)
    BY ONLY <1>11 DEF SrvSend
  <2> HIDE DEF r
  <2>2. f \in Frames
    <3>1. "blkUploadOk" \in Commands \ {"block", "blkEnd"}
      BY DEF Commands
    <3> QED
      BY ONLY <1>1, <1>3, <3>1, PlainFrame
  <2>3. SrvOK(on)
    <3>1. "UPLOAD_BLK_INITIATE_REQ2" \in States /\ "UPLOAD_BLK_INITIATE_REQ2" \in UpStart
      BY StatesAre DEF UpStart
    <3>2. /\ SrvBase(on) /\ on.st = "UPLOAD_BLK_INITIATE_REQ2" /\ on.rd = s.rd
          /\ on.tran = s.tran /\ on.fin = s.fin /\ (AtPlace(s) => AtPlace(on))
      BY ONLY <1>1, <3>1, SrvStateIs
    <3>3. s.rd <= s.tran /\ (s.fin = 0 => AtPlace(s))
      BY ONLY <1>1, <1>11 DEF SrvAt, UpStart
    <3> HIDE DEF on
    <3> QED
      BY ONLY <3>1, <3>2, <3>3, SrvAtIs DEF SrvOK
  <2> HIDE DEF f, on
  <2> QED
    BY ONLY <2>1, <2>2, <2>3, SrvSendIs DEF r
<1>12. CASE s.st = "UPLOAD_BLK_SUBBLOCK_SREQ"
  <2>1. r = SendBlockSegment(s)
    BY ONLY <1>12 DEF SrvSend
  <2> QED
    BY ONLY <1>12, <2>1, SrvOK(s), SendBlockSegmentOK
<1>13. CASE s.st = "UPLOAD_BLK_END_SREQ"
  <2> DEFINE on == [s EXCEPT !.st = "UPLOAD_BLK_END_CRSP"]
             f == [Frame("blkEnd") EXCEPT !.ind = s.nod, !.crc = s.crc]
  <2>1. r = Send(on, f)
    BY ONLY <1>13 DEF SrvSend
  <2> HIDE DEF r
  <2>2. f \in Frames
    BY ONLY <1>1, BlockEndFrame
  <2>3. SrvOK(on)
    <3>1. "UPLOAD_BLK_END_CRSP" \in States /\ "UPLOAD_BLK_END_CRSP" \in Others
      BY StatesAre DEF Others
    <3>2. SrvBase(on) /\ on.st = "UPLOAD_BLK_END_CRSP"
      BY ONLY <1>1, <3>1, SrvStateIs
    <3> HIDE DEF on
    <3> QED
      BY ONLY <3>1, <3>2, SrvAtIs DEF SrvOK
  <2> HIDE DEF f, on
  <2> QED
    BY ONLY <2>1, <2>2, <2>3, SrvSendIs DEF r
<1>14. CASE s.st \notin {"DOWNLOAD_INITIATE_RSP", "DOWNLOAD_SEGMENT_RSP", "UPLOAD_INITIATE_RSP",
         "UPLOAD_SEGMENT_RSP", "DOWNLOAD_BLK_INITIATE_RSP", "DOWNLOAD_BLK_SUBBLOCK_RSP",
         "DOWNLOAD_BLK_END_RSP", "UPLOAD_BLK_INITIATE_RSP", "UPLOAD_BLK_SUBBLOCK_SREQ",
         "UPLOAD_BLK_END_SREQ"}
  <2>1. r = s
    BY ONLY <1>14 DEF SrvSend
  <2> QED
    BY ONLY <2>1, SrvOK(s)
<1> QED
  BY ONLY <1>4, <1>5, <1>6, <1>7, <1>8, <1>9, <1>10, <1>11, <1>12, <1>13, <1>14

\* The frame that ends an exchange that failed.
LEMMA AbortFrame ==
  abort \in Frames
<1>1. "abort" \in Commands \ {"block", "blkEnd"} /\ 0 \in Bit /\ 0 \in Nat
         /\ None \in Obj \cup {None}
  BY DEF Commands, Bit
<1> QED
  BY ONLY <1>1, PlainFrame DEF abort

LEMMA SrvSendAbortOK ==
  ASSUME NEW s, SrvOK(s)
  PROVE  SrvOK(SendAbort(s))
<1> DEFINE done == [s EXCEPT !.st = "IDLE"]
<1>1. "IDLE" \in States /\ "IDLE" \in Others
  BY StatesAre DEF Others
<1>2. SrvBase(s)
  BY DEF SrvOK
<1>3. SrvBase(done) /\ done.st = "IDLE"
  BY ONLY <1>1, <1>2, SrvStateIs
<1>4. SendAbort(s) = IF s.st = "ABORT" THEN Send(done, abort) ELSE s
  BY DEF SendAbort
<1> HIDE DEF done
<1>5. SrvOK(Send(done, abort))
  BY ONLY <1>1, <1>3, SrvAtIs, SrvSendIs, AbortFrame DEF SrvOK
<1> QED
  BY ONLY <1>4, <1>5, SrvOK(s)

(***************************************************************************)
(* The server's steps.                                                     *)
(***************************************************************************)
LEMMA SrvSetIs ==
  ASSUME NEW s, SrvOK(s), NEW f \in Frames \cup {None}
  PROVE  /\ SrvOK([s EXCEPT !.out = <<>>])
         /\ SrvOK([s EXCEPT !.rx = f])
         /\ SrvOK([s EXCEPT !.half = 0])
<1> DEFINE a == [s EXCEPT !.out = <<>>]
           b == [s EXCEPT !.rx = f]
           c == [s EXCEPT !.half = 0]
           Same(r) == /\ r.st = s.st /\ r.idx = s.idx /\ r.ind = s.ind /\ r.tran = s.tran
                      /\ r.fin = s.fin /\ r.buf = s.buf /\ r.rd = s.rd /\ r.seq = s.seq
                      /\ r.blk = s.blk /\ r.nod = s.nod /\ r.pos = s.pos /\ r.len = s.len
                      /\ r.od = s.od
<1>1. SrvBase(s) /\ SrvAt(s) /\ s \in SrvRecord /\ <<>> \in Seq(Frames) /\ 0 \in Bit
  BY DEF SrvOK, SrvBase, Bit
<1>2. \A r \in SrvRecord : Same(r) => SrvOK(r)
  <2> SUFFICES ASSUME NEW r \in SrvRecord, Same(r) PROVE SrvOK(r)
    OBVIOUS
  <2>1. SrvBase(r) /\ (AtPlace(s) <=> AtPlace(r))
    BY ONLY <1>1, r \in SrvRecord, Same(r) DEF SrvBase, AtPlace
  <2>2. SrvAt(r)
    BY ONLY <1>1, <2>1, Same(r) DEF SrvAt
  <2> QED
    BY ONLY <2>1, <2>2 DEF SrvOK
<1>3. a \in SrvRecord /\ Same(a)
  BY ONLY <1>1 DEF SrvRecord
<1>4. b \in SrvRecord /\ Same(b)
  BY ONLY <1>1, f \in Frames \cup {None} DEF SrvRecord
<1>5. c \in SrvRecord /\ Same(c)
  BY ONLY <1>1 DEF SrvRecord
<1> HIDE DEF Same, a, b, c
<1>6. SrvOK(a) /\ SrvOK(b) /\ SrvOK(c)
  BY ONLY <1>2, <1>3, <1>4, <1>5
<1> QED
  BY ONLY <1>6 DEF a, b, c

LEMMA RoomLeft ==
  ASSUME NEW b \in Nat, NEW t \in Nat, NEW x \in Nat, b + (x + Seg) <= Buf - 2, b <= t
  PROVE  /\ b + Seg <= Buf /\ (b + Seg) + x <= Buf - 2
         /\ b + Seg <= t + Seg /\ t + Seg \in Nat
BY SdoAssumption

\* A segment of a sub-block is stored in the room the server has asked for.
LEMMA StoreBlockSegmentOK ==
  ASSUME NEW s, SrvOK(s), s.st = "DOWNLOAD_BLK_SUBBLOCK_REQ", NEW f \in Frames
  PROVE  SrvOK(StoreBlockSegment(s, f))
<1> DEFINE ends == f.last = 1 \/ f.seq = s.blk
           fin == IF f.last = 1 THEN 1 ELSE s.fin
           st == IF ends THEN "DOWNLOAD_BLK_SUBBLOCK_RSP" ELSE s.st
           rx == IF ends THEN None ELSE s.rx
           a == [s EXCEPT !.seq = f.seq, !.buf = @ \o f.data, !.tran = @ + Seg]
           b == [a EXCEPT !.fin = IF f.last = 1 THEN 1 ELSE @,
                          !.st = IF f.last = 1 \/ f.seq = s.blk THEN "DOWNLOAD_BLK_SUBBLOCK_RSP" ELSE @,
                          !.rx = IF f.last = 1 \/ f.seq = s.blk THEN None ELSE @]
           c == [s EXCEPT !.st = "DOWNLOAD_BLK_SUBBLOCK_RSP", !.rx = None]
           r == StoreBlockSegment(s, f)
<1>1. r = IF InTurn(s, f) THEN b ELSE IF OutOfTurn(s, f) THEN c ELSE s
  BY DEF StoreBlockSegment
<1> HIDE DEF r
<1>2. /\ SrvBase(s) /\ s \in SrvRecord /\ AtPlace(s) /\ s.rd = 0 /\ Len(s.buf) <= s.tran
      /\ s.buf \in Data /\ Len(s.buf) \in Nat /\ s.tran \in Nat /\ s.blk \in Nat /\ s.seq \in Nat
      /\ s.fin \in Bit /\ s.rx \in Frames \cup {None} /\ Len(s.buf) <= Buf
      /\ Len(s.buf) + (s.blk - s.seq) * Seg <= Buf - 2
  BY LenIs DEF SrvOK, SrvBase, SrvAt, SrvRecord, DownBlock
<1>3. Seg \in Nat /\ Buf \in Nat
  BY SdoAssumption
<1>4. "DOWNLOAD_BLK_SUBBLOCK_RSP" \in DownBlock /\ "DOWNLOAD_BLK_SUBBLOCK_RSP" \in States
      /\ "DOWNLOAD_BLK_SUBBLOCK_REQ" \in States
  BY StatesAre DEF DownBlock
<1>5. CASE InTurn(s, f)
  <2>1. f.c = "block" /\ f.seq <= s.blk /\ f.seq = s.seq + 1 /\ f.seq \in Nat
    BY ONLY <1>5, f \in Frames, FrameIs DEF InTurn
  <2>2. f.data \in Data /\ Len(f.data) = Seg
    BY ONLY <2>1, f \in Frames, FrameIs DEF FrameOK
  <2>3. s.buf \o f.data \in Data /\ Len(s.buf \o f.data) = Len(s.buf) + Seg
    BY ONLY <1>2, <2>2, CatIs
  <2>4. /\ (s.blk - f.seq) * Seg \in Nat
        /\ (s.blk - s.seq) * Seg = (s.blk - f.seq) * Seg + Seg
    <3> DEFINE k == s.blk - f.seq
    <3>1. k \in Nat /\ s.blk - s.seq = k + 1
      BY ONLY <1>2, <2>1
    <3> HIDE DEF k
    <3>2. k * Seg \in Nat /\ (k + 1) * Seg = k * Seg + Seg
      BY ONLY <1>3, <3>1, TimesIs
    <3> QED
      BY ONLY <3>1, <3>2 DEF k
  <2>5. /\ Len(s.buf) + Seg <= Buf
        /\ (Len(s.buf) + Seg) + (s.blk - f.seq) * Seg <= Buf - 2
        /\ Len(s.buf) + Seg <= s.tran + Seg /\ s.tran + Seg \in Nat
    <3> DEFINE x == (s.blk - f.seq) * Seg
               y == (s.blk - s.seq) * Seg
    <3>1. x \in Nat /\ y = x + Seg /\ Len(s.buf) + y <= Buf - 2
      BY ONLY <1>2, <2>4
    <3> HIDE DEF x, y
    <3>2. Len(s.buf) \in Nat /\ s.tran \in Nat /\ Len(s.buf) <= s.tran
      BY ONLY <1>2
    <3>3. /\ Len(s.buf) + Seg <= Buf /\ (Len(s.buf) + Seg) + x <= Buf - 2
          /\ Len(s.buf) + Seg <= s.tran + Seg /\ s.tran + Seg \in Nat
      BY ONLY <3>1, <3>2, RoomLeft
    <3> QED
      BY ONLY <3>3 DEF x
  <2>6. /\ fin \in Bit /\ st \in {"DOWNLOAD_BLK_SUBBLOCK_RSP", "DOWNLOAD_BLK_SUBBLOCK_REQ"}
        /\ rx \in Frames \cup {None}
    BY ONLY <1>2, s.st = "DOWNLOAD_BLK_SUBBLOCK_REQ" DEF Bit
  <2>7. a \in SrvRecord
    BY ONLY <1>2, <2>1, <2>3, <2>5 DEF SrvRecord
  <2>8. /\ a.st = s.st /\ a.fin = s.fin /\ a.rx = s.rx /\ a.seq = f.seq /\ a.buf = s.buf \o f.data
        /\ a.tran = s.tran + Seg /\ a.rd = s.rd /\ a.blk = s.blk /\ a.idx = s.idx /\ a.nod = s.nod
        /\ a.pos = s.pos /\ a.len = s.len /\ a.od = s.od
    BY ONLY <1>2 DEF SrvRecord
  <2> HIDE DEF a
  <2>9. b = [a EXCEPT !.fin = fin, !.st = st, !.rx = rx]
    BY ONLY <2>7, <2>8 DEF SrvRecord
  <2> HIDE DEF b, fin, st, rx
  <2>10. st \in States
    BY ONLY <1>4, <2>6
  <2>11. b \in SrvRecord
    BY ONLY <2>6, <2>7, <2>9, <2>10 DEF SrvRecord
  <2>12. /\ b.st = st /\ b.seq = a.seq /\ b.buf = a.buf
         /\ b.tran = a.tran /\ b.rd = a.rd /\ b.blk = a.blk /\ b.idx = a.idx /\ b.nod = a.nod
         /\ b.pos = a.pos /\ b.len = a.len /\ b.od = a.od
    BY ONLY <2>7, <2>9 DEF SrvRecord
  <2>13. b.rd = 0 /\ Len(b.buf) = Len(s.buf) + Seg /\ b.tran = s.tran + Seg
         /\ b.blk = s.blk /\ b.seq = f.seq /\ b.nod = s.nod
    BY ONLY <1>2, <2>3, <2>8, <2>12
  <2>14. b.rd <= Len(b.buf)
    BY ONLY <1>2, <1>3, <2>13
  <2>15. SrvBase(b)
    BY ONLY <1>2, <2>5, <2>11, <2>13, <2>14 DEF SrvBase
  <2>16. AtPlace(b)
    BY ONLY <1>2, <2>8, <2>12 DEF AtPlace
  <2>17. Len(b.buf) <= b.tran /\ Len(b.buf) + (b.blk - b.seq) * Seg <= Buf - 2
    BY ONLY <2>5, <2>13
  <2>18. st \in DownBlock
    BY ONLY <2>6 DEF DownBlock
  <2>19. SrvAt(b)
    BY ONLY <2>6, <2>12, <2>13, <2>16, <2>17, <2>18, SrvAtIs
  <2> QED
    BY ONLY <1>1, <1>5, <2>8, <2>12, <2>15, <2>19 DEF SrvOK, r
<1>6. CASE ~InTurn(s, f) /\ OutOfTurn(s, f)
  <2>1. c \in SrvRecord
    BY ONLY <1>2, <1>4 DEF SrvRecord
  <2>2. /\ c.st = "DOWNLOAD_BLK_SUBBLOCK_RSP" /\ c.buf = s.buf /\ c.tran = s.tran /\ c.rd = s.rd
        /\ c.idx = s.idx /\ c.nod = s.nod /\ c.pos = s.pos /\ c.len = s.len /\ c.od = s.od
    BY ONLY <1>2 DEF SrvRecord
  <2> HIDE DEF c
  <2>3. SrvBase(c) /\ AtPlace(c)
    BY ONLY <1>2, <2>1, <2>2 DEF SrvBase, AtPlace
  <2>4. SrvAt(c)
    BY ONLY <1>2, <1>4, <2>2, <2>3, SrvAtIs
  <2> QED
    BY ONLY <1>1, <1>6, <2>2, <2>3, <2>4 DEF SrvOK, r
<1>7. CASE ~InTurn(s, f) /\ ~OutOfTurn(s, f)
  BY ONLY <1>1, <1>7, SrvOK(s) DEF r
<1> QED
  BY ONLY <1>5, <1>6, <1>7

LEMMA SrvMoves ==
  ASSUME SdoInv, NEW s, SrvOK(s), SrvMove(s) \/ SrvGoesOn(s), faults' \in Nat
  PROVE  SdoInv'
<1>1. PICK e : SrvOK(e) /\ SrvGoesOn(e)
  <2> DEFINE m == SendAbort(SrvSend(s))
  <2>1. SrvOK(m)
    BY SrvSendOK, SrvSendAbortOK
  <2>2. CASE SrvMove(s)
    <3>1. SrvGoesOn(IF Full(toCli) THEN s ELSE m)
      BY ONLY <2>2 DEF SrvMove
    <3> HIDE DEF m
    <3> QED
      BY ONLY <2>1, <3>1, SrvOK(s)
  <2> QED
    BY <2>2
<1>2. /\ srv' = [e EXCEPT !.out = <<>>] /\ toCli' = toCli \o e.out
      /\ cli' = cli /\ toSrv' = toSrv /\ job' = job /\ begun' = begun
  BY <1>1 DEF SrvGoesOn
<1>3. SrvOK(srv)'
  <2> DEFINE r == [e EXCEPT !.out = <<>>]
  <2>1. SrvOK(r)
    BY ONLY <1>1, None \in Frames \cup {None}, SrvSetIs
  <2> HIDE DEF r
  <2>2. srv' = r
    BY ONLY <1>2 DEF r
  <2> QED
    BY ONLY <2>1, <2>2
<1>4. toCli' \in Seq(Frames)
  <2>1. e.out \in Seq(Frames) /\ toCli \in Seq(Frames)
    BY <1>1 DEF SrvOK, SrvBase, SrvRecord, SdoInv
  <2> QED
    BY ONLY <1>2, <2>1, ConcatProperties
<1> QED
  BY ONLY <1>2, <1>3, <1>4, SdoInv, faults' \in Nat DEF SdoInv

LEMMA FaultsCount ==
  ASSUME SdoInv, Early \/ Fault \/ UNCHANGED faults
  PROVE  faults' \in Nat
BY DEF SdoInv, Early, Fault

LEMMA SrvProcessStep ==
  ASSUME SdoInv, CO_SDOserver_process
  PROVE  SdoInv'
<1> DEFINE s == IF srv.rx = None THEN srv ELSE SrvTake(srv)
<1>1. SrvMove(s) /\ faults' = faults
  BY DEF CO_SDOserver_process
<1>2. SrvOK(srv) /\ srv.rx \in Frames \cup {None}
  BY DEF SdoInv, SrvOK, SrvBase, SrvRecord
<1>3. SrvOK(s)
  BY ONLY <1>2, SrvTakeOK
<1> HIDE DEF s
<1> QED
  BY ONLY <1>1, <1>3, SdoInv, SrvMoves, FaultsCount

LEMMA SrvTimeoutStep ==
  ASSUME SdoInv, SrvTimeout
  PROVE  SdoInv'
<1>1. SrvOK(Stop(srv)) /\ SrvOK(SendAbort(Stop(srv)))
  <2>1. SrvBase(srv)
    BY DEF SdoInv, SrvOK
  <2>2. SrvOK(Stop(srv))
    BY ONLY <2>1, SrvStopOK
  <2> QED
    BY ONLY <2>2, SrvSendAbortOK
<1>2. (SrvGoesOn(Stop(srv)) \/ SrvGoesOn(SendAbort(Stop(srv)))) /\ Early
  BY DEF SrvTimeout
<1> QED
  BY ONLY <1>1, <1>2, SdoInv, SrvMoves, FaultsCount

LEMMA SrvBlockTimeoutStep ==
  ASSUME SdoInv, SrvBlockTimeout
  PROVE  SdoInv'
<1> DEFINE c == [srv EXCEPT !.half = 1, !.st = "DOWNLOAD_BLK_SUBBLOCK_RSP"]
<1>1. srv.st = "DOWNLOAD_BLK_SUBBLOCK_REQ" /\ SrvMove(c) /\ Early
  BY DEF SrvBlockTimeout
<1>2. /\ SrvBase(srv) /\ srv \in SrvRecord /\ AtPlace(srv) /\ srv.rd = 0
         /\ Len(srv.buf) <= srv.tran
  BY <1>1 DEF SdoInv, SrvOK, SrvBase, SrvAt, DownBlock
<1>3. "DOWNLOAD_BLK_SUBBLOCK_RSP" \in DownBlock /\ "DOWNLOAD_BLK_SUBBLOCK_RSP" \in States
      /\ 1 \in Bit
  BY StatesAre DEF DownBlock, Bit
<1>4. c \in SrvRecord
  BY ONLY <1>2, <1>3 DEF SrvRecord
<1>5. /\ c.st = "DOWNLOAD_BLK_SUBBLOCK_RSP" /\ c.buf = srv.buf /\ c.tran = srv.tran
         /\ c.rd = srv.rd
      /\ c.idx = srv.idx /\ c.nod = srv.nod /\ c.pos = srv.pos /\ c.len = srv.len /\ c.od = srv.od
  BY ONLY <1>2 DEF SrvRecord
<1> HIDE DEF c
<1>6. SrvBase(c) /\ AtPlace(c)
  BY ONLY <1>2, <1>4, <1>5 DEF SrvBase, AtPlace
<1>7. SrvOK(c)
  BY ONLY <1>2, <1>3, <1>5, <1>6, SrvAtIs DEF SrvOK
<1> QED
  BY ONLY <1>1, <1>7, SdoInv, SrvMoves, FaultsCount

LEMMA SrvReceiveStep ==
  ASSUME SdoInv, CO_SDO_receive
  PROVE  SdoInv'
<1> DEFINE f == Head(toSrv)
           idle == [srv EXCEPT !.st = "IDLE"]
           got == StoreBlockSegment(srv, f)
           stored == [got EXCEPT !.half = 0]
           heard == [srv EXCEPT !.rx = f]
<1>1. /\ toSrv # <<>> /\ toSrv' = Tail(toSrv)
      /\ UNCHANGED <<cli, toCli, job, begun, faults>>
      /\ \/ srv' = srv \/ srv' = idle \/ srv' = heard
         \/ srv.st = "DOWNLOAD_BLK_SUBBLOCK_REQ" /\ srv' = stored
  <2>1. srv' = CASE f.c = "abort" -> idle
              [] f.c # "abort" /\ srv.rx # None -> srv
              [] f.c = "blkEndOk" /\ srv.rx = None /\ srv.st = "UPLOAD_BLK_END_CRSP" -> idle
              [] f.c # "abort" /\ srv.rx = None /\ srv.st = "DOWNLOAD_BLK_SUBBLOCK_REQ" ->
                   IF BlockRoom(srv) THEN stored ELSE srv
              [] f.c # "abort" /\ srv.rx = None /\ srv.st = "DOWNLOAD_BLK_SUBBLOCK_RSP" -> srv
              [] OTHER -> heard
    BY DEF CO_SDO_receive
  <2> HIDE DEF f, idle, stored, heard
  <2>2. \/ srv' = srv \/ srv' = idle \/ srv' = heard
        \/ srv.st = "DOWNLOAD_BLK_SUBBLOCK_REQ" /\ srv' = stored
    BY ONLY <2>1
  <2> QED
    BY <2>2 DEF CO_SDO_receive
<1>2. f \in Frames /\ toSrv' \in Seq(Frames)
  BY <1>1, HeadTailProperties DEF SdoInv
<1> HIDE DEF f
<1>3. SrvOK(srv) /\ SrvBase(srv)
  BY DEF SdoInv, SrvOK
<1>4. SrvOK(idle)
  <2>1. "IDLE" \in States /\ "IDLE" \in Others
    BY StatesAre DEF Others
  <2>2. SrvBase(idle) /\ idle.st = "IDLE"
    BY ONLY <1>3, <2>1, SrvStateIs
  <2> HIDE DEF idle
  <2> QED
    BY ONLY <1>3, <2>1, <2>2, SrvAtIs DEF SrvOK
<1>5. SrvOK(heard)
  BY ONLY <1>2, <1>3, SrvSetIs
<1>6. srv.st = "DOWNLOAD_BLK_SUBBLOCK_REQ" => SrvOK(stored)
  <2> SUFFICES ASSUME srv.st = "DOWNLOAD_BLK_SUBBLOCK_REQ"
               PROVE  SrvOK(stored)
    OBVIOUS
  <2>1. SrvOK(got)
    BY ONLY <1>2, <1>3, srv.st = "DOWNLOAD_BLK_SUBBLOCK_REQ", StoreBlockSegmentOK
  <2> HIDE DEF got
  <2> QED
    BY ONLY <2>1, None \in Frames \cup {None}, SrvSetIs
<1> HIDE DEF idle, heard, stored, got
<1>7. SrvOK(srv)'
  BY ONLY <1>1, <1>3, <1>4, <1>5, <1>6
<1> QED
  BY ONLY <1>1, <1>2, <1>7, SdoInv DEF SdoInv

(***************************************************************************)
(* The client.  A step of it is OK when it keeps CliOK and begins no       *)
(* download: only the application does.                                    *)
(***************************************************************************)
CliStep(k, r) == CliOK(r) /\ (r.st \in CliDown => k.st \in CliDown)

\* What each kind of state asks for.
LEMMA CliAtIs ==
  ASSUME NEW k
  PROVE  /\ k.st \in {"IDLE", "ABORT"} => CliAt(k)
         /\ k.st \in CliDown \ DownSending => CliAt(k)
         /\ k.st \in DownSending /\ k.alt <= Len(k.fifo) => CliAt(k)
         /\ k.st \in UpAsked /\ k.st # "UPLOAD_BLK_INITIATE_RSP" /\ k.more = <<>>
              /\ k.fifo = <<>> /\ k.fin = 0 => CliAt(k)
         /\ k.st = "UPLOAD_BLK_INITIATE_RSP" /\ k.more = <<>> /\ k.fifo = <<>> /\ k.fin = 0
              /\ Len(k.fifo) + k.blk * Seg <= Fifo => CliAt(k)
         /\ k.st \in UpSegment /\ k.more = <<>> /\ k.fin = 0
              /\ (k.st = "UPLOAD_BLK_INITIATE_REQ2" => Len(k.fifo) + k.blk * Seg <= Fifo)
              => CliAt(k)
         /\ k.st \in UpBlock /\ k.more = <<>> /\ (k.fin = 1 => Len(k.lastSeg) = Seg)
              /\ (k.st = "UPLOAD_BLK_SUBBLOCK_SREQ" => Len(k.fifo) + (k.blk - k.seq) * Seg <= Fifo)
              => CliAt(k)
         /\ k.st = "UPLOAD_BLK_END_SREQ" /\ k.more = <<>> /\ Len(k.lastSeg) = Seg => CliAt(k)
         /\ k.st = "UPLOAD_BLK_END_CRSP" /\ k.more = <<>> => CliAt(k)
<1> USE DEF CliAt, DownSending, CliUp, UpAsked, UpSegment, UpBlock
<1>1. k.st \in {"IDLE", "ABORT"} => CliAt(k)
  OBVIOUS
<1>2. k.st \in CliDown \ DownSending => CliAt(k)
  BY DEF CliDown, DownRequest, DownStart, DownSegment, DownBlock
<1>3. k.st \in DownSending /\ k.alt <= Len(k.fifo) => CliAt(k)
  OBVIOUS
<1>4. k.st \in UpAsked /\ k.st # "UPLOAD_BLK_INITIATE_RSP" /\ k.more = <<>>
              /\ k.fifo = <<>> /\ k.fin = 0 => CliAt(k)
  OBVIOUS
<1>5. k.st = "UPLOAD_BLK_INITIATE_RSP" /\ k.more = <<>> /\ k.fifo = <<>> /\ k.fin = 0
              /\ Len(k.fifo) + k.blk * Seg <= Fifo => CliAt(k)
  OBVIOUS
<1>6. k.st \in UpSegment /\ k.more = <<>> /\ k.fin = 0
              /\ (k.st = "UPLOAD_BLK_INITIATE_REQ2" => Len(k.fifo) + k.blk * Seg <= Fifo)
              => CliAt(k)
  OBVIOUS
<1>7. k.st \in UpBlock /\ k.more = <<>> /\ (k.fin = 1 => Len(k.lastSeg) = Seg)
              /\ (k.st = "UPLOAD_BLK_SUBBLOCK_SREQ" => Len(k.fifo) + (k.blk - k.seq) * Seg <= Fifo)
              => CliAt(k)
  OBVIOUS
<1>8. k.st = "UPLOAD_BLK_END_SREQ" /\ k.more = <<>> /\ Len(k.lastSeg) = Seg => CliAt(k)
  OBVIOUS
<1>9. k.st = "UPLOAD_BLK_END_CRSP" /\ k.more = <<>> => CliAt(k)
  OBVIOUS
<1> QED
  BY ONLY <1>1, <1>2, <1>3, <1>4, <1>5, <1>6, <1>7, <1>8, <1>9

LEMMA CliStatesAre ==
  /\ CliDown \subseteq States /\ CliUp \subseteq States
  /\ {"IDLE", "ABORT"} \cap CliDown = {} /\ CliUp \cap CliDown = {}
BY StatesAre DEF CliDown, CliUp, States, DownRequest, DownStart, DownSegment, DownBlock,
         UpRequest,
                 UpStart, UpBlock, Others, UpAsked, UpSegment

\* The fields of a client, typed.
LEMMA CliIs ==
  ASSUME NEW k, CliBase(k)
  PROVE  /\ k \in CliRecord /\ k.st \in States /\ k.idx \in Obj \cup {None} /\ k.ind \in Nat
         /\ k.tran \in Int /\ k.fin \in Bit /\ k.t \in Bit /\ k.fifo \in Data /\ k.alt \in Nat
         /\ k.seq \in Nat /\ k.blk \in Nat /\ k.nod \in Nat /\ k.crc \in Data
         /\ k.lastSeg \in Data /\ k.rx \in Frames \cup {None} /\ k.more \in Data
         /\ k.out \in Seq(Frames) /\ Len(k.fifo) \in Nat /\ Len(k.fifo) <= Fifo /\ k.nod <= Seg
         /\ Fifo - Len(k.fifo) \in Nat
<1>1. /\ k \in CliRecord /\ k.st \in States /\ k.idx \in Obj \cup {None} /\ k.ind \in Nat
         /\ k.tran \in Int /\ k.fin \in Bit /\ k.t \in Bit /\ k.fifo \in Data /\ k.alt \in Nat
         /\ k.seq \in Nat /\ k.blk \in Nat /\ k.nod \in Nat /\ k.crc \in Data
         /\ k.lastSeg \in Data /\ k.rx \in Frames \cup {None} /\ k.more \in Data
         /\ k.out \in Seq(Frames) /\ Len(k.fifo) <= Fifo /\ k.nod <= Seg
  BY DEF CliBase, CliRecord
<1>2. Len(k.fifo) \in Nat
  BY ONLY <1>1, LenIs
<1>3. Fifo - Len(k.fifo) \in Nat
  <2>1. Fifo \in Nat
    BY SdoAssumption
  <2> QED
    BY ONLY <1>1, <1>2, <2>1
<1> QED
  BY ONLY <1>1, <1>2, <1>3

\* An exchange that ends, one way or the other.
LEMMA CliEnds ==
  ASSUME NEW k, CliBase(k), NEW ret \in {"none", "ok", "abort", "closed"}
  PROVE  /\ CliOK(Stop(k)) /\ Stop(k).st = "ABORT"
         /\ CliOK(End(k, ret)) /\ End(k, ret).st = "IDLE"
         /\ \A q : CliStep(q, Stop(k)) /\ CliStep(q, End(k, ret))
<1> DEFINE a == [k EXCEPT !.st = "ABORT"]
           b == [k EXCEPT !.st = "IDLE", !.ret = ret]
<1>1. "IDLE" \in States /\ "ABORT" \in States /\ "IDLE" \notin CliDown /\ "ABORT" \notin CliDown
      /\ "IDLE" \in {"IDLE", "ABORT"} /\ "ABORT" \in {"IDLE", "ABORT"}
  BY CliStatesAre, StatesAre
<1>2. k \in CliRecord /\ Len(k.fifo) <= Fifo /\ k.nod <= Seg
  BY DEF CliBase
<1>3. a \in CliRecord /\ a.st = "ABORT" /\ a.fifo = k.fifo /\ a.nod = k.nod
  BY ONLY <1>1, <1>2 DEF CliRecord
<1>4. b \in CliRecord
  BY ONLY <1>1, <1>2, ret \in {"none", "ok", "abort", "closed"} DEF CliRecord
<1>5. b.st = "IDLE" /\ b.fifo = k.fifo /\ b.nod = k.nod
  BY ONLY <1>2 DEF CliRecord
<1>6. Stop(k) = a /\ End(k, ret) = b
  BY DEF Stop, End
<1> HIDE DEF a, b
<1>7. CliBase(a) /\ CliBase(b)
  BY ONLY <1>2, <1>3, <1>4, <1>5 DEF CliBase
<1>8. CliAt(a) /\ CliAt(b)
  BY ONLY <1>1, <1>3, <1>5, CliAtIs
<1> QED
  BY ONLY <1>1, <1>3, <1>5, <1>6, <1>7, <1>8 DEF CliOK, CliStep

\* What does not touch the transfer itself.
LEMMA CliSetIs ==
  ASSUME NEW k, CliOK(k), NEW f \in Frames \cup {None}, NEW g \in Frames,
         NEW ret \in {"none", "ok", "abort", "closed"}
  PROVE  /\ CliStep(k, [k EXCEPT !.rx = f])
         /\ CliStep(k, Send(k, g))
         /\ CliStep(k, [k EXCEPT !.half = 0])
         /\ CliStep(k, [k EXCEPT !.out = <<>>, !.ret = ret])
         /\ CliStep(k, k)
<1> DEFINE a == [k EXCEPT !.rx = f]
           b == [k EXCEPT !.out = <<g>>]
           c == [k EXCEPT !.half = 0]
           d == [k EXCEPT !.out = <<>>, !.ret = ret]
           Same(r) == /\ r.st = k.st /\ r.more = k.more /\ r.fifo = k.fifo /\ r.alt = k.alt
                      /\ r.fin = k.fin /\ r.seq = k.seq /\ r.blk = k.blk /\ r.nod = k.nod
                      /\ r.lastSeg = k.lastSeg
<1>1. CliBase(k) /\ CliAt(k) /\ k \in CliRecord
      /\ <<>> \in Seq(Frames) /\ <<g>> \in Seq(Frames) /\ 0 \in Bit
  BY DEF CliOK, CliBase, Bit
<1>2. \A r \in CliRecord : Same(r) => CliStep(k, r)
  <2> SUFFICES ASSUME NEW r \in CliRecord, Same(r) PROVE CliStep(k, r)
    OBVIOUS
  <2>1. CliBase(r)
    BY ONLY <1>1, r \in CliRecord, Same(r) DEF CliBase
  <2>2. CliAt(r)
    BY ONLY <1>1, Same(r) DEF CliAt
  <2>3. r.st = k.st
    OBVIOUS
  <2> QED
    BY ONLY <2>1, <2>2, <2>3 DEF CliOK, CliStep
<1>3. a \in CliRecord /\ Same(a)
  BY ONLY <1>1, f \in Frames \cup {None} DEF CliRecord
<1>4. b \in CliRecord /\ Same(b)
  BY ONLY <1>1 DEF CliRecord
<1>5. c \in CliRecord /\ Same(c)
  BY ONLY <1>1 DEF CliRecord
<1>6. d \in CliRecord /\ Same(d)
  BY ONLY <1>1, ret \in {"none", "ok", "abort", "closed"} DEF CliRecord
<1>7. Same(k)
  OBVIOUS
<1> HIDE DEF Same, a, b, c, d
<1>8. CliStep(k, a) /\ CliStep(k, b) /\ CliStep(k, c) /\ CliStep(k, d) /\ CliStep(k, k)
  BY ONLY <1>1, <1>2, <1>3, <1>4, <1>5, <1>6, <1>7
<1> QED
  BY ONLY <1>8 DEF a, b, c, d, Send

\* One step after another.
LEMMA CliSteps ==
  ASSUME NEW k, NEW r, NEW q, CliStep(k, r), CliStep(r, q)
  PROVE  CliStep(k, q)
BY DEF CliStep

LEMMA FillIs ==
  ASSUME NEW k, CliBase(k)
  PROVE  LET r == Fill(k) IN
         /\ CliBase(r) /\ Len(k.fifo) <= Len(r.fifo)
         /\ r.st = k.st /\ r.alt = k.alt
<1> DEFINE n == Low(Len(k.more), Room(k.fifo))
           fifo == k.fifo \o Front_(k.more, n)
           more == Rest(k.more, n)
           e == [k EXCEPT !.fifo = @ \o Front_(k.more, Low(Len(k.more), Room(@))),
                          !.more = Rest(@, Low(Len(@), Room(k.fifo)))]
           r == Fill(k)
<1>1. /\ k \in CliRecord /\ k.more \in Data /\ k.fifo \in Data /\ Len(k.fifo) \in Nat
      /\ Len(k.fifo) <= Fifo /\ k.nod <= Seg /\ Fifo - Len(k.fifo) \in Nat
  BY CliIs
<1>2. Len(k.more) \in Nat /\ Room(k.fifo) = Fifo - Len(k.fifo) /\ Fifo \in Nat
  BY <1>1, LenIs, SdoAssumption DEF Room
<1>3. n \in Nat /\ n <= Len(k.more) /\ n <= Room(k.fifo)
  BY ONLY <1>1, <1>2, LowIs
<1>4. r = [k EXCEPT !.fifo = fifo, !.more = more]
  <2>1. r = e
    BY DEF Fill
  <2>2. e = [k EXCEPT !.fifo = fifo, !.more = more]
    BY ONLY <1>1 DEF CliRecord
  <2> QED
    BY ONLY <2>1, <2>2
<1> HIDE DEF n, r
<1>5. Front_(k.more, n) \in Data /\ Len(Front_(k.more, n)) = n /\ more \in Data
  BY ONLY <1>1, <1>3, FrontIs, RestIs
<1>6. fifo \in Data /\ Len(fifo) = Len(k.fifo) + n
  BY ONLY <1>1, <1>5, CatIs
<1> HIDE DEF fifo, more
<1>7. Len(k.fifo) <= Len(fifo) /\ Len(fifo) <= Fifo
  BY ONLY <1>1, <1>2, <1>3, <1>6
<1>8. r \in CliRecord
  BY ONLY <1>1, <1>4, <1>5, <1>6 DEF CliRecord
<1>9. r.fifo = fifo /\ r.st = k.st /\ r.alt = k.alt /\ r.nod = k.nod
  BY ONLY <1>1, <1>4 DEF CliRecord
<1> QED
  BY ONLY <1>1, <1>7, <1>8, <1>9 DEF CliBase, r

\* Data that is put into the fifo leaves it no longer than it may be.
LEMMA PutIs ==
  ASSUME NEW fifo \in Data, Len(fifo) <= Fifo, NEW d \in Data, NEW n \in Nat, n <= Len(d),
         n <= Room(fifo)
  PROVE  /\ Front_(d, n) \in Data /\ Len(Front_(d, n)) = n
         /\ fifo \o Front_(d, n) \in Data /\ Len(fifo \o Front_(d, n)) = Len(fifo) + n
         /\ Len(fifo) + n <= Fifo
<1>1. Len(fifo) \in Nat /\ Fifo \in Nat /\ n <= Fifo - Len(fifo)
  BY LenIs, SdoAssumption DEF Room
<1>2. Front_(d, n) \in Data /\ Len(Front_(d, n)) = n
  BY FrontIs
<1>3. fifo \o Front_(d, n) \in Data /\ Len(fifo \o Front_(d, n)) = Len(fifo) + n
  BY <1>2, CatIs
<1>4. Len(fifo) + n <= Fifo
  BY ONLY <1>1, n \in Nat
<1> QED
  BY ONLY <1>2, <1>3, <1>4

LEMMA RoomIs ==
  ASSUME NEW fifo \in Data, Len(fifo) <= Fifo
  PROVE  /\ Len(fifo) \in Nat /\ Fifo \in Nat /\ Room(fifo) = Fifo - Len(fifo)
         /\ Room(fifo) \in Nat
BY LenIs, SdoAssumption DEF Room

LEMMA UploadInitiatedOK ==
  ASSUME NEW k, CliOK(k), k.rx \in Frames, k.rx.c = "uploadOk",
         k.st \in {"UPLOAD_INITIATE_RSP", "UPLOAD_BLK_INITIATE_RSP"}
  PROVE  CliStep(k, UploadInitiated(k))
<1> DEFINE d == Front_(k.rx.data, k.rx.ind)
           ind == IF k.rx.ind > 0 THEN k.rx.ind ELSE k.ind
           done == [k EXCEPT !.fifo = @ \o Front_(k.rx.data, k.rx.ind), !.tran = k.rx.ind]
           on == [k EXCEPT !.ind = IF k.rx.ind > 0 THEN k.rx.ind ELSE @, !.t = 0,
                           !.st = "UPLOAD_SEGMENT_REQ"]
           r == UploadInitiated(k)
<1>1. r = IF k.rx.exp = 1 THEN End(done, "ok") ELSE on
  BY DEF UploadInitiated
<1> HIDE DEF r
<1>2. /\ CliBase(k) /\ CliAt(k) /\ k \in CliRecord /\ k.fifo = <<>> /\ k.fin = 0 /\ k.more = <<>>
      /\ k.nod <= Seg /\ k.ind \in Nat /\ Len(k.fifo) <= Fifo
  BY DEF CliOK, CliBase, CliAt, CliRecord, CliUp, UpAsked
<1>3. k.rx.data \in Data /\ k.rx.ind \in Nat /\ FrameOK(k.rx)
  BY FrameIs
<1>4. CASE k.rx.exp = 1
  <2>1. Len(k.rx.data) = k.rx.ind /\ k.rx.ind <= Exped
    BY <1>3, <1>4 DEF FrameOK
  <2>2. <<>> \in Data /\ Len(<<>>) = 0 /\ k.rx.ind <= Fifo /\ Room(<<>>) = Fifo
           /\ k.rx.ind \in Int
    BY <1>3, <2>1, SdoAssumption DEF Data, Room
  <2>3. /\ k.fifo \o d \in Data /\ Len(k.fifo \o d) <= Fifo
    <3>1. /\ <<>> \o Front_(k.rx.data, k.rx.ind) \in Data
          /\ Len(<<>> \o Front_(k.rx.data, k.rx.ind)) = Len(<<>>) + k.rx.ind
          /\ Len(<<>>) + k.rx.ind <= Fifo
      <4>1. Len(<<>>) <= Fifo /\ k.rx.ind <= Len(k.rx.data) /\ k.rx.ind <= Room(<<>>)
        BY ONLY <1>2, <1>3, <2>1, <2>2
      <4> QED
        BY ONLY <1>3, <2>2, <4>1, PutIs
    <3> QED
      BY ONLY <1>2, <3>1
  <2>4. done = [k EXCEPT !.fifo = k.fifo \o d, !.tran = k.rx.ind]
    BY ONLY <1>2 DEF CliRecord
  <2> HIDE DEF done, d
  <2>5. done \in CliRecord
    BY ONLY <1>2, <2>2, <2>3, <2>4 DEF CliRecord
  <2>6. done.fifo = k.fifo \o d /\ done.nod = k.nod
    BY ONLY <1>2, <2>4 DEF CliRecord
  <2>7. CliBase(done)
    BY ONLY <1>2, <2>3, <2>5, <2>6 DEF CliBase
  <2> QED
    BY ONLY <1>1, <1>4, <2>7, CliEnds DEF r
<1>5. CASE k.rx.exp # 1
  <2>1. "UPLOAD_SEGMENT_REQ" \in UpSegment /\ "UPLOAD_SEGMENT_REQ" \in States /\ 0 \in Bit
        /\ "UPLOAD_SEGMENT_REQ" \notin CliDown
    BY CliStatesAre DEF CliUp, UpSegment, Bit
  <2>2. ind \in Nat
    BY ONLY <1>2, <1>3
  <2>3. on = [k EXCEPT !.ind = ind, !.t = 0, !.st = "UPLOAD_SEGMENT_REQ"]
    BY ONLY <1>2 DEF CliRecord
  <2> HIDE DEF on, ind
  <2>4. on \in CliRecord
    BY ONLY <1>2, <2>1, <2>2, <2>3 DEF CliRecord
  <2>5. on.st = "UPLOAD_SEGMENT_REQ" /\ on.fifo = k.fifo /\ on.nod = k.nod /\ on.fin = k.fin
        /\ on.more = k.more
    BY ONLY <1>2, <2>3 DEF CliRecord
  <2>6. CliBase(on)
    BY ONLY <1>2, <2>4, <2>5 DEF CliBase
  <2>7. CliAt(on)
    BY ONLY <1>2, <2>1, <2>5, CliAtIs
  <2> QED
    BY ONLY <1>1, <1>5, <2>1, <2>5, <2>6, <2>7 DEF CliOK, CliStep, r
<1> QED
  BY ONLY <1>4, <1>5

LEMMA BlockUploadInitiatedOK ==
  ASSUME NEW k, CliOK(k), k.rx \in Frames, k.st = "UPLOAD_BLK_INITIATE_RSP"
  PROVE  CliStep(k, BlockUploadInitiated(k))
<1> DEFINE ind == IF k.rx.ind > 0 THEN k.rx.ind ELSE k.ind
           on == [k EXCEPT !.ind = IF k.rx.ind > 0 THEN k.rx.ind ELSE @,
                           !.st = "UPLOAD_BLK_INITIATE_REQ2"]
           r == BlockUploadInitiated(k)
<1>1. CliBase(k) /\ CliStep(k, Stop(k))
  BY CliEnds DEF CliOK
<1>2. CASE k.rx.c = "uploadOk"
  <2>1. r = UploadInitiated(k)
    BY ONLY <1>2 DEF BlockUploadInitiated
  <2> QED
    BY <1>2, <2>1, UploadInitiatedOK
<1>3. CASE k.rx.c = "blkUploadOk"
  <2>1. r = on
    BY ONLY <1>3 DEF BlockUploadInitiated
  <2> HIDE DEF r
  <2>2. /\ k \in CliRecord /\ k.fifo = <<>> /\ k.fin = 0 /\ k.more = <<>>
        /\ k.nod <= Seg /\ k.ind \in Nat /\ Len(k.fifo) <= Fifo
        /\ Len(k.fifo) + k.blk * Seg <= Fifo
    BY DEF CliOK, CliBase, CliAt, CliRecord, CliUp, UpAsked
  <2>3. k.rx.ind \in Nat
    BY FrameIs
  <2>4. "UPLOAD_BLK_INITIATE_REQ2" \in UpSegment /\ "UPLOAD_BLK_INITIATE_REQ2" \in States
        /\ "UPLOAD_BLK_INITIATE_REQ2" \notin CliDown
    BY CliStatesAre DEF CliUp, UpSegment
  <2>5. ind \in Nat
    BY ONLY <2>2, <2>3
  <2>6. on = [k EXCEPT !.ind = ind, !.st = "UPLOAD_BLK_INITIATE_REQ2"]
    BY ONLY <2>2 DEF CliRecord
  <2> HIDE DEF on, ind
  <2>7. on \in CliRecord
    BY ONLY <2>2, <2>4, <2>5, <2>6 DEF CliRecord
  <2>8. on.st = "UPLOAD_BLK_INITIATE_REQ2" /\ on.fifo = k.fifo /\ on.nod = k.nod
        /\ on.fin = k.fin /\ on.more = k.more /\ on.blk = k.blk
    BY ONLY <2>2, <2>6 DEF CliRecord
  <2>9. CliBase(on)
    BY ONLY <2>2, <2>7, <2>8 DEF CliBase
  <2>10. Len(on.fifo) + on.blk * Seg <= Fifo
    BY ONLY <2>2, <2>8
  <2>11. CliAt(on)
    BY ONLY <2>2, <2>4, <2>8, <2>10, CliAtIs
  <2> QED
    BY ONLY <2>1, <2>4, <2>8, <2>9, <2>11 DEF CliOK, CliStep, r
<1>4. CASE k.rx.c \notin {"uploadOk", "blkUploadOk"}
  <2>1. r = Stop(k)
    BY ONLY <1>4 DEF BlockUploadInitiated
  <2> QED
    BY ONLY <1>1, <2>1
<1> QED
  BY ONLY <1>2, <1>3, <1>4

LEMMA UploadedSegmentOK ==
  ASSUME NEW k, CliOK(k), k.rx \in Frames, k.st = "UPLOAD_SEGMENT_RSP"
  PROVE  CliStep(k, UploadedSegment(k))
<1> DEFINE n == Low(Len(k.rx.data), Room(k.fifo))
           d == Front_(k.rx.data, n)
           a == [k EXCEPT !.t = 1 - @, !.fifo = @ \o Front_(k.rx.data, n), !.tran = @ + n]
           on == [a EXCEPT !.st = "UPLOAD_SEGMENT_REQ"]
           r == UploadedSegment(k)
<1>1. r \in {Stop(k), Stop(a), on, End(a, "ok")}
  BY DEF UploadedSegment
<1> HIDE DEF r
<1>2. /\ CliBase(k) /\ k \in CliRecord /\ k.fin = 0 /\ k.more = <<>> /\ k.fifo \in Data
      /\ k.nod <= Seg /\ k.tran \in Int /\ k.t \in Bit /\ Len(k.fifo) <= Fifo
  BY DEF CliOK, CliBase, CliAt, CliRecord, CliUp, UpSegment
<1>3. k.rx.data \in Data /\ Len(k.rx.data) \in Nat
  BY FrameIs
<1>4. n \in Nat /\ n <= Len(k.rx.data) /\ n <= Room(k.fifo)
  <2>1. Room(k.fifo) \in Nat
    BY ONLY <1>2, RoomIs
  <2> QED
    BY ONLY <1>3, <2>1, LowIs
<1> HIDE DEF n
<1>5. k.fifo \o d \in Data /\ Len(k.fifo \o d) <= Fifo
  BY ONLY <1>2, <1>3, <1>4, PutIs
<1>6. 1 - k.t \in Bit /\ k.tran + n \in Int
  BY ONLY <1>2, <1>4 DEF Bit
<1>7. a = [k EXCEPT !.t = 1 - k.t, !.fifo = k.fifo \o d, !.tran = k.tran + n]
  BY ONLY <1>2 DEF CliRecord
<1> HIDE DEF a, d
<1>8. a \in CliRecord
  BY ONLY <1>2, <1>5, <1>6, <1>7 DEF CliRecord
<1>9. a.fifo = k.fifo \o d /\ a.nod = k.nod /\ a.fin = k.fin /\ a.more = k.more
  BY ONLY <1>2, <1>7 DEF CliRecord
<1>10. CliBase(a)
  BY ONLY <1>2, <1>5, <1>8, <1>9 DEF CliBase
<1>11. CliStep(k, Stop(k)) /\ CliStep(k, Stop(a)) /\ CliStep(k, End(a, "ok"))
  BY ONLY <1>2, <1>10, CliEnds
<1>12. CliStep(k, on)
  <2>1. "UPLOAD_SEGMENT_REQ" \in UpSegment /\ "UPLOAD_SEGMENT_REQ" \in States
        /\ "UPLOAD_SEGMENT_REQ" \notin CliDown
    BY CliStatesAre DEF CliUp, UpSegment
  <2>2. on \in CliRecord
    BY ONLY <1>8, <2>1 DEF CliRecord
  <2>3. on.st = "UPLOAD_SEGMENT_REQ" /\ on.fifo = a.fifo /\ on.nod = a.nod /\ on.fin = a.fin
        /\ on.more = a.more
    BY ONLY <1>8 DEF CliRecord
  <2> HIDE DEF on
  <2>4. CliBase(on)
    BY ONLY <1>10, <2>2, <2>3 DEF CliBase
  <2>5. CliAt(on)
    BY ONLY <1>2, <1>9, <2>1, <2>3, CliAtIs
  <2> QED
    BY ONLY <2>1, <2>3, <2>4, <2>5 DEF CliOK, CliStep
<1> HIDE DEF on
<1> QED
  BY ONLY <1>1, <1>11, <1>12 DEF r

LEMMA SubBlockDownloadedOK ==
  ASSUME NEW k, CliOK(k), k.rx \in Frames, k.st \in DownSending
  PROVE  CliStep(k, SubBlockDownloaded(k))
<1> DEFINE lost == (k.seq - k.rx.seq) * Seg - k.nod
           again == k.rx.seq < k.seq
           taken == IF again THEN Low(k.rx.seq * Seg, Len(k.fifo)) ELSE k.alt
           tran == IF again THEN k.tran - lost ELSE k.tran
           fin == IF again THEN 0 ELSE k.fin
           a == [k EXCEPT !.tran = IF again THEN @ - lost ELSE @,
                          !.fin = IF again THEN 0 ELSE @,
                          !.crc = @ \o Front_(k.fifo, taken),
                          !.fifo = Rest(@, taken), !.alt = 0]
           end == [a EXCEPT !.st = "DOWNLOAD_BLK_END_REQ"]
           on == [a EXCEPT !.blk = k.rx.blk, !.seq = 0, !.st = "DOWNLOAD_BLK_SUBBLOCK_REQ"]
           r == SubBlockDownloaded(k)
<1>1. r = IF k.rx.c # "subBlock" \/ k.rx.seq > k.seq THEN Stop(k) ELSE IF a.fin = 1 THEN end ELSE on
  BY DEF SubBlockDownloaded
<1> HIDE DEF r
<1>2. /\ CliBase(k) /\ k \in CliRecord /\ k.fifo \in Data /\ Len(k.fifo) \in Nat
      /\ k.nod \in Nat /\ k.nod <= Seg /\ k.tran \in Int /\ k.fin \in Bit /\ k.seq \in Nat
      /\ k.alt \in Nat /\ k.alt <= Len(k.fifo) /\ Len(k.fifo) <= Fifo /\ k.crc \in Data
      /\ k.st \in CliDown
  <2>1. CliBase(k) /\ k.alt <= Len(k.fifo) /\ k.st \in CliDown
    BY DEF CliOK, CliAt, CliDown, DownSending, DownBlock
  <2> QED
    BY ONLY <2>1, CliIs
<1>3. k.rx.seq \in Nat /\ k.rx.blk \in Nat /\ Seg \in Nat
  BY FrameIs, SdoAssumption
<1>4. tran \in Int
  <2>1. CASE again
    <3>1. (k.seq - k.rx.seq) * Seg \in Nat
      BY ONLY <1>2, <1>3, <2>1, TimesIs
    <3>2. lost \in Int
      BY ONLY <1>2, <3>1
    <3> HIDE DEF lost
    <3> QED
      BY ONLY <1>2, <3>2, <2>1
  <2>2. CASE ~again
    BY ONLY <1>2, <2>2
  <2> QED
    BY ONLY <2>1, <2>2
<1>5. taken \in Nat /\ taken <= Len(k.fifo)
  <2>1. k.rx.seq * Seg \in Nat
    BY ONLY <1>3, TimesIs
  <2>2. Low(k.rx.seq * Seg, Len(k.fifo)) \in Nat /\ Low(k.rx.seq * Seg,
           Len(k.fifo)) <= Len(k.fifo)
    BY ONLY <1>2, <2>1, LowIs
  <2> QED
    BY ONLY <1>2, <2>2
<1>6. fin \in Bit
  BY ONLY <1>2 DEF Bit
<1> HIDE DEF taken
<1> DEFINE crc == k.crc \o Front_(k.fifo, taken)
           fifo == Rest(k.fifo, taken)
<1>7. crc \in Data /\ fifo \in Data /\ Len(fifo) <= Fifo
  <2>1. Front_(k.fifo, taken) \in Data /\ fifo \in Data /\ Len(fifo) = Len(k.fifo) - taken
    BY ONLY <1>2, <1>5, FrontIs, RestIs
  <2>2. crc \in Data
    BY ONLY <1>2, <2>1, CatIs
  <2> HIDE DEF fifo, crc
  <2>3. Len(fifo) <= Fifo
    BY <1>2, <1>5, <2>1, SdoAssumption
  <2> QED
    BY ONLY <2>1, <2>2, <2>3
<1>8. a = [k EXCEPT !.tran = tran, !.fin = fin, !.crc = crc, !.fifo = fifo, !.alt = 0]
  BY ONLY <1>2 DEF CliRecord
<1> HIDE DEF a, tran, fin, crc, fifo, lost, again
<1>9. a \in CliRecord
  BY ONLY <1>2, <1>4, <1>6, <1>7, <1>8 DEF CliRecord
<1>10. a.fifo = fifo /\ a.nod = k.nod /\ a.alt = 0
  BY ONLY <1>2, <1>8 DEF CliRecord
<1>11. CliBase(a)
  BY ONLY <1>2, <1>7, <1>9, <1>10 DEF CliBase
<1>12. CliOK(end)
  <2>1. "DOWNLOAD_BLK_END_REQ" \in CliDown \ DownSending /\ "DOWNLOAD_BLK_END_REQ" \in States
    BY CliStatesAre DEF CliDown, DownBlock, DownSending
  <2>2. end \in CliRecord
    BY ONLY <1>9, <2>1 DEF CliRecord
  <2>3. end.st = "DOWNLOAD_BLK_END_REQ" /\ end.fifo = a.fifo /\ end.nod = a.nod
    BY ONLY <1>9 DEF CliRecord
  <2> HIDE DEF end
  <2>4. CliBase(end)
    BY ONLY <1>11, <2>2, <2>3 DEF CliBase
  <2> QED
    BY ONLY <2>1, <2>3, <2>4, CliAtIs DEF CliOK
<1>13. CliOK(on)
  <2>1. "DOWNLOAD_BLK_SUBBLOCK_REQ" \in DownSending /\ "DOWNLOAD_BLK_SUBBLOCK_REQ" \in States
        /\ 0 \in Nat
    BY CliStatesAre DEF CliDown, DownBlock, DownSending
  <2>2. on \in CliRecord
    BY ONLY <1>3, <1>9, <2>1 DEF CliRecord
  <2>3. on.st = "DOWNLOAD_BLK_SUBBLOCK_REQ" /\ on.fifo = a.fifo /\ on.nod = a.nod
        /\ on.alt = a.alt
    BY ONLY <1>9 DEF CliRecord
  <2> HIDE DEF on
  <2>4. CliBase(on)
    BY ONLY <1>11, <2>2, <2>3 DEF CliBase
  <2>5. Len(fifo) \in Nat
    BY ONLY <1>7, LenIs
  <2>6. on.alt <= Len(on.fifo)
    BY ONLY <1>10, <2>3, <2>5
  <2> QED
    BY ONLY <2>1, <2>3, <2>4, <2>6, CliAtIs DEF CliOK
<1>14. CliStep(k, Stop(k))
  BY ONLY <1>2, CliEnds
<1> HIDE DEF end, on
<1>15. r \in {Stop(k), end, on}
  BY ONLY <1>1
<1> QED
  BY ONLY <1>2, <1>12, <1>13, <1>14, <1>15 DEF CliStep, r

LEMMA BlockUploadedOK ==
  ASSUME NEW k, CliOK(k), k.rx \in Frames, k.st = "UPLOAD_BLK_END_SREQ"
  PROVE  CliStep(k, BlockUploaded(k))
<1> DEFINE d == Front_(k.lastSeg, Seg - k.rx.ind)
           n == Low(Len(d), Room(k.fifo))
           a == [k EXCEPT !.fifo = @ \o Front_(d, n), !.crc = @ \o Front_(d, n),
                    !.tran = @ + Len(d)]
           wrong == \/ a.ind > 0 /\ a.tran # a.ind
                    \/ CrcWrong([crc |-> a.crc, buf |-> <<>>], 2, k.rx.crc)
           on == [a EXCEPT !.st = "UPLOAD_BLK_END_CRSP"]
           r == BlockUploaded(k)
<1>1. r = IF k.rx.c # "blkEnd" THEN Stop(k) ELSE IF wrong THEN Stop(a) ELSE on
  BY DEF BlockUploaded
<1> HIDE DEF r, wrong
<1>2. /\ CliBase(k) /\ k \in CliRecord /\ k.fifo \in Data /\ Len(k.fifo) <= Fifo /\ k.crc \in Data
      /\ k.nod <= Seg /\ k.tran \in Int /\ k.more = <<>> /\ k.lastSeg \in Data
      /\ Len(k.lastSeg) = Seg
  <2>1. CliBase(k) /\ Len(k.lastSeg) = Seg /\ k.more = <<>>
    BY DEF CliOK, CliAt, CliUp
  <2> QED
    BY ONLY <2>1, CliIs
<1>3. CASE k.rx.c # "blkEnd"
  BY ONLY <1>1, <1>2, <1>3, CliEnds DEF r
<1>4. CASE k.rx.c = "blkEnd"
  <2>1. k.rx.ind \in Nat /\ k.rx.ind <= Seg /\ Seg - k.rx.ind \in Nat /\ Seg - k.rx.ind <= Seg
    <3>1. k.rx.ind \in Nat /\ k.rx.ind <= Seg
      BY ONLY <1>4, k.rx \in Frames, FrameIs DEF FrameOK
    <3> QED
      BY ONLY <3>1, SdoAssumption
  <2>2. d \in Data /\ Len(d) \in Nat
    BY ONLY <1>2, <2>1, FrontIs, LenIs
  <2>3. Room(k.fifo) \in Nat
    BY ONLY <1>2, RoomIs
  <2> HIDE DEF d
  <2>4. n \in Nat /\ n <= Len(d) /\ n <= Room(k.fifo)
    BY ONLY <2>2, <2>3, LowIs
  <2> HIDE DEF n
  <2> DEFINE w == Front_(d, n)
  <2>5. w \in Data /\ k.fifo \o w \in Data /\ Len(k.fifo \o w) <= Fifo
    BY ONLY <1>2, <2>2, <2>4, PutIs
  <2>6. k.crc \o w \in Data
    BY ONLY <1>2, <2>5, CatIs
  <2>7. k.tran + Len(d) \in Int
    BY ONLY <1>2, <2>2
  <2>8. a = [k EXCEPT !.fifo = k.fifo \o w, !.crc = k.crc \o w, !.tran = k.tran + Len(d)]
    BY ONLY <1>2 DEF CliRecord
  <2> HIDE DEF a, w
  <2>9. a \in CliRecord
    BY ONLY <1>2, <2>5, <2>6, <2>7, <2>8 DEF CliRecord
  <2>10. a.fifo = k.fifo \o w /\ a.nod = k.nod /\ a.more = k.more
    BY ONLY <1>2, <2>8 DEF CliRecord
  <2>11. CliBase(a)
    BY ONLY <1>2, <2>5, <2>9, <2>10 DEF CliBase
  <2>12. CliStep(k, Stop(a))
    BY ONLY <2>11, CliEnds
  <2>13. CliStep(k, on)
    <3>1. "UPLOAD_BLK_END_CRSP" \in States /\ "UPLOAD_BLK_END_CRSP" \notin CliDown
      BY CliStatesAre DEF CliUp
    <3>2. on \in CliRecord
      BY ONLY <2>9, <3>1 DEF CliRecord
    <3>3. on.st = "UPLOAD_BLK_END_CRSP" /\ on.fifo = a.fifo /\ on.nod = a.nod
          /\ on.more = a.more
      BY ONLY <2>9 DEF CliRecord
    <3> HIDE DEF on
    <3>4. CliBase(on)
      BY ONLY <2>11, <3>2, <3>3 DEF CliBase
    <3>5. CliAt(on)
      BY ONLY <1>2, <2>10, <3>3, CliAtIs
    <3> QED
      BY ONLY <3>1, <3>3, <3>4, <3>5 DEF CliOK, CliStep
  <2> HIDE DEF on
  <2> QED
    BY ONLY <1>1, <1>4, <2>12, <2>13 DEF r
<1> QED
  BY ONLY <1>3, <1>4

LEMMA CliTakenOK ==
  ASSUME NEW k, CliOK(k), k.rx \in Frames, NEW mine \in BOOLEAN
  PROVE  CliStep(k, CliTaken(k, mine))
<1> DEFINE r == CliTaken(k, mine)
<1>1. CliBase(k) /\ CliAt(k) /\ k \in CliRecord /\ k.t \in Bit
  BY DEF CliOK, CliBase, CliRecord
<1>2. CliStep(k, Stop(k)) /\ CliStep(k, End(k, "abort")) /\ CliStep(k, End(k, "ok"))
  BY ONLY <1>1, CliEnds
<1>3. CASE k.rx.c = "abort"
  BY ONLY <1>2, <1>3 DEF CliTaken
<1>4. CASE k.rx.c # "abort" /\ k.st = "DOWNLOAD_INITIATE_RSP"
  <2> DEFINE on == [k EXCEPT !.t = 0, !.st = "DOWNLOAD_SEGMENT_REQ"]
  <2>1. r \in {Stop(k), End(k, "ok"), on}
    BY ONLY <1>4 DEF CliTaken
  <2> HIDE DEF r
  <2>2. "DOWNLOAD_SEGMENT_REQ" \in CliDown \ DownSending /\ "DOWNLOAD_SEGMENT_REQ" \in States
        /\ "DOWNLOAD_INITIATE_RSP" \in CliDown /\ 0 \in Bit
    BY CliStatesAre DEF CliDown, DownStart, DownSegment, DownSending, Bit
  <2>3. on \in CliRecord
    BY ONLY <1>1, <2>2 DEF CliRecord
  <2>4. on.st = "DOWNLOAD_SEGMENT_REQ" /\ on.fifo = k.fifo /\ on.nod = k.nod
    BY ONLY <1>1 DEF CliRecord
  <2> HIDE DEF on
  <2>5. CliBase(on)
    BY ONLY <1>1, <2>3, <2>4 DEF CliBase
  <2>6. CliOK(on)
    BY ONLY <2>2, <2>4, <2>5, CliAtIs DEF CliOK
  <2> QED
    BY ONLY <1>2, <1>4, <2>1, <2>2, <2>6 DEF CliStep, r
<1>5. CASE k.rx.c # "abort" /\ k.st = "DOWNLOAD_SEGMENT_RSP"
  <2> DEFINE turned == [k EXCEPT !.t = 1 - @]
             on == [k EXCEPT !.t = 1 - @, !.st = "DOWNLOAD_SEGMENT_REQ"]
  <2>1. r \in {Stop(k), End(turned, "ok"), on}
    BY ONLY <1>5 DEF CliTaken
  <2> HIDE DEF r
  <2>2. "DOWNLOAD_SEGMENT_REQ" \in CliDown \ DownSending /\ "DOWNLOAD_SEGMENT_REQ" \in States
        /\ "DOWNLOAD_SEGMENT_RSP" \in CliDown
    BY CliStatesAre DEF CliDown, DownStart, DownSegment, DownSending
  <2>3. 1 - k.t \in Bit
    BY ONLY <1>1 DEF Bit
  <2>4. turned = [k EXCEPT !.t = 1 - k.t] /\ on = [k EXCEPT !.t = 1 - k.t,
           !.st = "DOWNLOAD_SEGMENT_REQ"]
    BY ONLY <1>1 DEF CliRecord
  <2> HIDE DEF turned, on
  <2>5. turned \in CliRecord /\ on \in CliRecord
    BY ONLY <1>1, <2>2, <2>3, <2>4 DEF CliRecord
  <2>6. on.st = "DOWNLOAD_SEGMENT_REQ" /\ on.fifo = k.fifo /\ on.nod = k.nod
        /\ turned.fifo = k.fifo /\ turned.nod = k.nod
    BY ONLY <1>1, <2>4 DEF CliRecord
  <2>7. CliBase(on) /\ CliBase(turned)
    BY ONLY <1>1, <2>5, <2>6 DEF CliBase
  <2>8. CliOK(on)
    BY ONLY <2>2, <2>6, <2>7, CliAtIs DEF CliOK
  <2>9. CliStep(k, End(turned, "ok"))
    BY ONLY <2>7, CliEnds
  <2> QED
    BY ONLY <1>2, <1>5, <2>1, <2>2, <2>8, <2>9 DEF CliStep, r
<1>6. CASE k.rx.c # "abort" /\ k.st = "DOWNLOAD_BLK_INITIATE_RSP"
  <2> DEFINE on == [k EXCEPT !.crc = <<>>, !.blk = k.rx.blk, !.seq = 0, !.alt = 0,
                             !.st = "DOWNLOAD_BLK_SUBBLOCK_REQ"]
  <2>1. r \in {Stop(k), on}
    BY ONLY <1>6 DEF CliTaken
  <2> HIDE DEF r
  <2>2. "DOWNLOAD_BLK_SUBBLOCK_REQ" \in DownSending /\ "DOWNLOAD_BLK_SUBBLOCK_REQ" \in States
        /\ "DOWNLOAD_BLK_INITIATE_RSP" \in CliDown /\ 0 \in Nat /\ <<>> \in Data
    BY CliStatesAre DEF CliDown, DownStart, DownBlock, DownSending, Data
  <2>3. k.rx.blk \in Nat
    BY FrameIs
  <2>4. on \in CliRecord
    BY ONLY <1>1, <2>2, <2>3 DEF CliRecord
  <2>5. on.st = "DOWNLOAD_BLK_SUBBLOCK_REQ" /\ on.fifo = k.fifo /\ on.nod = k.nod /\ on.alt = 0
    BY ONLY <1>1 DEF CliRecord
  <2> HIDE DEF on
  <2>6. CliBase(on)
    BY ONLY <1>1, <2>4, <2>5 DEF CliBase
  <2>7. on.alt <= Len(on.fifo)
    <3>1. Len(k.fifo) \in Nat
      BY ONLY <1>1, CliIs
    <3> QED
      BY ONLY <2>5, <3>1
  <2>8. CliOK(on)
    BY ONLY <2>2, <2>5, <2>6, <2>7, CliAtIs DEF CliOK
  <2> QED
    BY ONLY <1>2, <1>6, <2>1, <2>2, <2>8 DEF CliStep, r
<1>7. CASE k.rx.c # "abort" /\ k.st \in DownSending
  <2>1. r = SubBlockDownloaded(k)
    BY ONLY <1>7 DEF CliTaken, DownSending
  <2> QED
    BY ONLY <1>7, <2>1, CliOK(k), k.rx \in Frames, SubBlockDownloadedOK
<1>8. CASE k.rx.c # "abort" /\ k.st = "DOWNLOAD_BLK_END_RSP"
  <2>1. r \in {Stop(k), End(k, "ok")}
    BY ONLY <1>8 DEF CliTaken
  <2> QED
    BY ONLY <1>2, <2>1
<1>9. CASE k.rx.c # "abort" /\ k.st = "UPLOAD_INITIATE_RSP"
  <2>1. r = IF k.rx.c # "uploadOk" \/ ~mine THEN Stop(k) ELSE UploadInitiated(k)
    BY ONLY <1>9 DEF CliTaken
  <2>2. k.rx.c = "uploadOk" => CliStep(k, UploadInitiated(k))
    BY ONLY <1>9, CliOK(k), k.rx \in Frames, UploadInitiatedOK
  <2> QED
    BY ONLY <1>2, <2>1, <2>2
<1>10. CASE k.rx.c # "abort" /\ k.st = "UPLOAD_SEGMENT_RSP"
  <2>1. r = UploadedSegment(k)
    BY ONLY <1>10 DEF CliTaken
  <2> QED
    BY ONLY <1>10, <2>1, CliOK(k), k.rx \in Frames, UploadedSegmentOK
<1>11. CASE k.rx.c # "abort" /\ k.st = "UPLOAD_BLK_INITIATE_RSP"
  <2>1. r \in {Stop(k), BlockUploadInitiated(k)}
    BY ONLY <1>11 DEF CliTaken
  <2>2. CliStep(k, BlockUploadInitiated(k))
    BY ONLY <1>11, CliOK(k), k.rx \in Frames, BlockUploadInitiatedOK
  <2> QED
    BY ONLY <1>2, <2>1, <2>2
<1>12. CASE k.rx.c # "abort" /\ k.st = "UPLOAD_BLK_SUBBLOCK_SREQ"
  <2>1. r = k
    BY ONLY <1>12 DEF CliTaken
  <2> QED
    BY ONLY <2>1, CliOK(k) DEF CliStep
<1>13. CASE k.rx.c # "abort" /\ k.st = "UPLOAD_BLK_END_SREQ"
  <2>1. r = BlockUploaded(k)
    BY ONLY <1>13 DEF CliTaken
  <2> QED
    BY ONLY <1>13, <2>1, CliOK(k), k.rx \in Frames, BlockUploadedOK
<1>14. CASE k.rx.c # "abort" /\ k.st \notin DownSending \cup {"DOWNLOAD_INITIATE_RSP",
         "DOWNLOAD_SEGMENT_RSP", "DOWNLOAD_BLK_INITIATE_RSP", "DOWNLOAD_BLK_END_RSP",
         "UPLOAD_INITIATE_RSP", "UPLOAD_SEGMENT_RSP", "UPLOAD_BLK_INITIATE_RSP",
         "UPLOAD_BLK_SUBBLOCK_SREQ", "UPLOAD_BLK_END_SREQ"}
  <2>1. r = Stop(k)
    BY ONLY <1>14 DEF CliTaken, DownSending
  <2> QED
    BY ONLY <1>2, <2>1
<1> QED
  BY ONLY <1>3, <1>4, <1>5, <1>6, <1>7, <1>8, <1>9, <1>10, <1>11, <1>12, <1>13, <1>14

LEMMA CliTakeOK ==
  ASSUME NEW k, CliOK(k), k.rx \in Frames
  PROVE  CliStep(k, CliTake(k))
<1> DEFINE e == CliTaken(k, k.rx.idx = k.idx)
           r == [e EXCEPT !.rx = None]
<1>1. CliStep(k, e)
  BY CliTakenOK
<1> HIDE DEF e
<1>2. CliStep(e, r)
  <2>1. abort \in Frames /\ None \in Frames \cup {None} /\ "ok" \in {"none", "ok", "abort",
           "closed"}
    BY AbortFrame
  <2>2. CliOK(e)
    BY ONLY <1>1 DEF CliStep
  <2> QED
    BY ONLY <2>1, <2>2, CliSetIs
<1> HIDE DEF r
<1>3. CliStep(k, r)
  BY ONLY <1>1, <1>2, CliSteps
<1> QED
  BY ONLY <1>3 DEF CliTake, r, e

LEMMA RequestDownloadOK ==
  ASSUME NEW k, CliOK(k), k.st = "DOWNLOAD_INITIATE_REQ"
  PROVE  CliStep(k, RequestDownload(k))
<1> DEFINE n == Len(k.fifo)
           f == [Frame("download") EXCEPT !.idx = k.idx]
           ind == IF k.ind > 0 THEN n ELSE 0
           long == ~((k.ind = 0 /\ n <= Exped) \/ (k.ind > 0 /\ k.ind <= Exped))
           bad == n = 0 \/ (k.ind > 0 /\ k.ind # n)
           on == [k EXCEPT !.st = "DOWNLOAD_INITIATE_RSP"]
           all == [k EXCEPT !.fifo = <<>>, !.tran = n, !.fin = 1, !.st = "DOWNLOAD_INITIATE_RSP"]
           plain == [f EXCEPT !.ind = k.ind]
           exped == [f EXCEPT !.exp = 1, !.ind = IF k.ind > 0 THEN n ELSE 0,
                              !.data = k.fifo \o Zeros(Exped - n)]
           r == RequestDownload(k)
<1>1. r = IF long THEN Send(on, plain) ELSE IF bad THEN End(k, "abort") ELSE Send(all, exped)
  BY DEF RequestDownload
<1> HIDE DEF r
<1>2. /\ CliBase(k) /\ k \in CliRecord /\ n \in Nat /\ k.fifo \in Data /\ k.ind \in Nat
      /\ k.idx \in Obj \cup {None} /\ k.nod <= Seg
  BY CliIs DEF CliOK
<1>3. "DOWNLOAD_INITIATE_RSP" \in CliDown \ DownSending /\ "DOWNLOAD_INITIATE_RSP" \in States
      /\ "DOWNLOAD_INITIATE_REQ" \in CliDown /\ <<>> \in Data /\ Len(<<>>) = 0 /\ 1 \in Bit
      /\ 0 \in Nat
  BY CliStatesAre DEF CliDown, DownStart, DownRequest, DownSending, Data, Bit
<1>4. CASE long
  <2>1. plain \in Frames
    <3> DEFINE p == [Frame("download") EXCEPT !.idx = k.idx, !.ind = k.ind]
    <3>1. "download" \in Commands \ {"block", "blkEnd"} /\ 0 \in Bit
      BY DEF Commands, Bit
    <3>2. p \in Frames
      BY ONLY <1>2, <1>3, <3>1, PlainFrame
    <3>3. Frame("download") \in FrameRecord
      BY ONLY <3>1, FrameOf
    <3>4. plain = p
      BY ONLY <3>3 DEF FrameRecord
    <3> HIDE DEF plain, p
    <3> QED
      BY ONLY <3>2, <3>4
  <2>2. CliOK(on) /\ on.st \in CliDown
    <3>1. on \in CliRecord
      BY ONLY <1>2, <1>3 DEF CliRecord
    <3>2. on.st = "DOWNLOAD_INITIATE_RSP" /\ on.fifo = k.fifo /\ on.nod = k.nod
      BY ONLY <1>2 DEF CliRecord
    <3> HIDE DEF on
    <3>3. CliBase(on)
      BY ONLY <1>2, <3>1, <3>2 DEF CliBase
    <3> QED
      BY ONLY <1>3, <3>2, <3>3, CliAtIs DEF CliOK
  <2> HIDE DEF on, plain
  <2>3. CliOK(Send(on, plain))
    BY ONLY <2>1, <2>2, None \in Frames \cup {None}, "ok" \in {"none", "ok", "abort", "closed"},
             CliSetIs DEF CliStep
  <2> HIDE DEF long
  <2> QED
    BY ONLY <1>1, <1>3, <1>4, <2>3, k.st = "DOWNLOAD_INITIATE_REQ" DEF CliStep, r
<1>5. CASE ~long /\ bad
  <2>1. r = End(k, "abort")
    BY ONLY <1>1, <1>5
  <2> QED
    BY ONLY <1>2, <2>1, CliEnds DEF r
<1>6. CASE ~long /\ ~bad
  <2>1. n <= Exped /\ Exped - n \in Nat /\ ind \in Nat /\ ind <= Exped /\ Exped \in Nat
    <3>1. ind \in Nat /\ (ind <= n \/ ind = 0)
      BY ONLY <1>2, <1>6
    <3>2. n <= Exped
      BY ONLY <1>2, <1>6
    <3> HIDE DEF ind
    <3> QED
      BY <1>2, <3>1, <3>2, SdoAssumption
  <2>2. k.fifo \o Zeros(Exped - n) \in Data /\ Len(k.fifo \o Zeros(Exped - n)) = Exped
    <3>1. Zeros(Exped - n) \in Data /\ Len(Zeros(Exped - n)) = Exped - n
      BY ONLY <2>1, ZerosAre
    <3>2. k.fifo \o Zeros(Exped - n) \in Data
          /\ Len(k.fifo \o Zeros(Exped - n)) = n + (Exped - n)
      BY ONLY <1>2, <3>1, CatIs
    <3>3. n \in Nat /\ Exped \in Nat
      BY ONLY <1>2, <2>1
    <3> HIDE DEF n
    <3>4. n + (Exped - n) = Exped
      BY ONLY <3>3
    <3> QED
      BY ONLY <3>2, <3>4
  <2>3. exped \in Frames
    <3> HIDE DEF n
    <3> QED
      BY ONLY <1>2, <2>1, <2>2, DownloadFrame
  <2>4. CliOK(all) /\ all.st \in CliDown
    <3>1. all \in CliRecord
      <4>1. n \in Int
        BY ONLY <1>2
      <4> HIDE DEF n
      <4> QED
        BY ONLY <1>2, <1>3, <4>1 DEF CliRecord
    <3>2. all.st = "DOWNLOAD_INITIATE_RSP" /\ all.fifo = <<>> /\ all.nod = k.nod
      BY ONLY <1>2 DEF CliRecord
    <3> HIDE DEF all
    <3>3. Len(all.fifo) <= Fifo
      BY <1>3, <3>2, SdoAssumption
    <3>4. CliBase(all)
      BY ONLY <1>2, <3>1, <3>2, <3>3 DEF CliBase
    <3> QED
      BY ONLY <1>3, <3>2, <3>4, CliAtIs DEF CliOK
  <2> HIDE DEF all, exped
  <2>5. CliOK(Send(all, exped))
    BY ONLY <2>3, <2>4, None \in Frames \cup {None}, "ok" \in {"none", "ok", "abort", "closed"},
             CliSetIs DEF CliStep
  <2> HIDE DEF long, bad
  <2> QED
    BY ONLY <1>1, <1>3, <1>6, <2>5, k.st = "DOWNLOAD_INITIATE_REQ" DEF CliStep, r
<1> QED
  BY ONLY <1>4, <1>5, <1>6

LEMMA RequestSegmentOK ==
  ASSUME NEW k, CliOK(k), k.st = "DOWNLOAD_SEGMENT_REQ"
  PROVE  CliStep(k, RequestSegment(k))
<1> DEFINE n == Low(Len(k.fifo), Seg)
           fifo == Rest(k.fifo, n)
           a == [k EXCEPT !.fifo = Rest(@, n), !.tran = @ + n]
           last == a.fifo = <<>> /\ ~Partial(k)
           fin == IF last THEN 1 ELSE a.fin
           wrong == k.ind > 0 /\ (a.tran > k.ind \/ (last /\ a.tran < k.ind))
           on == [a EXCEPT !.fin = IF last THEN 1 ELSE @, !.st = "DOWNLOAD_SEGMENT_RSP"]
           f == [Frame("segment") EXCEPT !.t = k.t, !.last = IF last THEN 1 ELSE 0,
                                         !.data = Front_(k.fifo, n)]
           r == RequestSegment(k)
<1>1. r \in {Stop(k), Send(on, f)}
  BY DEF RequestSegment
<1> HIDE DEF r
<1>2. /\ CliBase(k) /\ k \in CliRecord /\ k.fifo \in Data /\ Len(k.fifo) \in Nat
      /\ k.t \in Bit /\ k.fin \in Bit /\ k.tran \in Int /\ k.nod <= Seg /\ Len(k.fifo) <= Fifo
  BY CliIs DEF CliOK
<1>3. Seg \in Nat /\ Fifo \in Nat
  BY SdoAssumption
<1>4. n \in Nat /\ n <= Len(k.fifo) /\ n <= Seg
  BY ONLY <1>2, <1>3, LowIs
<1> HIDE DEF n
<1>5. fifo \in Data /\ Len(fifo) <= Fifo /\ k.tran + n \in Int
  <2>1. fifo \in Data /\ Len(fifo) = Len(k.fifo) - n
    BY ONLY <1>2, <1>4, RestIs
  <2> HIDE DEF fifo
  <2> QED
    BY ONLY <1>2, <1>3, <1>4, <2>1
<1>6. a = [k EXCEPT !.fifo = fifo, !.tran = k.tran + n]
  BY ONLY <1>2 DEF CliRecord
<1>7. f \in Frames
  <2>1. Front_(k.fifo, n) \in Data /\ Len(Front_(k.fifo, n)) = n
    BY ONLY <1>2, <1>4, FrontIs
  <2>2. (IF last THEN 1 ELSE 0) \in Bit
    BY DEF Bit
  <2> HIDE DEF last
  <2> QED
    BY ONLY <1>2, <1>4, <2>1, <2>2, SegmentFrame
<1> HIDE DEF f, a, last, fifo
<1>8. a \in CliRecord /\ a.fifo = fifo /\ a.nod = k.nod /\ a.fin = k.fin
  <2>1. a \in CliRecord
    BY ONLY <1>2, <1>5, <1>6 DEF CliRecord
  <2>2. a.fifo = fifo /\ a.nod = k.nod /\ a.fin = k.fin
    BY ONLY <1>2, <1>6 DEF CliRecord
  <2> QED
    BY ONLY <2>1, <2>2
<1>9. "DOWNLOAD_SEGMENT_RSP" \in CliDown \ DownSending /\ "DOWNLOAD_SEGMENT_RSP" \in States
      /\ "DOWNLOAD_SEGMENT_REQ" \in CliDown
  BY CliStatesAre DEF CliDown, DownSegment, DownSending
<1>10. CliOK(on) /\ on.st \in CliDown
  <2>1. fin \in Bit
    BY ONLY <1>2, <1>8 DEF Bit
  <2>2. on = [a EXCEPT !.fin = fin, !.st = "DOWNLOAD_SEGMENT_RSP"]
    BY ONLY <1>8 DEF CliRecord
  <2> HIDE DEF on, fin
  <2>3. on \in CliRecord
    BY ONLY <1>8, <1>9, <2>1, <2>2 DEF CliRecord
  <2>4. on.st = "DOWNLOAD_SEGMENT_RSP" /\ on.fifo = a.fifo /\ on.nod = a.nod
    BY ONLY <1>8, <2>2 DEF CliRecord
  <2>5. CliBase(on)
    BY ONLY <1>2, <1>5, <1>8, <2>3, <2>4 DEF CliBase
  <2> QED
    BY ONLY <1>9, <2>4, <2>5, CliAtIs DEF CliOK
<1> HIDE DEF on
<1>11. CliOK(Send(on, f))
  BY ONLY <1>7, <1>10, None \in Frames \cup {None}, "ok" \in {"none", "ok", "abort", "closed"},
           CliSetIs DEF CliStep
<1>12. CliStep(k, Stop(k))
  BY ONLY <1>2, CliEnds
<1> QED
  BY ONLY <1>1, <1>9, <1>11, <1>12, k.st = "DOWNLOAD_SEGMENT_REQ" DEF CliStep, r

LEMMA RequestBlockSegmentOK ==
  ASSUME NEW k, CliOK(k), k.st = "DOWNLOAD_BLK_SUBBLOCK_REQ"
  PROVE  CliStep(k, RequestBlockSegment(k))
<1> DEFINE left == Len(k.fifo) - k.alt
           n == Low(left, Seg)
           a == [k EXCEPT !.seq = @ + 1, !.alt = @ + n, !.nod = Seg - n, !.tran = @ + n]
           last == n = left /\ ~Partial(k)
           fin == IF last THEN 1 ELSE a.fin
           st == IF last \/ a.seq >= a.blk THEN "DOWNLOAD_BLK_SUBBLOCK_RSP" ELSE a.st
           on == [a EXCEPT !.fin = IF last THEN 1 ELSE @,
                           !.st = IF last \/ a.seq >= a.blk THEN "DOWNLOAD_BLK_SUBBLOCK_RSP" ELSE @]
           f == [Frame("block") EXCEPT !.seq = a.seq, !.last = IF last THEN 1 ELSE 0,
                                       !.data = Pad(SubSeq(k.fifo, k.alt + 1, k.alt + n))]
           r == RequestBlockSegment(k)
<1>1. r \in {k, Stop(a), Send(on, f)}
  BY DEF RequestBlockSegment
<1> HIDE DEF r
<1>2. /\ CliBase(k) /\ k \in CliRecord /\ k.fifo \in Data /\ Len(k.fifo) \in Nat /\ k.alt \in Nat
      /\ k.alt <= Len(k.fifo) /\ k.seq \in Nat /\ k.fin \in Bit /\ k.tran \in Int
      /\ Len(k.fifo) <= Fifo
  <2>1. CliBase(k) /\ k.alt <= Len(k.fifo)
    BY DEF CliOK, CliAt, DownSending
  <2> QED
    BY ONLY <2>1, CliIs
<1>3. Seg \in Nat
  BY SdoAssumption
<1>4. left \in Nat
  BY ONLY <1>2
<1>5. n \in Nat /\ n <= left /\ n <= Seg
  <2> HIDE DEF left
  <2> QED
    BY ONLY <1>3, <1>4, LowIs
<1> HIDE DEF n
<1>6. /\ k.seq + 1 \in Nat /\ k.alt + n \in Nat /\ Seg - n \in Nat /\ k.tran + n \in Int
      /\ k.alt + n <= Len(k.fifo) /\ Seg - n <= Seg
  BY ONLY <1>2, <1>3, <1>5
<1>7. a = [k EXCEPT !.seq = k.seq + 1, !.alt = k.alt + n, !.nod = Seg - n, !.tran = k.tran + n]
  BY ONLY <1>2 DEF CliRecord
<1> HIDE DEF a
<1>8. a \in CliRecord
  BY ONLY <1>2, <1>6, <1>7 DEF CliRecord
<1>9. /\ a.seq = k.seq + 1 /\ a.alt = k.alt + n /\ a.nod = Seg - n /\ a.fin = k.fin
      /\ a.fifo = k.fifo /\ a.st = k.st
  BY ONLY <1>2, <1>7 DEF CliRecord
<1>10. CliBase(a)
  BY ONLY <1>2, <1>6, <1>8, <1>9 DEF CliBase
<1>11. f \in Frames
  <2> DEFINE w == SubSeq(k.fifo, k.alt + 1, k.alt + n)
  <2>1. w \in Data /\ Len(w) = n
    BY ONLY <1>2, <1>5, <1>6, SubSeqIs
  <2> HIDE DEF w
  <2>2. Pad(w) \in Data /\ Len(Pad(w)) = Seg
    BY ONLY <1>5, <2>1, PadIs
  <2>3. (IF last THEN 1 ELSE 0) \in Bit /\ a.seq \in Nat
    BY ONLY <1>6, <1>9 DEF Bit
  <2> HIDE DEF last
  <2> QED
    BY ONLY <2>2, <2>3, BlockFrame DEF w
<1> HIDE DEF f, last
<1>12. {"DOWNLOAD_BLK_SUBBLOCK_REQ", "DOWNLOAD_BLK_SUBBLOCK_RSP"} \subseteq CliDown \cap DownSending \cap States
  BY CliStatesAre DEF CliDown, DownBlock, DownSending
<1>13. CliOK(on)
  <2>1. fin \in Bit /\ st \in {"DOWNLOAD_BLK_SUBBLOCK_REQ", "DOWNLOAD_BLK_SUBBLOCK_RSP"}
    BY ONLY <1>2, <1>9, k.st = "DOWNLOAD_BLK_SUBBLOCK_REQ" DEF Bit
  <2>2. on = [a EXCEPT !.fin = fin, !.st = st]
    BY ONLY <1>8 DEF CliRecord
  <2> HIDE DEF on, fin, st
  <2>3. st \in DownSending /\ st \in States
    BY ONLY <1>12, <2>1
  <2>4. on \in CliRecord
    BY ONLY <1>8, <2>1, <2>2, <2>3 DEF CliRecord
  <2>5. on.st = st /\ on.fifo = a.fifo /\ on.nod = a.nod /\ on.alt = a.alt
    BY ONLY <1>8, <2>2 DEF CliRecord
  <2>6. CliBase(on)
    BY ONLY <1>10, <2>4, <2>5 DEF CliBase
  <2>7. on.alt <= Len(on.fifo)
    BY ONLY <1>6, <1>9, <2>5
  <2> QED
    BY ONLY <2>3, <2>5, <2>6, <2>7, CliAtIs DEF CliOK
<1> HIDE DEF on
<1>14. CliOK(Send(on, f))
  BY ONLY <1>11, <1>13, None \in Frames \cup {None}, "ok" \in {"none", "ok", "abort", "closed"},
           CliSetIs DEF CliStep
<1>15. CliStep(k, Stop(a))
  BY ONLY <1>10, CliEnds
<1> QED
  BY ONLY <1>1, <1>12, <1>14, <1>15, CliOK(k), k.st = "DOWNLOAD_BLK_SUBBLOCK_REQ" DEF CliStep, r

\* Whole segments asked for fit in the room there is.
LEMMA AskIs ==
  ASSUME NEW fifo \in Data, Len(fifo) <= Fifo
  PROVE  LET n == Low(Room(fifo) \div Seg, Cap) IN
         n \in Nat /\ Len(fifo) + n * Seg <= Fifo /\ Len(fifo) + (n - 0) * Seg <= Fifo
<1> DEFINE n == Low(Room(fifo) \div Seg, Cap)
<1>1. /\ Len(fifo) \in Nat /\ Fifo \in Nat /\ Room(fifo) = Fifo - Len(fifo) /\ Room(fifo) \in Nat
  BY RoomIs
<1>2. Seg \in Nat \ {0} /\ Cap \in Nat
  BY SdoAssumption
<1>3. n \in Nat /\ n * Seg <= Room(fifo) /\ n * Seg \in Nat
  <2> DEFINE x == Room(fifo) \div Seg
  <2>1. x \in Nat /\ x * Seg <= Room(fifo)
    BY ONLY <1>1, <1>2, DivIs
  <2> HIDE DEF x
  <2>2. n \in Nat /\ n <= x
    BY ONLY <1>2, <2>1, LowIs DEF x
  <2> HIDE DEF n
  <2>3. n * Seg \in Nat /\ n * Seg <= x * Seg /\ x * Seg \in Nat
    BY ONLY <1>2, <2>1, <2>2, TimesIs
  <2> DEFINE m == n * Seg
             y == x * Seg
  <2>4. m \in Nat /\ y \in Nat /\ m <= y /\ y <= Room(fifo)
    BY ONLY <2>1, <2>3
  <2> HIDE DEF m, y
  <2>5. m <= Room(fifo)
    BY ONLY <1>1, <2>4
  <2> QED
    BY ONLY <2>2, <2>3, <2>5 DEF m
<1> HIDE DEF n
<1>4. n - 0 = n
  BY ONLY <1>3
<1>5. Len(fifo) + n * Seg <= Fifo
  <2> DEFINE m == n * Seg
  <2>1. m <= Room(fifo) /\ m \in Nat
    BY ONLY <1>3
  <2> HIDE DEF m
  <2>2. Len(fifo) + m <= Fifo
    BY ONLY <1>1, <2>1
  <2> QED
    BY ONLY <2>2 DEF m
<1> QED
  BY ONLY <1>3, <1>4, <1>5 DEF n

LEMMA AnswerUploadBlockOK ==
  ASSUME NEW k, CliOK(k), k.st = "UPLOAD_BLK_SUBBLOCK_CRSP"
  PROVE  CliStep(k, AnswerUploadBlock(k))
<1> DEFINE n == Low(Room(k.fifo) \div Seg, Cap)
           end == [k EXCEPT !.st = "UPLOAD_BLK_END_SREQ"]
           f == [Frame("subBlock") EXCEPT !.seq = k.seq, !.blk = k.blk]
           on == [k EXCEPT !.blk = n, !.seq = 0, !.rx = None, !.st = "UPLOAD_BLK_SUBBLOCK_SREQ"]
           g == [Frame("subBlock") EXCEPT !.seq = k.seq, !.blk = n]
           r == AnswerUploadBlock(k)
<1>1. r = IF k.fin = 1 THEN Send(end, f)
          ELSE IF k.ind > 0 /\ k.tran > k.ind THEN Stop(k)
          ELSE IF n < Cap /\ k.fifo # <<>> THEN k
          ELSE Send(on, g)
  BY DEF AnswerUploadBlock, FifoBlock
<1> HIDE DEF r
<1>2. /\ CliBase(k) /\ k \in CliRecord /\ k.more = <<>> /\ k.fifo \in Data /\ Len(k.fifo) <= Fifo
      /\ k.nod <= Seg /\ k.seq \in Nat /\ k.blk \in Nat /\ (k.fin = 1 => Len(k.lastSeg) = Seg)
  <2>1. CliBase(k) /\ k.more = <<>> /\ (k.fin = 1 => Len(k.lastSeg) = Seg)
    BY DEF CliOK, CliAt, CliUp, UpBlock
  <2> QED
    BY ONLY <2>1, CliIs
<1>3. n \in Nat /\ Len(k.fifo) + (n - 0) * Seg <= Fifo
  BY ONLY <1>2, AskIs
<1> HIDE DEF n
<1>4. f \in Frames /\ g \in Frames
  <2>1. "subBlock" \in Commands \ {"block", "blkEnd"} /\ 0 \in Bit /\ 0 \in Nat
           /\ None \in Obj \cup {None}
    BY DEF Commands, Bit
  <2> QED
    BY ONLY <1>2, <1>3, <2>1, PlainFrame
<1>5. /\ {"UPLOAD_BLK_END_SREQ", "UPLOAD_BLK_SUBBLOCK_SREQ"} \subseteq States
      /\ {"UPLOAD_BLK_END_SREQ", "UPLOAD_BLK_SUBBLOCK_SREQ"} \cap CliDown = {}
      /\ "UPLOAD_BLK_SUBBLOCK_SREQ" \in UpBlock
  BY CliStatesAre DEF CliUp, UpBlock
<1>6. k.fin = 1 => CliOK(end)
  <2> SUFFICES ASSUME k.fin = 1 PROVE CliOK(end)
    OBVIOUS
  <2>1. end \in CliRecord
    BY ONLY <1>2, <1>5 DEF CliRecord
  <2>2. end.st = "UPLOAD_BLK_END_SREQ" /\ end.fifo = k.fifo /\ end.nod = k.nod
        /\ end.more = k.more /\ end.lastSeg = k.lastSeg
    BY ONLY <1>2 DEF CliRecord
  <2> HIDE DEF end
  <2>3. CliBase(end)
    BY ONLY <1>2, <2>1, <2>2 DEF CliBase
  <2> QED
    BY ONLY <1>2, <2>2, <2>3, k.fin = 1, CliAtIs DEF CliOK
<1>7. CliOK(on)
  <2>1. on \in CliRecord
    <3>1. 0 \in Nat
      OBVIOUS
    <3> QED
      BY ONLY <1>2, <1>3, <1>5, <3>1 DEF CliRecord
  <2>2. on.st = "UPLOAD_BLK_SUBBLOCK_SREQ" /\ on.fifo = k.fifo /\ on.nod = k.nod
        /\ on.more = k.more /\ on.lastSeg = k.lastSeg /\ on.fin = k.fin /\ on.blk = n
                 /\ on.seq = 0
    BY ONLY <1>2 DEF CliRecord
  <2> HIDE DEF on
  <2>3. CliBase(on)
    BY ONLY <1>2, <2>1, <2>2 DEF CliBase
  <2>4. Len(on.fifo) + (on.blk - on.seq) * Seg <= Fifo
    BY ONLY <1>3, <2>2
  <2>5. CliAt(on)
    BY ONLY <1>2, <1>5, <2>2, <2>4, CliAtIs
  <2> QED
    BY ONLY <2>3, <2>5 DEF CliOK
<1>8. end.st = "UPLOAD_BLK_END_SREQ" /\ on.st = "UPLOAD_BLK_SUBBLOCK_SREQ"
  BY ONLY <1>2 DEF CliRecord
<1> HIDE DEF end, on, f, g
<1>9. /\ k.fin = 1 => CliStep(end, Send(end, f))
      /\ CliStep(on, Send(on, g))
  BY ONLY <1>4, <1>6, <1>7, None \in Frames \cup {None}, "ok" \in {"none", "ok", "abort",
           "closed"}, CliSetIs
<1>10. /\ k.fin = 1 => CliStep(k, Send(end, f))
       /\ CliStep(k, Send(on, g))
  BY ONLY <1>5, <1>8, <1>9 DEF CliStep
<1>11. CliStep(k, Stop(k)) /\ CliStep(k, k)
  BY ONLY <1>2, CliOK(k), CliEnds DEF CliStep
<1> QED
  BY ONLY <1>1, <1>10, <1>11 DEF r

LEMMA CliSendUploadOK ==
  ASSUME NEW k, CliOK(k)
  PROVE  CliStep(k, CliSendUpload(k))
<1> DEFINE r == CliSendUpload(k)
<1>1. /\ CliBase(k) /\ CliAt(k) /\ k \in CliRecord /\ k.fifo \in Data /\ Len(k.fifo) <= Fifo
      /\ k.nod <= Seg /\ k.idx \in Obj \cup {None} /\ k.t \in Bit /\ k.blk \in Nat
  <2>1. CliBase(k) /\ CliAt(k)
    BY DEF CliOK
  <2> QED
    BY ONLY <2>1, CliIs
<1>2. CliStep(k, Stop(k)) /\ CliStep(k, k)
  BY ONLY <1>1, CliOK(k), CliEnds DEF CliStep
<1>3. ASSUME NEW x, NEW f, CliOK(x), x.st \notin CliDown, f \in Frames
      PROVE  CliStep(k, Send(x, f))
  <2>1. CliStep(x, Send(x, f))
    BY ONLY <1>3, None \in Frames \cup {None}, "ok" \in {"none", "ok", "abort", "closed"},
             CliSetIs
  <2> QED
    BY ONLY <1>3, <2>1 DEF CliStep
<1>4. 0 \in Bit /\ 0 \in Nat /\ None \in Obj \cup {None} /\ <<>> \in Data
  BY DEF Bit, Data
<1>5. CASE k.st = "UPLOAD_INITIATE_REQ"
  <2> DEFINE on == [k EXCEPT !.st = "UPLOAD_INITIATE_RSP"]
             f == [Frame("upload") EXCEPT !.idx = k.idx]
  <2>1. r = Send(on, f)
    BY ONLY <1>5 DEF CliSendUpload
  <2> HIDE DEF r
  <2>2. f \in Frames
    <3>1. "upload" \in Commands \ {"block", "blkEnd"}
      BY DEF Commands
    <3> QED
      BY ONLY <1>1, <1>4, <3>1, PlainFrame
  <2>3. "UPLOAD_INITIATE_RSP" \in UpAsked /\ "UPLOAD_INITIATE_RSP" \in States
        /\ "UPLOAD_INITIATE_RSP" \notin CliDown
    BY CliStatesAre DEF CliUp, UpAsked
  <2>4. on \in CliRecord
    BY ONLY <1>1, <2>3 DEF CliRecord
  <2>5. on.st = "UPLOAD_INITIATE_RSP" /\ on.fifo = k.fifo /\ on.nod = k.nod /\ on.more = k.more
        /\ on.fin = k.fin
    BY ONLY <1>1 DEF CliRecord
  <2> HIDE DEF on, f
  <2>6. CliBase(on)
    BY ONLY <1>1, <2>4, <2>5 DEF CliBase
  <2>7. k.fifo = <<>> /\ k.more = <<>> /\ k.fin = 0
    BY ONLY <1>1, <1>5 DEF CliAt, UpAsked, CliUp
  <2>8. CliAt(on)
    BY ONLY <2>3, <2>5, <2>7, CliAtIs
  <2> QED
    BY ONLY <1>3, <2>1, <2>2, <2>3, <2>5, <2>6, <2>8 DEF CliOK, r
<1>6. CASE k.st = "UPLOAD_SEGMENT_REQ"
  <2> DEFINE on == [k EXCEPT !.st = "UPLOAD_SEGMENT_RSP"]
             f == [Frame("next") EXCEPT !.t = k.t]
  <2>1. r \in {k, Send(on, f)}
    BY ONLY <1>6 DEF CliSendUpload
  <2> HIDE DEF r
  <2>2. f \in Frames
    <3>1. "next" \in Commands \ {"block", "blkEnd"}
      BY DEF Commands
    <3> QED
      BY ONLY <1>1, <1>4, <3>1, PlainFrame
  <2>3. "UPLOAD_SEGMENT_RSP" \in UpSegment /\ "UPLOAD_SEGMENT_RSP" \in States
        /\ "UPLOAD_SEGMENT_RSP" \notin CliDown
    BY CliStatesAre DEF CliUp, UpSegment
  <2>4. on \in CliRecord
    BY ONLY <1>1, <2>3 DEF CliRecord
  <2>5. on.st = "UPLOAD_SEGMENT_RSP" /\ on.fifo = k.fifo /\ on.nod = k.nod /\ on.more = k.more
        /\ on.fin = k.fin
    BY ONLY <1>1 DEF CliRecord
  <2> HIDE DEF on, f
  <2>6. CliBase(on)
    BY ONLY <1>1, <2>4, <2>5 DEF CliBase
  <2>7. k.more = <<>> /\ k.fin = 0
    BY ONLY <1>1, <1>6 DEF CliAt, UpSegment, CliUp
  <2>8. CliAt(on)
    BY ONLY <2>3, <2>5, <2>7, CliAtIs
  <2> QED
    BY ONLY <1>2, <1>3, <2>1, <2>2, <2>3, <2>5, <2>6, <2>8 DEF CliOK, r
<1>7. CASE k.st = "UPLOAD_BLK_INITIATE_REQ"
  <2> DEFINE n == Low(Room(k.fifo) \div Seg, Cap)
             on == [k EXCEPT !.blk = n, !.st = "UPLOAD_BLK_INITIATE_RSP"]
             f == [Frame("blkUpload") EXCEPT !.idx = k.idx, !.blk = n]
  <2>1. r \in {Stop(k), Send(on, f)}
    BY ONLY <1>7 DEF CliSendUpload, FifoBlock
  <2> HIDE DEF r
  <2>2. n \in Nat /\ Len(k.fifo) + n * Seg <= Fifo
    BY ONLY <1>1, AskIs
  <2> HIDE DEF n
  <2>3. f \in Frames
    <3>1. "blkUpload" \in Commands \ {"block", "blkEnd"}
      BY DEF Commands
    <3> QED
      BY ONLY <1>1, <1>4, <2>2, <3>1, PlainFrame
  <2>4. "UPLOAD_BLK_INITIATE_RSP" \in UpAsked /\ "UPLOAD_BLK_INITIATE_RSP" \in States
        /\ "UPLOAD_BLK_INITIATE_RSP" \notin CliDown
    BY CliStatesAre DEF CliUp, UpAsked
  <2>5. on \in CliRecord
    BY ONLY <1>1, <2>2, <2>4 DEF CliRecord
  <2>6. on.st = "UPLOAD_BLK_INITIATE_RSP" /\ on.fifo = k.fifo /\ on.nod = k.nod
           /\ on.more = k.more
        /\ on.fin = k.fin /\ on.blk = n
    BY ONLY <1>1 DEF CliRecord
  <2> HIDE DEF on, f
  <2>7. CliBase(on)
    BY ONLY <1>1, <2>5, <2>6 DEF CliBase
  <2>8. k.fifo = <<>> /\ k.more = <<>> /\ k.fin = 0
    BY ONLY <1>1, <1>7 DEF CliAt, UpAsked, CliUp
  <2>9. Len(on.fifo) + on.blk * Seg <= Fifo
    BY ONLY <2>2, <2>6
  <2>10. CliAt(on)
    BY ONLY <2>4, <2>6, <2>8, <2>9, CliAtIs
  <2> QED
    BY ONLY <1>2, <1>3, <2>1, <2>3, <2>4, <2>6, <2>7, <2>10 DEF CliOK, r
<1>8. CASE k.st = "UPLOAD_BLK_INITIATE_REQ2"
  <2> DEFINE on == [k EXCEPT !.seq = 0, !.crc = <<>>, !.rx = None, !.half = 0,
                             !.st = "UPLOAD_BLK_SUBBLOCK_SREQ"]
             f == Frame("blkStart")
  <2>1. r = Send(on, f)
    BY ONLY <1>8 DEF CliSendUpload
  <2> HIDE DEF r
  <2>2. f \in Frames
    <3>1. "blkStart" \in Commands \ {"block", "blkEnd"}
      BY DEF Commands
    <3> QED
      BY ONLY <1>1, <1>4, <3>1, PlainFrame
  <2>3. "UPLOAD_BLK_SUBBLOCK_SREQ" \in UpBlock /\ "UPLOAD_BLK_SUBBLOCK_SREQ" \in States
        /\ "UPLOAD_BLK_SUBBLOCK_SREQ" \notin CliDown
    BY CliStatesAre DEF CliUp, UpBlock
  <2>4. on \in CliRecord
    BY ONLY <1>1, <1>4, <2>3 DEF CliRecord
  <2>5. on.st = "UPLOAD_BLK_SUBBLOCK_SREQ" /\ on.fifo = k.fifo /\ on.nod = k.nod
        /\ on.more = k.more /\ on.fin = k.fin /\ on.blk = k.blk /\ on.seq = 0
    BY ONLY <1>1 DEF CliRecord
  <2> HIDE DEF on, f
  <2>6. CliBase(on)
    BY ONLY <1>1, <2>4, <2>5 DEF CliBase
  <2>7. k.more = <<>> /\ k.fin = 0 /\ Len(k.fifo) + k.blk * Seg <= Fifo
    BY ONLY <1>1, <1>8 DEF CliAt, UpSegment, CliUp
  <2>8. k.blk - 0 = k.blk
    BY ONLY <1>1
  <2>9. Len(on.fifo) + (on.blk - on.seq) * Seg <= Fifo
    BY ONLY <2>5, <2>7, <2>8
  <2>10. on.fin = 1 => Len(on.lastSeg) = Seg
    BY ONLY <2>5, <2>7
  <2>11. CliAt(on)
    BY ONLY <2>3, <2>5, <2>7, <2>9, <2>10, CliAtIs
  <2> QED
    BY ONLY <1>3, <2>1, <2>2, <2>3, <2>5, <2>6, <2>11 DEF CliOK, r
<1>9. CASE k.st = "UPLOAD_BLK_SUBBLOCK_CRSP"
  <2>1. r = AnswerUploadBlock(k)
    BY ONLY <1>9 DEF CliSendUpload
  <2> QED
    BY ONLY <1>9, <2>1, CliOK(k), AnswerUploadBlockOK
<1>10. CASE k.st = "UPLOAD_BLK_END_CRSP"
  <2> DEFINE f == Frame("blkEndOk")
  <2>1. r = Send(End(k, "ok"), f)
    BY ONLY <1>10 DEF CliSendUpload
  <2>2. f \in Frames
    <3>1. "blkEndOk" \in Commands \ {"block", "blkEnd"}
      BY DEF Commands
    <3> QED
      BY ONLY <1>1, <1>4, <3>1, PlainFrame
  <2>3. CliOK(End(k, "ok")) /\ End(k, "ok").st = "IDLE"
    BY ONLY <1>1, CliEnds
  <2>4. "IDLE" \notin CliDown
    BY CliStatesAre
  <2> HIDE DEF f, r
  <2> QED
    BY ONLY <1>3, <2>1, <2>2, <2>3, <2>4 DEF r
<1>11. CASE k.st \notin {"UPLOAD_INITIATE_REQ", "UPLOAD_SEGMENT_REQ", "UPLOAD_BLK_INITIATE_REQ",
         "UPLOAD_BLK_INITIATE_REQ2", "UPLOAD_BLK_SUBBLOCK_CRSP", "UPLOAD_BLK_END_CRSP"}
  <2>1. r = k
    BY ONLY <1>11 DEF CliSendUpload
  <2> QED
    BY ONLY <1>2, <2>1
<1> QED
  BY ONLY <1>5, <1>6, <1>7, <1>8, <1>9, <1>10, <1>11

LEMMA CliSendOK ==
  ASSUME NEW k, CliOK(k)
  PROVE  CliStep(k, CliSend(k))
<1> DEFINE r == CliSend(k)
<1>1. /\ CliBase(k) /\ k \in CliRecord /\ k.idx \in Obj \cup {None} /\ k.ind \in Nat
      /\ k.nod \in Nat /\ k.nod <= Seg /\ k.crc \in Data
  BY CliIs DEF CliOK
<1>2. abort \in Frames /\ None \in Frames \cup {None} /\ "ok" \in {"none", "ok", "abort",
         "closed"}
  BY AbortFrame
<1>3. CASE k.st = "DOWNLOAD_INITIATE_REQ"
  <2>1. r = RequestDownload(k)
    BY ONLY <1>3 DEF CliSend
  <2> QED
    BY ONLY <1>3, <2>1, CliOK(k), RequestDownloadOK
<1>4. CASE k.st = "DOWNLOAD_SEGMENT_REQ"
  <2>1. r = RequestSegment(k)
    BY ONLY <1>4 DEF CliSend
  <2> QED
    BY ONLY <1>4, <2>1, CliOK(k), RequestSegmentOK
<1>5. CASE k.st = "DOWNLOAD_BLK_INITIATE_REQ"
  <2> DEFINE on == [k EXCEPT !.st = "DOWNLOAD_BLK_INITIATE_RSP"]
             f == [Frame("blkDownload") EXCEPT !.idx = k.idx, !.ind = k.ind]
  <2>1. r = Send(on, f)
    BY ONLY <1>5 DEF CliSend
  <2> HIDE DEF r
  <2>2. f \in Frames
    <3>1. "blkDownload" \in Commands \ {"block", "blkEnd"} /\ 0 \in Bit /\ 0 \in Nat
      BY DEF Commands, Bit
    <3> QED
      BY ONLY <1>1, <3>1, PlainFrame
  <2>3. "DOWNLOAD_BLK_INITIATE_RSP" \in CliDown \ DownSending
        /\ "DOWNLOAD_BLK_INITIATE_RSP" \in States /\ "DOWNLOAD_BLK_INITIATE_REQ" \in CliDown
    BY CliStatesAre DEF CliDown, DownStart, DownRequest, DownSending
  <2>4. on \in CliRecord
    BY ONLY <1>1, <2>3 DEF CliRecord
  <2>5. on.st = "DOWNLOAD_BLK_INITIATE_RSP" /\ on.fifo = k.fifo /\ on.nod = k.nod
    BY ONLY <1>1 DEF CliRecord
  <2> HIDE DEF on, f
  <2>6. CliBase(on)
    BY ONLY <1>1, <2>4, <2>5 DEF CliBase
  <2>7. CliOK(on)
    BY ONLY <2>3, <2>5, <2>6, CliAtIs DEF CliOK
  <2>8. CliStep(k, on) /\ CliStep(on, Send(on, f))
    BY ONLY <1>2, <1>5, <2>2, <2>3, <2>7, CliSetIs DEF CliStep
  <2> QED
    BY ONLY <2>1, <2>8, CliSteps DEF r
<1>6. CASE k.st = "DOWNLOAD_BLK_SUBBLOCK_REQ"
  <2>1. r = RequestBlockSegment(k)
    BY ONLY <1>6 DEF CliSend
  <2> QED
    BY ONLY <1>6, <2>1, CliOK(k), RequestBlockSegmentOK
<1>7. CASE k.st = "DOWNLOAD_BLK_END_REQ"
  <2> DEFINE on == [k EXCEPT !.st = "DOWNLOAD_BLK_END_RSP"]
             f == [Frame("blkEnd") EXCEPT !.ind = k.nod, !.crc = k.crc]
  <2>1. r = Send(on, f)
    BY ONLY <1>7 DEF CliSend
  <2> HIDE DEF r
  <2>2. f \in Frames
    BY ONLY <1>1, BlockEndFrame
  <2>3. "DOWNLOAD_BLK_END_RSP" \in CliDown \ DownSending
        /\ "DOWNLOAD_BLK_END_RSP" \in States /\ "DOWNLOAD_BLK_END_REQ" \in CliDown
    BY CliStatesAre DEF CliDown, DownBlock, DownSending
  <2>4. on \in CliRecord
    BY ONLY <1>1, <2>3 DEF CliRecord
  <2>5. on.st = "DOWNLOAD_BLK_END_RSP" /\ on.fifo = k.fifo /\ on.nod = k.nod
    BY ONLY <1>1 DEF CliRecord
  <2> HIDE DEF on, f
  <2>6. CliBase(on)
    BY ONLY <1>1, <2>4, <2>5 DEF CliBase
  <2>7. CliOK(on)
    BY ONLY <2>3, <2>5, <2>6, CliAtIs DEF CliOK
  <2>8. CliStep(k, on) /\ CliStep(on, Send(on, f))
    BY ONLY <1>2, <1>7, <2>2, <2>3, <2>7, CliSetIs DEF CliStep
  <2> QED
    BY ONLY <2>1, <2>8, CliSteps DEF r
<1>8. CASE k.st \notin {"DOWNLOAD_INITIATE_REQ", "DOWNLOAD_SEGMENT_REQ",
         "DOWNLOAD_BLK_INITIATE_REQ",
         "DOWNLOAD_BLK_SUBBLOCK_REQ", "DOWNLOAD_BLK_END_REQ"}
  <2>1. r = CliSendUpload(k)
    BY ONLY <1>8 DEF CliSend
  <2> QED
    BY ONLY <2>1, CliOK(k), CliSendUploadOK
<1> QED
  BY ONLY <1>3, <1>4, <1>5, <1>6, <1>7, <1>8

LEMMA CliSendAbortOK ==
  ASSUME NEW k, CliOK(k)
  PROVE  CliStep(k, SendAbort(k))
<1> DEFINE done == [k EXCEPT !.st = "IDLE"]
<1>1. "IDLE" \in States /\ "IDLE" \notin CliDown /\ "IDLE" \in {"IDLE", "ABORT"}
  BY CliStatesAre, StatesAre
<1>2. CliBase(k) /\ k \in CliRecord
  BY DEF CliOK, CliBase
<1>3. done \in CliRecord
  BY ONLY <1>1, <1>2 DEF CliRecord
<1>4. done.st = "IDLE" /\ done.fifo = k.fifo /\ done.nod = k.nod
  BY ONLY <1>2 DEF CliRecord
<1>5. SendAbort(k) = IF k.st = "ABORT" THEN Send(done, abort) ELSE k
  BY DEF SendAbort
<1> HIDE DEF done
<1>6. CliBase(done)
  BY ONLY <1>2, <1>3, <1>4 DEF CliBase
<1>7. CliOK(done) /\ CliStep(k, done)
  BY ONLY <1>1, <1>4, <1>6, CliAtIs DEF CliOK, CliStep
<1>8. CliStep(done, Send(done, abort))
  BY ONLY <1>7, AbortFrame, None \in Frames \cup {None}, "ok" \in {"none", "ok", "abort",
           "closed"}, CliSetIs
<1>9. CliStep(k, Send(done, abort))
  BY ONLY <1>7, <1>8, CliSteps
<1> QED
  BY ONLY <1>5, <1>9, CliOK(k) DEF CliStep

(***************************************************************************)
(* The client's steps, the application's and the bus.                      *)
(***************************************************************************)
LEMMA CliMoves ==
  ASSUME SdoInv, NEW k, CliStep(cli, k), CliMove(k) \/ CliGoesOn(k), faults' \in Nat
  PROVE  SdoInv'
<1>1. PICK e : CliStep(cli, e) /\ CliGoesOn(e)
  <2> DEFINE m == SendAbort(CliSend(k))
  <2>1. CliStep(cli, m)
    <3>1. CliStep(k, CliSend(k))
      BY CliSendOK DEF CliStep
    <3>2. CliStep(CliSend(k), m)
      BY <3>1, CliSendAbortOK DEF CliStep
    <3> QED
      BY ONLY <3>1, <3>2, CliStep(cli, k), CliSteps
  <2>2. CASE CliMove(k)
    <3>1. CliGoesOn(IF Full(toSrv) THEN k ELSE m)
      BY ONLY <2>2 DEF CliMove
    <3> HIDE DEF m
    <3> QED
      BY ONLY <2>1, <3>1, CliStep(cli, k)
  <2> QED
    BY <2>2
<1> DEFINE ret == IF e.out = <<abort>> THEN "abort" ELSE e.ret
           x == [e EXCEPT !.out = <<>>, !.ret = ret]
<1>2. e \in CliRecord /\ e.out \in Seq(Frames) /\ e.ret \in {"none", "ok", "abort", "closed"}
  BY <1>1 DEF CliStep, CliOK, CliBase, CliRecord
<1>3. cli' = x
  <2>1. cli' = [e EXCEPT !.out = <<>>, !.ret = IF e.out = <<abort>> THEN "abort" ELSE @]
    BY <1>1 DEF CliGoesOn
  <2> QED
    BY ONLY <1>2, <2>1 DEF CliRecord
<1>4. toSrv' = toSrv \o e.out /\ UNCHANGED <<srv, toCli, job, begun>>
  BY <1>1 DEF CliGoesOn
<1>5. CliStep(cli, x)
  <2>1. ret \in {"none", "ok", "abort", "closed"}
    BY ONLY <1>2
  <2>2. CliOK(e)
    BY ONLY <1>1 DEF CliStep
  <2> HIDE DEF ret
  <2>3. CliStep(e, x)
    BY ONLY <2>1, <2>2, AbortFrame, None \in Frames \cup {None}, CliSetIs
  <2> HIDE DEF x
  <2> QED
    BY ONLY <1>1, <2>3, CliSteps
<1> HIDE DEF x
<1>6. CliOK(cli)' /\ (cli'.st \in CliDown => cli.st \in CliDown)
  BY ONLY <1>3, <1>5 DEF CliStep
<1>7. toSrv' \in Seq(Frames)
  <2>1. toSrv \in Seq(Frames)
    BY DEF SdoInv
  <2> QED
    BY ONLY <1>2, <1>4, <2>1, ConcatProperties
<1> QED
  BY ONLY <1>4, <1>6, <1>7, SdoInv, faults' \in Nat DEF SdoInv

\* The client alone changes.
LEMMA CliChanges ==
  ASSUME SdoInv, CliStep(cli, cli'), toCli' \in Seq(Frames), faults' \in Nat,
         UNCHANGED <<srv, toSrv, job>>
  PROVE  SdoInv'
BY DEF SdoInv, CliStep

LEMMA CliProcessStep ==
  ASSUME SdoInv, CO_SDOclient_process
  PROVE  SdoInv'
<1> DEFINE k == IF cli.rx = None THEN cli ELSE CliTake(cli)
<1>1. CliMove(k) /\ faults' = faults
  BY DEF CO_SDOclient_process
<1>2. CliOK(cli) /\ cli.rx \in Frames \cup {None}
  BY DEF SdoInv, CliOK, CliBase, CliRecord
<1>3. CliStep(cli, k)
  <2>1. CASE cli.rx = None
    <3>1. k = cli
      BY ONLY <2>1
    <3> HIDE DEF k
    <3> QED
      BY ONLY <1>2, <3>1 DEF CliStep
  <2>2. CASE cli.rx # None
    <3>1. k = CliTake(cli)
      BY ONLY <2>2
    <3> HIDE DEF k
    <3> QED
      BY ONLY <1>2, <2>2, <3>1, CliTakeOK
  <2> QED
    BY ONLY <2>1, <2>2
<1> HIDE DEF k
<1> QED
  BY ONLY <1>1, <1>3, SdoInv, CliMoves, FaultsCount

LEMMA CliTimeoutStep ==
  ASSUME SdoInv, CliTimeout
  PROVE  SdoInv'
<1>1. CliBase(cli)
  BY DEF SdoInv, CliOK
<1>2. CliStep(cli, Stop(cli))
  BY ONLY <1>1, CliEnds
<1>3. CliStep(cli, SendAbort(Stop(cli)))
  <2>1. CliStep(Stop(cli), SendAbort(Stop(cli)))
    BY ONLY <1>2, CliSendAbortOK DEF CliStep
  <2> QED
    BY ONLY <1>2, <2>1, CliSteps
<1>4. (CliGoesOn(Stop(cli)) \/ CliGoesOn(SendAbort(Stop(cli)))) /\ Early
  BY DEF CliTimeout, CliGivesUp
<1> QED
  BY ONLY <1>2, <1>3, <1>4, SdoInv, CliMoves, FaultsCount

LEMMA CliBlockTimeoutStep ==
  ASSUME SdoInv, CliBlockTimeout
  PROVE  SdoInv'
<1> DEFINE c == [cli EXCEPT !.half = 1, !.st = "UPLOAD_BLK_SUBBLOCK_CRSP"]
<1>1. cli.st = "UPLOAD_BLK_SUBBLOCK_SREQ" /\ CliMove(c) /\ Early
  BY DEF CliBlockTimeout
<1>2. /\ CliBase(cli) /\ cli \in CliRecord /\ cli.more = <<>>
      /\ (cli.fin = 1 => Len(cli.lastSeg) = Seg)
  BY <1>1 DEF SdoInv, CliOK, CliBase, CliAt, CliUp, UpBlock
<1>3. "UPLOAD_BLK_SUBBLOCK_CRSP" \in UpBlock /\ "UPLOAD_BLK_SUBBLOCK_CRSP" \in States
      /\ "UPLOAD_BLK_SUBBLOCK_CRSP" \notin CliDown /\ 1 \in Bit
  BY CliStatesAre DEF CliUp, UpBlock, Bit
<1>4. c \in CliRecord
  BY ONLY <1>2, <1>3 DEF CliRecord
<1>5. /\ c.st = "UPLOAD_BLK_SUBBLOCK_CRSP" /\ c.fifo = cli.fifo /\ c.nod = cli.nod
      /\ c.more = cli.more /\ c.fin = cli.fin /\ c.lastSeg = cli.lastSeg
  BY ONLY <1>2 DEF CliRecord
<1> HIDE DEF c
<1>6. CliBase(c)
  BY ONLY <1>2, <1>4, <1>5 DEF CliBase
<1>7. c.fin = 1 => Len(c.lastSeg) = Seg
  BY ONLY <1>2, <1>5
<1>8. CliAt(c)
  BY ONLY <1>2, <1>3, <1>5, <1>7, CliAtIs
<1>9. CliStep(cli, c)
  BY ONLY <1>3, <1>5, <1>6, <1>8 DEF CliOK, CliStep
<1> QED
  BY ONLY <1>1, <1>9, SdoInv, CliMoves, FaultsCount

LEMMA FifoLeft ==
  ASSUME NEW b \in Nat, NEW n \in Nat, NEW x \in Nat, b + (x + Seg) <= Fifo, n <= Seg
  PROVE  (b + n) + x <= Fifo
BY SdoAssumption

\* A segment of a sub-block is stored in the room the client has asked for.
LEMMA UploadedBlockSegmentOK ==
  ASSUME NEW k, CliOK(k), k.st = "UPLOAD_BLK_SUBBLOCK_SREQ", NEW f \in Frames
  PROVE  CliStep(k, UploadedBlockSegment(k, f))
<1> DEFINE n == Low(Seg, Room(k.fifo))
           d == Front_(f.data, n)
           ends == f.seq = k.blk
           st == IF ends THEN "UPLOAD_BLK_SUBBLOCK_CRSP" ELSE k.st
           rx == IF ends THEN None ELSE k.rx
           last == [k EXCEPT !.seq = f.seq, !.lastSeg = f.data, !.fin = 1, !.rx = None,
                             !.st = "UPLOAD_BLK_SUBBLOCK_CRSP"]
           next == [k EXCEPT !.seq = f.seq, !.fifo = @ \o d, !.crc = @ \o d, !.tran = @ + Seg,
                             !.st = IF f.seq = k.blk THEN "UPLOAD_BLK_SUBBLOCK_CRSP" ELSE @,
                             !.rx = IF f.seq = k.blk THEN None ELSE @]
           miss == [k EXCEPT !.st = "UPLOAD_BLK_SUBBLOCK_CRSP", !.rx = None]
           r == UploadedBlockSegment(k, f)
<1>1. r = IF InTurn(k, f) THEN IF f.last = 1 THEN last ELSE next
          ELSE IF OutOfTurn(k, f) THEN miss ELSE k
  BY DEF UploadedBlockSegment
<1> HIDE DEF r
<1>2. /\ CliBase(k) /\ k \in CliRecord /\ k.more = <<>> /\ k.fifo \in Data /\ Len(k.fifo) <= Fifo
      /\ k.nod <= Seg /\ k.seq \in Nat /\ k.blk \in Nat /\ (k.fin = 1 => Len(k.lastSeg) = Seg)
      /\ Len(k.fifo) + (k.blk - k.seq) * Seg <= Fifo /\ k.crc \in Data /\ k.tran \in Int
      /\ k.rx \in Frames \cup {None} /\ Len(k.fifo) \in Nat
  <2>1. /\ CliBase(k) /\ k.more = <<>> /\ (k.fin = 1 => Len(k.lastSeg) = Seg)
        /\ Len(k.fifo) + (k.blk - k.seq) * Seg <= Fifo
    BY DEF CliOK, CliAt, CliUp, UpBlock
  <2> QED
    BY ONLY <2>1, CliIs
<1>3. Seg \in Nat
  BY SdoAssumption
<1>4. /\ {"UPLOAD_BLK_SUBBLOCK_CRSP", "UPLOAD_BLK_SUBBLOCK_SREQ"} \subseteq UpBlock \cap States
      /\ "UPLOAD_BLK_SUBBLOCK_CRSP" \notin CliDown /\ "UPLOAD_BLK_SUBBLOCK_SREQ" \notin CliDown
      /\ 1 \in Bit
  BY CliStatesAre DEF CliUp, UpBlock, Bit
<1>5. CASE InTurn(k, f)
  <2>1. f.c = "block" /\ f.seq <= k.blk /\ f.seq = k.seq + 1 /\ f.seq \in Nat /\ f.data \in Data
    BY ONLY <1>5, f \in Frames, FrameIs DEF InTurn
  <2>2. Len(f.data) = Seg
    BY ONLY <2>1, f \in Frames, FrameIs DEF FrameOK
  <2>3. CliStep(k, last)
    <3>1. last \in CliRecord
      BY ONLY <1>2, <1>4, <2>1 DEF CliRecord
    <3>2. last.st = "UPLOAD_BLK_SUBBLOCK_CRSP" /\ last.fifo = k.fifo /\ last.nod = k.nod
          /\ last.more = k.more /\ last.lastSeg = f.data
      BY ONLY <1>2 DEF CliRecord
    <3> HIDE DEF last
    <3>3. CliBase(last)
      BY ONLY <1>2, <3>1, <3>2 DEF CliBase
    <3>4. CliAt(last)
      BY ONLY <1>2, <1>4, <2>2, <3>2, CliAtIs
    <3> QED
      BY ONLY <1>4, <3>2, <3>3, <3>4 DEF CliOK, CliStep
  <2>4. CliStep(k, next)
    <3>1. n \in Nat /\ n <= Seg /\ n <= Room(k.fifo)
      <4>1. Room(k.fifo) \in Nat
        BY ONLY <1>2, RoomIs
      <4> QED
        BY ONLY <1>3, <4>1, LowIs
    <3> HIDE DEF n
    <3>2. /\ d \in Data /\ k.fifo \o d \in Data /\ Len(k.fifo \o d) = Len(k.fifo) + n
          /\ Len(k.fifo) + n <= Fifo
      <4>1. n <= Len(f.data)
        BY ONLY <2>2, <3>1
      <4> QED
        BY ONLY <1>2, <2>1, <3>1, <4>1, PutIs, ZenonT(40)
    <3> HIDE DEF d
    <3>3. k.crc \o d \in Data /\ k.tran + Seg \in Int
      BY ONLY <1>2, <1>3, <3>2, CatIs
    <3>4. st \in {"UPLOAD_BLK_SUBBLOCK_CRSP", "UPLOAD_BLK_SUBBLOCK_SREQ"}
          /\ rx \in Frames \cup {None}
      BY ONLY <1>2, k.st = "UPLOAD_BLK_SUBBLOCK_SREQ"
    <3>5. next = [k EXCEPT !.seq = f.seq, !.fifo = k.fifo \o d, !.crc = k.crc \o d,
                           !.tran = k.tran + Seg, !.st = st, !.rx = rx]
      BY ONLY <1>2 DEF CliRecord
    <3> HIDE DEF next, st, rx
    <3>6. st \in UpBlock /\ st \in States /\ st \notin CliDown
      BY ONLY <1>4, <3>4
    <3>7. next \in CliRecord
      BY ONLY <1>2, <2>1, <3>2, <3>3, <3>4, <3>5, <3>6 DEF CliRecord
    <3>8. next.st = st /\ next.fifo = k.fifo \o d /\ next.nod = k.nod /\ next.more = k.more
          /\ next.fin = k.fin /\ next.lastSeg = k.lastSeg /\ next.blk = k.blk /\ next.seq = f.seq
      BY ONLY <1>2, <3>5 DEF CliRecord
    <3>9. CliBase(next)
      BY ONLY <1>2, <3>2, <3>7, <3>8 DEF CliBase
    <3>10. Len(next.fifo) + (next.blk - next.seq) * Seg <= Fifo
      <4> DEFINE m == k.blk - f.seq
                 x == m * Seg
      <4>1. m \in Nat /\ k.blk - k.seq = m + 1
        BY ONLY <1>2, <2>1
      <4> HIDE DEF m
      <4>2. x \in Nat /\ (k.blk - k.seq) * Seg = x + Seg
        BY ONLY <1>3, <4>1, TimesIs
      <4> HIDE DEF x
      <4>3. Len(k.fifo) \in Nat /\ Len(k.fifo) + (x + Seg) <= Fifo
        BY ONLY <1>2, <4>2
      <4>4. (Len(k.fifo) + n) + x <= Fifo
        BY ONLY <3>1, <4>2, <4>3, FifoLeft
      <4> QED
        BY ONLY <3>2, <3>8, <4>4 DEF x, m
    <3>11. CliAt(next)
      BY ONLY <1>2, <3>6, <3>8, <3>10, CliAtIs
    <3> QED
      BY ONLY <3>6, <3>8, <3>9, <3>11 DEF CliOK, CliStep
  <2> HIDE DEF last, next
  <2> QED
    BY ONLY <1>1, <1>5, <2>3, <2>4 DEF r
<1>6. CASE ~InTurn(k, f)
  <2>1. CliStep(k, miss)
    <3>1. miss \in CliRecord
      BY ONLY <1>2, <1>4 DEF CliRecord
    <3>2. miss.st = "UPLOAD_BLK_SUBBLOCK_CRSP" /\ miss.fifo = k.fifo /\ miss.nod = k.nod
          /\ miss.more = k.more /\ miss.lastSeg = k.lastSeg /\ miss.fin = k.fin
      BY ONLY <1>2 DEF CliRecord
    <3> HIDE DEF miss
    <3>3. CliBase(miss)
      BY ONLY <1>2, <3>1, <3>2 DEF CliBase
    <3>4. CliAt(miss)
      BY ONLY <1>2, <1>4, <3>2, CliAtIs
    <3> QED
      BY ONLY <1>4, <3>2, <3>3, <3>4 DEF CliOK, CliStep
  <2>2. CliStep(k, k)
    BY ONLY CliOK(k) DEF CliStep
  <2> HIDE DEF miss
  <2> QED
    BY ONLY <1>1, <1>6, <2>1, <2>2 DEF r
<1> QED
  BY ONLY <1>5, <1>6

LEMMA CliReceiveStep ==
  ASSUME SdoInv, CO_SDOclient_receive
  PROVE  SdoInv'
<1> DEFINE f == Head(toCli)
           got == UploadedBlockSegment(cli, f)
           stored == [got EXCEPT !.half = 0]
           heard == [cli EXCEPT !.rx = f]
<1>1. /\ toCli # <<>> /\ toCli' = Tail(toCli) /\ UNCHANGED <<srv, toSrv, job, begun, faults>>
      /\ \/ cli' \in {cli, heard}
         \/ cli.st = "UPLOAD_BLK_SUBBLOCK_SREQ" /\ cli' = stored
  BY DEF CO_SDOclient_receive
<1>2. f \in Frames /\ toCli' \in Seq(Frames) /\ CliOK(cli) /\ faults \in Nat
  BY <1>1, HeadTailProperties DEF SdoInv
<1> HIDE DEF f
<1>3. abort \in Frames /\ f \in Frames \cup {None} /\ None \in Frames \cup {None}
      /\ "ok" \in {"none", "ok", "abort", "closed"}
  BY <1>2, AbortFrame
<1>4. CliStep(cli, cli) /\ CliStep(cli, heard)
  BY ONLY <1>2, <1>3, CliSetIs
<1>5. cli.st = "UPLOAD_BLK_SUBBLOCK_SREQ" => CliStep(cli, stored)
  <2> SUFFICES ASSUME cli.st = "UPLOAD_BLK_SUBBLOCK_SREQ" PROVE CliStep(cli, stored)
    OBVIOUS
  <2>1. CliStep(cli, got)
    BY ONLY <1>2, cli.st = "UPLOAD_BLK_SUBBLOCK_SREQ", UploadedBlockSegmentOK
  <2> HIDE DEF got
  <2>2. CliOK(got)
    BY ONLY <2>1 DEF CliStep
  <2>3. CliStep(got, stored)
    BY ONLY <1>3, <2>2, CliSetIs
  <2> HIDE DEF stored
  <2> QED
    BY ONLY <2>1, <2>3, CliSteps
<1> HIDE DEF heard, stored
<1>6. CliStep(cli, cli')
  BY ONLY <1>1, <1>4, <1>5
<1> QED
  BY ONLY <1>1, <1>2, <1>6, SdoInv, CliChanges

LEMMA CloseStep ==
  ASSUME SdoInv, CO_SDOclientClose
  PROVE  SdoInv'
<1>1. cli' = End(cli, "closed") /\ Fault /\ UNCHANGED <<srv, toSrv, toCli, job, begun>>
  BY DEF CO_SDOclientClose
<1>2. CliBase(cli) /\ toCli \in Seq(Frames)
  BY DEF SdoInv, CliOK
<1>3. CliStep(cli, End(cli, "closed"))
  BY ONLY <1>2, CliEnds
<1>4. toCli' \in Seq(Frames) /\ CliStep(cli, cli')
  BY ONLY <1>1, <1>2, <1>3
<1>5. faults' \in Nat
  BY ONLY <1>1, SdoInv, FaultsCount
<1> QED
  BY ONLY <1>1, <1>4, <1>5, SdoInv, CliChanges

\* Only a download has more to put into the fifo.
LEMMA RefillStep ==
  ASSUME SdoInv, Refill
  PROVE  SdoInv'
<1> DEFINE r == Fill(cli)
<1>1. cli.more # <<>> /\ cli.st # "IDLE" /\ cli' = r /\ UNCHANGED <<srv, toSrv, toCli, job,
         begun, faults>>
  BY DEF Refill, Partial
<1>2. /\ CliBase(cli) /\ CliAt(cli) /\ toCli \in Seq(Frames) /\ faults \in Nat
         /\ cli.st \in States
      /\ cli.alt \in Nat /\ Len(cli.fifo) \in Nat
  BY CliIs DEF SdoInv, CliOK
<1>3. CliBase(r) /\ Len(cli.fifo) <= Len(r.fifo) /\ r.st = cli.st /\ r.alt = cli.alt
  BY ONLY <1>2, FillIs
<1> HIDE DEF r
<1>4. cli.st \notin CliUp
  BY ONLY <1>1, <1>2 DEF CliAt
<1>5. Len(r.fifo) \in Nat
  BY ONLY <1>3, CliIs
<1>6. r.st \in DownSending => r.alt <= Len(r.fifo)
  <2> SUFFICES ASSUME r.st \in DownSending PROVE r.alt <= Len(r.fifo)
    OBVIOUS
  <2>1. cli.alt <= Len(cli.fifo)
    BY ONLY <1>2, <1>3, r.st \in DownSending DEF CliAt
  <2> QED
    BY ONLY <1>2, <1>3, <1>5, <2>1
<1>7. CliAt(r)
  BY ONLY <1>3, <1>4, <1>6 DEF CliAt, CliUp, UpAsked, UpSegment, UpBlock
<1>8. CliStep(cli, cli')
  BY ONLY <1>1, <1>3, <1>7 DEF CliOK, CliStep
<1>9. toCli' \in Seq(Frames) /\ faults' \in Nat
  BY ONLY <1>1, <1>2
<1> QED
  BY ONLY <1>1, <1>8, <1>9, SdoInv, CliChanges

\* Only an upload's fifo is emptied: none that is being sent from.
LEMMA TakeOutStep ==
  ASSUME SdoInv, TakeOut
  PROVE  SdoInv'
<1> DEFINE r == [cli EXCEPT !.got = @ \o cli.fifo, !.fifo = <<>>]
           got == cli.got \o cli.fifo
<1>1. job.op = "upload" /\ cli' = r /\ UNCHANGED <<srv, toSrv, toCli, job, begun, faults>>
  BY DEF TakeOut
<1>2. /\ CliBase(cli) /\ CliAt(cli) /\ cli \in CliRecord /\ toCli \in Seq(Frames)
         /\ faults \in Nat
      /\ cli.st \notin CliDown
  BY <1>1 DEF SdoInv, CliOK, CliBase
<1>3. cli.got \in Data /\ cli.fifo \in Data /\ <<>> \in Data /\ Len(<<>>) = 0
         /\ Len(cli.fifo) \in Nat
      /\ cli.blk \in Nat /\ cli.seq \in Nat /\ Seg \in Nat /\ Fifo \in Nat
  BY <1>2, LenIs, SdoAssumption DEF CliRecord, Data
<1>4. got \in Data
  BY ONLY <1>3, CatIs
<1>5. r = [cli EXCEPT !.got = got, !.fifo = <<>>]
  BY ONLY <1>2 DEF CliRecord
<1> HIDE DEF r, got
<1>6. r \in CliRecord
  BY ONLY <1>2, <1>3, <1>4, <1>5 DEF CliRecord
<1>7. /\ r.st = cli.st /\ r.fifo = <<>> /\ r.nod = cli.nod /\ r.more = cli.more /\ r.fin = cli.fin
      /\ r.blk = cli.blk /\ r.seq = cli.seq /\ r.lastSeg = cli.lastSeg
  BY ONLY <1>2, <1>5 DEF CliRecord
<1>8. CliBase(r)
  BY ONLY <1>2, <1>3, <1>6, <1>7 DEF CliBase
<1>9. r.st \in {"UPLOAD_BLK_INITIATE_RSP", "UPLOAD_BLK_INITIATE_REQ2"} =>
        Len(r.fifo) + r.blk * Seg <= Fifo
  <2> DEFINE x == cli.blk * Seg
  <2>1. x \in Int
    BY ONLY <1>3
  <2>2. cli.st \in {"UPLOAD_BLK_INITIATE_RSP", "UPLOAD_BLK_INITIATE_REQ2"} =>
          Len(cli.fifo) + x <= Fifo
    BY ONLY <1>2 DEF CliAt
  <2> HIDE DEF x
  <2>3. Len(cli.fifo) + x <= Fifo => 0 + x <= Fifo
    BY ONLY <1>3, <2>1
  <2> QED
    BY ONLY <1>3, <1>7, <2>2, <2>3 DEF x
<1>10. r.st = "UPLOAD_BLK_SUBBLOCK_SREQ" => Len(r.fifo) + (r.blk - r.seq) * Seg <= Fifo
  <2> DEFINE x == (cli.blk - cli.seq) * Seg
  <2>1. x \in Int
    BY ONLY <1>3
  <2>2. cli.st = "UPLOAD_BLK_SUBBLOCK_SREQ" => Len(cli.fifo) + x <= Fifo
    BY ONLY <1>2 DEF CliAt
  <2> HIDE DEF x
  <2>3. Len(cli.fifo) + x <= Fifo => 0 + x <= Fifo
    BY ONLY <1>3, <2>1
  <2> QED
    BY ONLY <1>3, <1>7, <2>2, <2>3 DEF x
<1>11. r.st \notin DownSending
  BY ONLY <1>2, <1>7 DEF DownSending, CliDown, DownBlock
<1>12. CliAt(r)
  BY ONLY <1>2, <1>7, <1>9, <1>10, <1>11 DEF CliAt
<1>13. CliStep(cli, cli')
  BY ONLY <1>1, <1>7, <1>8, <1>12 DEF CliOK, CliStep
<1>14. toCli' \in Seq(Frames) /\ faults' \in Nat
  BY ONLY <1>1, <1>2
<1> QED
  BY ONLY <1>1, <1>13, <1>14, SdoInv, CliChanges

LEMMA InitiateStep ==
  ASSUME SdoInv, NEW j \in Jobs, Initiate(j)
  PROVE  SdoInv'
<1> DEFINE k == [cli EXCEPT !.idx = j.obj, !.ind = j.ind, !.tran = 0, !.fin = 0, !.fifo = <<>>,
                            !.got = <<>>, !.more = j.data, !.rx = None, !.ret = "none"]
           ust == IF j.blk = 1 THEN "UPLOAD_BLK_INITIATE_REQ" ELSE "UPLOAD_INITIATE_REQ"
           dst == IF j.blk = 1 /\ (j.ind = 0 \/ j.ind > Pst)
                  THEN "DOWNLOAD_BLK_INITIATE_REQ" ELSE "DOWNLOAD_INITIATE_REQ"
           up == [k EXCEPT !.st = ust]
           down == [k EXCEPT !.st = dst]
<1>1. /\ job' = j /\ UNCHANGED <<srv, toSrv, toCli, faults>>
      /\ cli' = IF j.op = "upload" THEN up ELSE Fill(down)
  BY DEF Initiate
<1>2. /\ j.op \in {"upload", "download"} /\ j.obj \in Obj /\ j.ind \in Nat /\ j.data \in Data
      /\ (j.op = "upload" => j.data = <<>>) /\ Fifo \in Nat
  BY SdoAssumption DEF Data
<1>3. cli \in CliRecord /\ cli.nod <= Seg
  BY DEF SdoInv, CliOK, CliBase
<1>4. /\ <<>> \in Data /\ Len(<<>>) = 0 /\ 0 \in Int /\ 0 \in Bit /\ j.obj \in Obj \cup {None}
      /\ "none" \in {"none", "ok", "abort", "closed"} /\ None \in Frames \cup {None}
  BY <1>2 DEF Data, Bit
<1>5. k \in CliRecord
  BY ONLY <1>2, <1>3, <1>4 DEF CliRecord
<1>6. k.fifo = <<>> /\ k.nod = cli.nod /\ k.more = j.data /\ k.fin = 0
  BY ONLY <1>3 DEF CliRecord
<1> HIDE DEF k
<1>7. /\ ust \in UpAsked /\ ust # "UPLOAD_BLK_INITIATE_RSP" /\ ust \in States
         /\ ust \notin CliDown
      /\ dst \in CliDown \ DownSending /\ dst \in States
  <2>1. ust \in UpAsked /\ ust # "UPLOAD_BLK_INITIATE_RSP" /\ dst \in DownRequest
    BY DEF UpAsked, DownRequest
  <2>2. UpAsked \subseteq CliUp /\ DownRequest \subseteq CliDown \ DownSending
    BY DEF CliUp, CliDown, UpAsked, DownRequest, DownSending
  <2> HIDE DEF ust, dst
  <2> QED
    BY ONLY <2>1, <2>2, CliStatesAre
<1> HIDE DEF ust, dst
<1>8. up \in CliRecord /\ down \in CliRecord
  BY ONLY <1>5, <1>7 DEF CliRecord
<1>9. /\ up.st = ust /\ up.fifo = k.fifo /\ up.nod = k.nod /\ up.more = k.more /\ up.fin = k.fin
      /\ down.st = dst /\ down.fifo = k.fifo /\ down.nod = k.nod
  BY ONLY <1>5 DEF CliRecord
<1> HIDE DEF up, down
<1>10. CliBase(up) /\ CliBase(down)
  BY ONLY <1>2, <1>3, <1>4, <1>6, <1>8, <1>9 DEF CliBase
<1>11. CASE j.op = "upload"
  <2>1. CliAt(up)
    BY ONLY <1>2, <1>6, <1>7, <1>9, <1>11, CliAtIs
  <2>2. CliOK(cli)' /\ cli'.st \notin CliDown
    BY ONLY <1>1, <1>7, <1>9, <1>10, <1>11, <2>1 DEF CliOK
  <2> QED
    BY ONLY <1>1, <2>2, SdoInv, j \in Jobs DEF SdoInv
<1>12. CASE j.op # "upload"
  <2> DEFINE r == Fill(down)
  <2>1. CliBase(r) /\ r.st = dst
    BY ONLY <1>9, <1>10, FillIs
  <2>2. cli' = r
    BY ONLY <1>1, <1>12
  <2> HIDE DEF r
  <2>3. CliAt(r)
    BY ONLY <1>7, <2>1, CliAtIs
  <2>4. CliOK(cli)'
    BY ONLY <2>1, <2>2, <2>3 DEF CliOK
  <2>5. job'.op = "download"
    BY ONLY <1>1, <1>2, <1>12
  <2> QED
    BY ONLY <1>1, <2>4, <2>5, SdoInv, j \in Jobs DEF SdoInv
<1> QED
  BY ONLY <1>11, <1>12

LEMMA ChannelsAre ==
  ASSUME NEW ch \in Seq(Frames), ch # <<>>
  PROVE  Tail(ch) \in Seq(Frames) /\ <<Head(ch)>> \o ch \in Seq(Frames)
<1>1. Head(ch) \in Frames /\ Tail(ch) \in Seq(Frames)
  BY HeadTailProperties
<1>2. <<Head(ch)>> \in Seq(Frames)
  BY <1>1
<1> QED
  BY <1>1, <1>2, ConcatProperties

\* A frame lost or doubled is no new kind of frame.
LEMMA BusStep ==
  ASSUME SdoInv, Lose \/ Double
  PROVE  SdoInv'
<1>1. UNCHANGED <<cli, srv, job, begun>> /\ Fault
  BY DEF Lose, Double
<1>2. toSrv \in Seq(Frames) /\ toCli \in Seq(Frames)
  BY DEF SdoInv
<1>3. toSrv' \in Seq(Frames) /\ toCli' \in Seq(Frames)
  <2>1. CASE Lose
    BY <1>2, <2>1, ChannelsAre DEF Lose
  <2>2. CASE Double
    BY <1>2, <2>2, ChannelsAre DEF Double
  <2> QED
    BY <2>1, <2>2
<1>4. faults' \in Nat
  BY ONLY <1>1, SdoInv, FaultsCount
<1> QED
  BY ONLY <1>1, <1>3, <1>4, SdoInv DEF SdoInv

LEMMA SdoInvInit ==
  ASSUME Init
  PROVE  SdoInv
<1>1. /\ <<>> \in Data /\ Len(<<>>) = 0 /\ 0 \in Int /\ 0 \in Nat /\ 0 \in Bit
      /\ None \in Obj \cup {None} /\ None \in Frames \cup {None} /\ <<>> \in Seq(Frames)
      /\ "none" \in {"none", "ok", "abort", "closed"} /\ "IDLE" \in States /\ "IDLE" \in Others
      /\ "IDLE" \notin CliDown /\ "IDLE" \in {"IDLE", "ABORT"}
  BY CliStatesAre, StatesAre DEF Data, Bit, Others
<1>2. First \in [Obj -> Data] /\ Fifo \in Nat /\ Buf \in Nat /\ Seg \in Nat
  BY SdoAssumption DEF Data
<1>3. cli \in CliRecord
  BY ONLY Init, <1>1 DEF Init, CliRecord
<1>4. srv \in SrvRecord
  BY ONLY Init, <1>1, <1>2 DEF Init, SrvRecord
<1>5. cli.st = "IDLE" /\ cli.fifo = <<>> /\ cli.nod = 0
  BY ONLY Init DEF Init
<1>6. srv.st = "IDLE" /\ srv.buf = <<>> /\ srv.nod = 0 /\ srv.rd = 0
  BY ONLY Init DEF Init
<1>7. CliOK(cli)
  <2>1. CliBase(cli)
    BY ONLY <1>1, <1>2, <1>3, <1>5 DEF CliBase
  <2> QED
    BY ONLY <1>1, <1>5, <2>1, CliAtIs DEF CliOK
<1>8. SrvOK(srv)
  <2>1. SrvBase(srv)
    BY ONLY <1>1, <1>2, <1>4, <1>6 DEF SrvBase
  <2> QED
    BY ONLY <1>1, <1>6, <2>1, SrvAtIs DEF SrvOK
<1>9. toSrv = <<>> /\ toCli = <<>> /\ job = None /\ faults = 0
  BY ONLY Init DEF Init
<1> QED
  BY ONLY <1>1, <1>5, <1>7, <1>8, <1>9 DEF SdoInv

LEMMA SdoInvStep ==
  ASSUME SdoInv, [Next]_vars
  PROVE  SdoInv'
<1>1. CASE \E j \in Jobs : Initiate(j)
  BY <1>1, InitiateStep
<1>2. CASE Node
  BY <1>2, SrvProcessStep, SrvReceiveStep, CliProcessStep, CliReceiveStep, RefillStep, TakeOutStep
     DEF Node
<1>3. CASE Clock
  BY <1>3, CliTimeoutStep, SrvTimeoutStep, CliBlockTimeoutStep, SrvBlockTimeoutStep DEF Clock
<1>4. CASE CO_SDOclientClose
  BY <1>4, CloseStep
<1>5. CASE Lose \/ Double
  BY <1>5, BusStep
<1>6. CASE UNCHANGED vars
  BY <1>6 DEF vars, SdoInv
<1> QED
  BY <1>1, <1>2, <1>3, <1>4, <1>5, <1>6 DEF Next

\* What both ends of a transfer keep to in every state, whatever is lost,
\* doubled, late or given up: the types, the buffers and what each state of the
\* exchange asks for.
THEOREM SdoInvariant == Spec => []SdoInv
<1>1. Init => SdoInv
  BY SdoInvInit
<1>2. SdoInv /\ [Next]_vars => SdoInv'
  BY SdoInvStep
<1> QED
  BY <1>1, <1>2, PTL DEF Spec

\* Of every sub-block that an end has asked for, the segments that are still
\* to come have their place in its buffer, the end of a text included
\* (CO_SDOserver.c:81, CO_SDOclient.c:101).
THEOREM SegmentsHaveRoom == Spec => []SubBlocksFit
<1>1. SdoInv => SubBlocksFit
  BY DEF SdoInv, SrvOK, SrvAt, CliOK, CliAt, SubBlocksFit
<1> QED
  BY <1>1, SdoInvariant, PTL

\* No transfer, of any size and by any of the three protocols, writes past the
\* end of the server's buffer or of the client's fifo.
THEOREM BuffersHold == Spec => [](Len(srv.buf) <= Buf /\ Len(cli.fifo) <= Fifo)
<1>1. SdoInv => Len(srv.buf) <= Buf /\ Len(cli.fifo) <= Fifo
  BY DEF SdoInv, SrvOK, SrvBase, CliOK, CliBase
<1> QED
  BY <1>1, SdoInvariant, PTL

-----------------------------------------------------------------------------

(***************************************************************************)
(* Parts of sequences: Part(d, a, b) is what follows the first a elements, *)
(* up to the first b.                                                      *)
(***************************************************************************)
Part(d, a, b) == SubSeq(d, a + 1, b)

LEMMA PartIs ==
  ASSUME NEW d \in Data, NEW a \in Nat, NEW b \in Nat, a <= b, b <= Len(d)
  PROVE  /\ Part(d, a, b) \in Data /\ Len(Part(d, a, b)) = b - a
         /\ \A i \in 1..(b - a) : Part(d, a, b)[i] = d[a + i]
<1>1. Len(d) \in Nat /\ \A i \in (a + 1)..b : d[i] \in Nat
  BY DEF Data
<1>2. /\ SubSeq(d, a + 1, b) \in Seq(Nat)
      /\ Len(SubSeq(d, a + 1, b)) = IF a + 1 <= b THEN b - (a + 1) + 1 ELSE 0
      /\ \A i \in 1..(b - (a + 1) + 1) : SubSeq(d, a + 1, b)[i] = d[(a + 1) + i - 1]
  BY ONLY <1>1, a \in Nat, b \in Nat, SubSeqProperties
<1>3. /\ b - (a + 1) + 1 = b - a /\ (~(a + 1 <= b) => b - a = 0)
      /\ \A i \in 1..(b - a) : (a + 1) + i - 1 = a + i
  OBVIOUS
<1> QED
  BY <1>2, <1>3 DEF Data, Part

LEMMA FrontPart ==
  \A d, n : Front_(d, n) = Part(d, 0, n) /\ Rest(d, n) = Part(d, n, Len(d))
BY DEF Front_, Rest, Part

LEMMA SameData ==
  ASSUME NEW d \in Data, NEW e \in Data, Len(d) = Len(e), \A i \in 1..Len(d) : d[i] = e[i]
  PROVE  d = e
BY SeqEqual DEF Data

LEMMA CatAt ==
  ASSUME NEW d \in Data, NEW e \in Data
  PROVE  /\ d \o e \in Data /\ Len(d \o e) = Len(d) + Len(e)
         /\ \A i \in 1..(Len(d) + Len(e)) :
              (d \o e)[i] = IF i <= Len(d) THEN d[i] ELSE e[i - Len(d)]
BY ConcatProperties DEF Data

\* Two parts next to each other make one.
LEMMA PartsJoin ==
  ASSUME NEW d \in Data, NEW a \in Nat, NEW b \in Nat, NEW c \in Nat, a <= b, b <= c, c <= Len(d)
  PROVE  Part(d, a, b) \o Part(d, b, c) = Part(d, a, c)
<1>1. Len(d) \in Nat /\ a + 1 \in 1..(Len(d) + 1) /\ b \in ((a + 1) - 1)..Len(d) /\ c \in b..Len(d)
  BY DEF Data
<1> QED
  BY <1>1, ConcatAdjacentSubSeq DEF Data, Part

LEMMA WholeIs ==
  ASSUME NEW d \in Data
  PROVE  /\ Front_(d, Len(d)) = d /\ Rest(d, 0) = d /\ Part(d, 0, Len(d)) = d
         /\ Front_(d, 0) = <<>> /\ Rest(d, Len(d)) = <<>>
<1>1. Len(d) \in Nat /\ SubSeq(d, 1, Len(d)) = d
  BY SubSeqFull DEF Data
<1>2. SubSeq(d, 1, 0) = <<>> /\ SubSeq(d, Len(d) + 1, Len(d)) = <<>>
  BY <1>1, SubSeqEmpty
<1> QED
  BY <1>1, <1>2 DEF Front_, Rest, Part

LEMMA FrontAndRest ==
  ASSUME NEW d \in Data, NEW n \in Nat, n <= Len(d)
  PROVE  Front_(d, n) \o Rest(d, n) = d
<1>1. Len(d) \in Nat /\ 0 \in Nat /\ 0 <= n /\ Len(d) <= Len(d)
  BY LenIs
<1>2. Part(d, 0, n) \o Part(d, n, Len(d)) = Part(d, 0, Len(d))
  BY ONLY <1>1, PartsJoin, d \in Data, n \in Nat, n <= Len(d)
<1> QED
  BY ONLY <1>2, FrontPart, WholeIs, d \in Data

\* A part of what is left is a part of the whole.
LEMMA PartOfRest ==
  ASSUME NEW d \in Data, NEW a \in Nat, NEW m \in Nat, NEW n \in Nat, m <= n, a + n <= Len(d)
  PROVE  Part(Rest(d, a), m, n) = Part(d, a + m, a + n)
<1> DEFINE r == Rest(d, a)
           p == Part(r, m, n)
           q == Part(d, a + m, a + n)
<1>0. /\ Len(d) \in Nat /\ a <= Len(d) /\ Len(d) <= Len(d) /\ a + m \in Nat /\ a + n \in Nat
      /\ a + m <= a + n /\ (a + n) - (a + m) = n - m /\ n <= Len(d) - a
  BY LenIs
<1>1. /\ r \in Data /\ Len(r) = Len(d) - a
      /\ \A i \in 1..(Len(d) - a) : r[i] = d[a + i]
  BY ONLY <1>0, PartIs, FrontPart, d \in Data, a \in Nat
<1> HIDE DEF r
<1>2. p \in Data /\ Len(p) = n - m /\ \A i \in 1..(n - m) : p[i] = r[m + i]
  BY ONLY <1>0, <1>1, PartIs, m \in Nat, n \in Nat, m <= n, ZenonT(40)
<1>3. /\ q \in Data /\ Len(q) = n - m
      /\ \A i \in 1..(n - m) : q[i] = d[(a + m) + i]
  <2> DEFINE am == a + m
             an == a + n
  <2>1. am \in Nat /\ an \in Nat /\ am <= an /\ an <= Len(d) /\ an - am = n - m
    BY <1>0
  <2> HIDE DEF am, an
  <2>2. /\ Part(d, am, an) \in Data /\ Len(Part(d, am, an)) = an - am
        /\ \A i \in 1..(an - am) : Part(d, am, an)[i] = d[am + i]
    BY ONLY <2>1, PartIs, d \in Data
  <2> QED
    BY ONLY <2>1, <2>2 DEF am, an
<1> HIDE DEF p, q
<1>4. \A i \in 1..(n - m) : p[i] = q[i]
  <2> SUFFICES ASSUME NEW i \in 1..(n - m) PROVE p[i] = q[i]
    OBVIOUS
  <2>1. m + i \in 1..(Len(d) - a) /\ a + (m + i) = (a + m) + i
    BY <1>0
  <2>2. p[i] = r[m + i] /\ r[m + i] = d[a + (m + i)]
    BY <1>1, <1>2, <2>1
  <2> QED
    BY <1>3, <2>1, <2>2
<1>5. p = q
  BY ONLY <1>2, <1>3, <1>4, SameData
<1> QED
  BY <1>5 DEF p, q, r

LEMMA RestOfRest ==
  ASSUME NEW d \in Data, NEW a \in Nat, NEW n \in Nat, a + n <= Len(d)
  PROVE  Rest(Rest(d, a), n) = Rest(d, a + n)
<1> DEFINE m == Len(d) - a
<1>1. Len(d) \in Nat /\ a <= Len(d) /\ Len(Rest(d, a)) = m
      /\ m \in Nat /\ n <= m /\ a + m = Len(d) /\ a + m <= Len(d)
  BY RestIs, LenIs
<1> HIDE DEF m
<1>2. Part(Rest(d, a), n, m) = Part(d, a + n, a + m)
  BY ONLY <1>1, PartOfRest, d \in Data, a \in Nat, n \in Nat
<1> QED
  BY ONLY <1>1, <1>2, FrontPart

LEMMA FrontOfRest ==
  ASSUME NEW d \in Data, NEW a \in Nat, NEW n \in Nat, a + n <= Len(d)
  PROVE  Front_(Rest(d, a), n) = Part(d, a, a + n)
<1>1. 0 \in Nat /\ 0 <= n /\ a + 0 = a
  OBVIOUS
<1>2. Part(Rest(d, a), 0, n) = Part(d, a + 0, a + n)
  BY ONLY <1>1, PartOfRest, d \in Data, a \in Nat, n \in Nat, a + n <= Len(d)
<1> QED
  BY ONLY <1>1, <1>2, FrontPart

LEMMA FrontGrows ==
  ASSUME NEW d \in Data, NEW a \in Nat, NEW b \in Nat, a <= b, b <= Len(d)
  PROVE  Front_(d, a) \o Part(d, a, b) = Front_(d, b)
<1>1. 0 \in Nat /\ 0 <= a
  OBVIOUS
<1> QED
  BY <1>1, PartsJoin, FrontPart

LEMMA CatAssoc ==
  ASSUME NEW a \in Data, NEW b \in Data, NEW c \in Data
  PROVE  (a \o b) \o c = a \o (b \o c) /\ (a \o b) \o c \in Data
BY ConcatAssociative, CatIs, SMTT(30) DEF Data

LEMMA CatNone ==
  ASSUME NEW d \in Data
  PROVE  d \o <<>> = d /\ <<>> \o d = d /\ <<>> \in Data /\ Len(<<>>) = 0
BY ConcatEmptySeq DEF Data

\* What was put in front, and behind.
LEMMA CatParts ==
  ASSUME NEW d \in Data, NEW e \in Data
  PROVE  Front_(d \o e, Len(d)) = d /\ Rest(d \o e, Len(d)) = e
<1> DEFINE c == d \o e
           n == Len(d)
           m == Len(e)
           f == Front_(c, n)
           r == Rest(c, n)
<1>1. /\ n \in Nat /\ m \in Nat /\ c \in Data /\ Len(c) = n + m
      /\ \A i \in 1..(n + m) : c[i] = IF i <= n THEN d[i] ELSE e[i - n]
  BY CatAt, LenIs
<1>2. 0 \in Nat /\ 0 <= n /\ n <= n + m /\ n + m <= n + m /\ n + m \in Nat
  BY <1>1
<1> HIDE DEF c
<1>3. f \in Data /\ Len(f) = n - 0 /\ \A i \in 1..(n - 0) : f[i] = c[0 + i]
  <2> HIDE DEF n, m
  <2> QED
    BY ONLY <1>1, <1>2, PartIs, FrontPart, ZenonT(40)
<1>4. r \in Data /\ Len(r) = (n + m) - n /\ \A i \in 1..((n + m) - n) : r[i] = c[n + i]
  <2> HIDE DEF n, m
  <2> DEFINE nm == n + m
  <2>1. nm \in Nat /\ n <= nm /\ nm <= Len(c) /\ nm = Len(c) /\ n \in Nat /\ c \in Data
    BY ONLY <1>1, <1>2
  <2> HIDE DEF nm
  <2>2. /\ Part(c, n, nm) \in Data /\ Len(Part(c, n, nm)) = nm - n
        /\ \A i \in 1..(nm - n) : Part(c, n, nm)[i] = c[n + i]
    BY ONLY <2>1, PartIs
  <2> QED
    BY ONLY <2>1, <2>2, FrontPart DEF nm
<1> HIDE DEF f, r
<1>5. f = d
  <2>1. Len(f) = Len(d) /\ \A i \in 1..n : f[i] = d[i]
    BY <1>1, <1>2, <1>3
  <2> QED
    BY <1>3, <2>1, SameData
<1>6. r = e
  <2>1. Len(r) = m /\ \A i \in 1..m : r[i] = e[i]
    <3> HIDE DEF n, m
    <3>1. (n + m) - n = m
      BY ONLY <1>1
    <3>2. \A i \in 1..m : n + i \in 1..(n + m) /\ ~(n + i <= n) /\ (n + i) - n = i
      BY ONLY <1>1
    <3> QED
      BY ONLY <1>1, <1>4, <3>1, <3>2
  <2> QED
    BY <1>4, <2>1, SameData
<1> QED
  BY <1>5, <1>6 DEF f, r, c

LEMMA FrontOfCat ==
  ASSUME NEW d \in Data, NEW e \in Data, NEW n \in Nat, n <= Len(d)
  PROVE  Front_(d \o e, n) = Front_(d, n)
<1> DEFINE c == d \o e
           m == Len(d) + Len(e)
           f == Front_(c, n)
           g == Front_(d, n)
<1>1. /\ Len(d) \in Nat /\ c \in Data /\ Len(c) = m /\ m \in Nat /\ n <= m
      /\ \A i \in 1..m : c[i] = IF i <= Len(d) THEN d[i] ELSE e[i - Len(d)]
  <2>1. Len(d) \in Nat /\ Len(e) \in Nat
    BY LenIs
  <2>2. m \in Nat /\ n <= m
    BY ONLY <2>1, n \in Nat, n <= Len(d)
  <2> QED
    BY CatAt, <2>1, <2>2
<1>2. 0 \in Nat /\ 0 <= n /\ n <= Len(c)
  BY <1>1
<1> HIDE DEF c, m
<1>3. f \in Data /\ Len(f) = n - 0 /\ \A i \in 1..(n - 0) : f[i] = c[0 + i]
  <2>1. /\ Part(c, 0, n) \in Data /\ Len(Part(c, 0, n)) = n - 0
        /\ \A i \in 1..(n - 0) : Part(c, 0, n)[i] = c[0 + i]
    BY ONLY <1>1, <1>2, PartIs, n \in Nat, ZenonT(40)
  <2> QED
    BY ONLY <2>1, FrontPart
<1>4. g \in Data /\ Len(g) = n - 0 /\ \A i \in 1..(n - 0) : g[i] = d[0 + i]
  <2>1. /\ Part(d, 0, n) \in Data /\ Len(Part(d, 0, n)) = n - 0
        /\ \A i \in 1..(n - 0) : Part(d, 0, n)[i] = d[0 + i]
    BY ONLY <1>1, <1>2, PartIs, n \in Nat, n <= Len(d), d \in Data, ZenonT(40)
  <2> QED
    BY ONLY <2>1, FrontPart
<1> HIDE DEF f, g
<1>5. \A i \in 1..n : f[i] = g[i]
  BY <1>1, <1>3, <1>4
<1>6. f = g
  BY <1>3, <1>4, <1>5, SameData
<1> QED
  BY <1>6 DEF f, g, c

LEMMA TextOf ==
  ASSUME NEW o, NEW d \in Data, Plain(o, d), NEW e \in Data, e # <<>> => o \in Str /\ e[1] = 0
  PROVE  Text(o, d \o e) = d
<1> DEFINE c == d \o e
           n == Len(d)
           z == {i \in 1..Len(c) : c[i] = 0}
           m == CHOOSE i \in z : \A k \in z : i <= k
<1>1. /\ n \in Nat /\ Len(e) \in Nat /\ c \in Data /\ Len(c) = n + Len(e)
      /\ \A i \in 1..(n + Len(e)) : c[i] = IF i <= n THEN d[i] ELSE e[i - n]
  BY CatAt, LenIs
<1>2. Front_(c, n) = d
  BY CatParts
<1>3. CASE o \notin Str
  <2>1. e = <<>>
    BY <1>3
  <2> QED
    BY <1>3, <2>1, CatNone DEF Text
<1>4. CASE o \in Str
  <2>1. d # <<>> /\ \A i \in 1..n : d[i] # 0
    BY <1>4 DEF Plain
  <2>2. n > 0
    BY <1>1, <2>1, EmptySeq DEF Data
  <2>3. TextLen(c) = IF z = {} THEN Len(c) ELSE IF m = 1 THEN 1 ELSE m - 1
    BY Zenon DEF TextLen
  <2>4. CASE e = <<>>
    <3>1. Len(e) = 0
      BY <2>4
    <3>2. \A i \in 1..Len(c) : c[i] # 0
      BY <1>1, <2>1, <3>1
    <3>3. TextLen(c) = n
      BY <1>1, <2>3, <3>1, <3>2
    <3> QED
      BY <1>2, <1>4, <3>3 DEF Text
  <2>5. CASE e # <<>>
    <3>1. Len(e) > 0 /\ e[1] = 0
      BY <1>1, <2>5, EmptySeq DEF Data
    <3>2. n + 1 \in z
      <4>1. n + 1 \in 1..(n + Len(e)) /\ ~(n + 1 <= n) /\ (n + 1) - n = 1
        BY <1>1, <3>1
      <4>2. c[n + 1] = e[(n + 1) - n]
        BY <1>1, <4>1
      <4> QED
        BY <1>1, <3>1, <4>1, <4>2
    <3>3. \A i \in z : n + 1 <= i
      BY <1>1, <2>1
    <3>4. z \in SUBSET Nat /\ z # {}
      BY <3>2, <1>1
    <3>5. n + 1 \in Nat /\ (n + 1) - 1 = n /\ n + 1 # 1
      BY ONLY <1>1, <2>2
    <3> HIDE DEF z
    <3>6. m = n + 1
      <4> DEFINE nn == n + 1
                 P(i) == i \in z /\ \A k \in z : i <= k
      <4>1. nn \in z /\ \A i \in z : nn <= i
        BY ONLY <3>2, <3>3
      <4>2. \A i \in z : i \in Nat
        BY ONLY <3>4
      <4>3. nn \in Nat
        BY ONLY <3>5
      <4> HIDE DEF nn
      <4>4. \A i \in z : (\A k \in z : i <= k) => i = nn
        BY ONLY <4>1, <4>2, <4>3
      <4>5. m \in z /\ \A k \in z : m <= k
        BY ONLY <4>1, Zenon
      <4> HIDE DEF m
      <4>6. m = nn
        BY ONLY <4>4, <4>5
      <4> QED
        BY ONLY <4>6 DEF nn
    <3> HIDE DEF m
    <3>7. TextLen(c) = n
      <4>1. TextLen(c) = IF m = 1 THEN 1 ELSE m - 1
        BY ONLY <2>3, <3>4
      <4> QED
        BY ONLY <4>1, <3>5, <3>6
    <3> QED
      BY <1>2, <1>4, <3>7 DEF Text
  <2> QED
    BY <2>4, <2>5
<1> QED
  BY <1>3, <1>4

(***************************************************************************)
(* What the server's operations on the object dictionary do.               *)
(***************************************************************************)
Sizes(s) == \A o \in Obj : Len(s.od[o]) = Len(First[o])

LEMMA WriteDoes ==
  ASSUME NEW s \in SrvRecord, s.idx \in Obj, s.len <= Len(s.od[s.idx]), NEW d \in Data
  PROVE  LET w == OD_writeOriginal(s, d)
             new == Front_(s.od[s.idx], s.pos) \o d \o Rest(s.od[s.idx], s.pos + Len(d))
         IN  /\ w.e.idx = s.idx /\ w.e.len = s.len /\ w.e.crc = s.crc /\ w.e.out = s.out
             /\ w.e.t = s.t
             /\ Sizes(s) => Sizes(w.e)
             /\ \/ w.ret = "LONG" /\ w.e = s
                \/ /\ w.ret = "OK" /\ s.pos + Len(d) = s.len /\ w.e.pos = 0
                   /\ w.e.od[s.idx] = new
                \/ /\ w.ret = "PARTIAL" /\ s.pos + Len(d) < s.len /\ w.e.pos = s.pos + Len(d)
                   /\ w.e.od[s.idx] = new /\ Len(new) = Len(s.od[s.idx])
<1> DEFINE left == s.len - s.pos
           n == Len(d)
           obj == s.od[s.idx]
           new == Front_(obj, s.pos) \o d \o Rest(obj, s.pos + n)
           p == IF left > n THEN s.pos + n ELSE 0
           f == [s.od EXCEPT ![s.idx] = new]
           e == [s EXCEPT !.od = f, !.pos = p]
           w == OD_writeOriginal(s, d)
<1>1. /\ s.pos \in Nat /\ s.len \in Nat /\ n \in Nat /\ s.od \in [Obj -> Data]
      /\ obj \in Data /\ Len(obj) \in Nat
  BY LenIs DEF SrvRecord
<1>2. CASE left < n
  <2>1. w = [e |-> s, ret |-> "LONG"]
    BY <1>2, Zenon DEF OD_writeOriginal
  <2> HIDE DEF w
  <2>2. w.e = s /\ w.ret = "LONG"
    BY <2>1
  <2> QED
    BY <2>2 DEF w
<1>3. CASE ~(left < n)
  <2>1. w.e = e /\ w.ret = (IF left > n THEN "PARTIAL" ELSE "OK")
    <3>1. [s EXCEPT !.od[s.idx] = Front_(@, s.pos) \o d \o Rest(@, s.pos + n),
                    !.pos = IF left > n THEN @ + n ELSE 0] = e
      BY ONLY <1>1, s \in SrvRecord DEF SrvRecord
    <3>2. w = [e |-> [s EXCEPT !.od[s.idx] = Front_(@, s.pos) \o d \o Rest(@, s.pos + n),
                               !.pos = IF left > n THEN @ + n ELSE 0],
               ret |-> IF left > n THEN "PARTIAL" ELSE "OK"]
      BY <1>3, Zenon DEF OD_writeOriginal
    <3> HIDE DEF w, e
    <3> QED
      BY ONLY <3>1, <3>2
  <2>2. new \in Data /\ Len(new) = Len(obj)
    <3>1. s.pos <= Len(obj) /\ s.pos + n \in Nat /\ s.pos + n <= Len(obj)
      BY <1>1, <1>3
    <3>2. Front_(obj, s.pos) \in Data /\ Len(Front_(obj, s.pos)) = s.pos
      BY ONLY <1>1, <3>1, FrontIs
    <3>3. Rest(obj, s.pos + n) \in Data /\ Len(Rest(obj, s.pos + n)) = Len(obj) - (s.pos + n)
      BY ONLY <1>1, <3>1, RestIs
    <3>4. Front_(obj, s.pos) \o d \in Data /\ Len(Front_(obj, s.pos) \o d) = s.pos + n
      BY <3>2, CatIs
    <3> HIDE DEF obj, n
    <3> QED
      BY <1>1, <3>1, <3>3, <3>4, CatIs
  <2> HIDE DEF new
  <2>3. /\ f \in [Obj -> Data] /\ f[s.idx] = new
        /\ \A o \in Obj : o # s.idx => f[o] = s.od[o]
    BY ONLY <1>1, <2>2, s.idx \in Obj
  <2>4. p \in Nat
    BY ONLY <1>1
  <2> HIDE DEF f, p
  <2>5. /\ e.idx = s.idx /\ e.len = s.len /\ e.crc = s.crc /\ e.out = s.out /\ e.t = s.t
        /\ e.od = f /\ e.pos = p
    BY ONLY s \in SrvRecord DEF SrvRecord
  <2> HIDE DEF e
  <2>6. Sizes(s) => Sizes(e)
    BY ONLY <2>2, <2>3, <2>5, s.idx \in Obj DEF Sizes
  <2> HIDE DEF w
  <2>7. CASE left > n
    <3>1. s.pos + n < s.len /\ p = s.pos + n /\ w.ret = "PARTIAL"
      BY ONLY <1>1, <2>1, <2>7 DEF p
    <3> QED
      BY ONLY <2>1, <2>2, <2>3, <2>5, <2>6, <3>1 DEF w, new
  <2>8. CASE ~(left > n)
    <3>1. s.pos + n = s.len /\ p = 0 /\ w.ret = "OK"
      BY ONLY <1>1, <1>3, <2>1, <2>8 DEF p
    <3> QED
      BY ONLY <2>1, <2>2, <2>3, <2>5, <2>6, <3>1 DEF w, new
  <2> QED
    BY <2>7, <2>8
<1> QED
  BY <1>2, <1>3

\* The value v of the object o is d, but for the zeros that end a text and what
\* is behind them.
Ends(o, v, d) == \E e \in Data : v = d \o e /\ (e # <<>> => o \in Str /\ e[1] = 0)

LEMMA TextEnds ==
  ASSUME NEW o, NEW v, NEW d \in Data, Ends(o, v, d), Plain(o, d)
  PROVE  Text(o, v) = d
BY TextOf DEF Ends

LEMMA TerminatorZero ==
  ASSUME NEW s
  PROVE  Terminator(s) # <<>> => s.idx \in Str /\ s.fin = 1 /\ Terminator(s)[1] = 0
BY DEF Terminator

\* What is in front of a write stays, and what is written follows it.
LEMMA NewFront ==
  ASSUME NEW a \in Data, NEW b \in Data, NEW c \in Data
  PROVE  Front_((a \o b) \o c, Len(a) + Len(b)) = a \o b
<1>1. a \o b \in Data /\ Len(a \o b) = Len(a) + Len(b)
  BY CatIs
<1> DEFINE d == a \o b
<1>2. Front_(d \o c, Len(d)) = d
  BY ONLY <1>1, CatParts, c \in Data
<1> QED
  BY ONLY <1>1, <1>2

\* A last write leaves what is written up to a text's end; another one leaves
\* as far as it goes what was there and what is written.
Validated(r, s, sum, crcClient) ==
  /\ r.idx = s.idx /\ r.out = s.out /\ r.t = s.t
  /\ Sizes(s) => Sizes(r)
  /\ \/ r.st = "ABORT"
     \/ /\ s.fin = 1 /\ (sum = 2 => s.crc \o s.buf = crcClient)
        /\ s.len = Len(s.od[s.idx]) =>
             Ends(s.idx, r.od[s.idx], Front_(s.od[s.idx], s.pos) \o s.buf)
     \/ /\ s.fin = 0 /\ r.len = s.len /\ Len(r.od[s.idx]) = Len(s.od[s.idx])
        /\ r.crc = IF sum > 0 THEN s.crc \o s.buf ELSE s.crc
        /\ Front_(r.od[s.idx], r.pos) = Front_(s.od[s.idx], s.pos) \o s.buf

LEMMA ValidateDoes ==
  ASSUME NEW s, SrvBase(s), AtPlace(s), s.rd = 0, NEW sum \in 0..2, NEW crcClient
  PROVE  Validated(validateAndWriteToOD(s, sum, crcClient), s, sum, crcClient)
<1> DEFINE o == s.idx
           obj == s.od[o]
           z == Terminator(s)
           len == IF z = <<>> THEN s.len ELSE s.tran + Len(z)
           crc == IF sum > 0 THEN s.crc \o s.buf ELSE s.crc
           sized == [s EXCEPT !.len = len, !.crc = crc]
           d == s.buf \o z
           w == OD_writeOriginal(sized, d)
           written == [w.e EXCEPT !.buf = <<>>]
           r == validateAndWriteToOD(s, sum, crcClient)
           new == Front_(obj, s.pos) \o d \o Rest(obj, s.pos + Len(d))
<1>1. /\ s \in SrvRecord /\ s.len \in Nat /\ s.tran \in Nat /\ s.buf \in Data /\ s.crc \in Data
      /\ s.fin \in Bit /\ s.pos \in Nat /\ Len(s.buf) \in Nat
  BY LenIs DEF SrvBase, SrvRecord
<1>2. /\ z \in Data /\ Len(z) \in Nat /\ (z # <<>> => s.tran + Len(z) <= s.len)
      /\ z # <<>> => o \in Str /\ s.fin = 1 /\ z[1] = 0
  BY <1>1, TerminatorIs, TerminatorZero, LenIs
<1>3. /\ o \in Obj /\ obj \in Data /\ Len(obj) \in Nat /\ s.len <= Len(obj) /\ s.pos <= s.len
  BY <1>1, LenIs DEF AtPlace, SrvRecord
<1>4. len \in Nat /\ len <= s.len /\ crc \in Data /\ d \in Data /\ Len(d) = Len(s.buf) + Len(z)
  BY <1>1, <1>2, CatIs
<1>5. r = IF SizeWrong(s) \/ CrcWrong(s, sum, crcClient) THEN Stop(s)
          ELSE IF w.ret = "LONG" \/ (s.fin = 1) # (w.ret = "OK") THEN Stop(written) ELSE written
  <2>1. sized = [s EXCEPT !.len = IF z = <<>> THEN @ ELSE s.tran + Len(z),
                          !.crc = IF sum > 0 THEN @ \o s.buf ELSE @]
    BY ONLY <1>1 DEF SrvRecord
  <2> HIDE DEF sized
  <2> QED
    BY <2>1, Zenon DEF validateAndWriteToOD
<1> HIDE DEF z, len, crc, d
<1>6. sized \in SrvRecord
  BY ONLY <1>1, <1>4 DEF SrvRecord
<1>7. /\ sized.len = len /\ sized.crc = crc /\ sized.od = s.od /\ sized.idx = o /\ sized.pos = s.pos
      /\ sized.out = s.out /\ sized.t = s.t
  BY ONLY <1>1 DEF SrvRecord
<1> HIDE DEF sized
<1>8. sized.idx \in Obj /\ sized.len <= Len(sized.od[sized.idx])
  BY ONLY <1>3, <1>4, <1>7, <1>1
<1>9. Sizes(s) => Sizes(sized)
  BY ONLY <1>7 DEF Sizes
<1>10. w.e \in SrvRecord
  BY ONLY <1>4, <1>6, <1>8, WriteIs
<1>11. /\ w.e.idx = o /\ w.e.len = len /\ w.e.crc = crc /\ w.e.out = s.out /\ w.e.t = s.t
       /\ Sizes(sized) => Sizes(w.e)
       /\ \/ w.ret = "LONG" /\ w.e = sized
          \/ /\ w.ret = "OK" /\ s.pos + Len(d) = len /\ w.e.pos = 0
             /\ w.e.od[o] = new
          \/ /\ w.ret = "PARTIAL" /\ s.pos + Len(d) < len /\ w.e.pos = s.pos + Len(d)
             /\ w.e.od[o] = new /\ Len(new) = Len(obj)
  <2> DEFINE snew == Front_(sized.od[sized.idx], sized.pos) \o d
                       \o Rest(sized.od[sized.idx], sized.pos + Len(d))
  <2>1. snew = new /\ sized.od[sized.idx] = obj
    BY ONLY <1>7
  <2>2. /\ w.e.idx = sized.idx /\ w.e.len = sized.len /\ w.e.crc = sized.crc /\ w.e.out = sized.out
        /\ w.e.t = sized.t
        /\ Sizes(sized) => Sizes(w.e)
        /\ \/ w.ret = "LONG" /\ w.e = sized
           \/ /\ w.ret = "OK" /\ sized.pos + Len(d) = sized.len /\ w.e.pos = 0
              /\ w.e.od[sized.idx] = snew
           \/ /\ w.ret = "PARTIAL" /\ sized.pos + Len(d) < sized.len /\ w.e.pos = sized.pos + Len(d)
              /\ w.e.od[sized.idx] = snew /\ Len(snew) = Len(sized.od[sized.idx])
    BY ONLY <1>4, <1>6, <1>8, WriteDoes
  <2> HIDE DEF snew, w, new
  <2> QED
    BY ONLY <1>7, <2>1, <2>2
<1> HIDE DEF w, new
<1>12. /\ written.od = w.e.od /\ written.idx = w.e.idx /\ written.pos = w.e.pos
       /\ written.len = w.e.len /\ written.crc = w.e.crc /\ written.out = w.e.out
       /\ written.t = w.e.t
  BY ONLY <1>10 DEF SrvRecord
<1>13. written \in SrvRecord
  <2>1. <<>> \in Data
    BY DEF Data
  <2> QED
    BY ONLY <1>10, <2>1 DEF SrvRecord
<1> HIDE DEF written
<1>14. Sizes(s) => Sizes(written)
  BY ONLY <1>9, <1>11, <1>12 DEF Sizes
<1> HIDE DEF r
<1>15. CASE r = Stop(s)
  <2>1. Stop(s).st = "ABORT" /\ Stop(s).idx = s.idx /\ Stop(s).od = s.od /\ Stop(s).t = s.t
        /\ Stop(s).out = s.out
    BY <1>1 DEF SrvRecord, Stop
  <2> QED
    BY ONLY <1>15, <2>1 DEF Sizes, r, Validated
<1>16. CASE r = Stop(written)
  <2>1. Stop(written).st = "ABORT" /\ Stop(written).idx = written.idx /\ Stop(written).od = written.od
        /\ Stop(written).t = written.t /\ Stop(written).out = written.out
    BY <1>13 DEF SrvRecord, Stop
  <2> QED
    BY ONLY <1>11, <1>12, <1>14, <1>16, <2>1 DEF Sizes, r, Validated
<1>17. CASE /\ r = written /\ ~SizeWrong(s) /\ ~CrcWrong(s, sum, crcClient)
            /\ w.ret # "LONG" /\ (s.fin = 1) = (w.ret = "OK")
  <2>1. Front_(obj, s.pos) \in Data /\ Len(Front_(obj, s.pos)) = s.pos
    <3>1. s.pos <= Len(obj)
      BY ONLY <1>1, <1>3
    <3> QED
      BY ONLY <1>1, <1>3, <3>1, FrontIs
  <2> DEFINE front == Front_(obj, s.pos)
  <2> HIDE DEF front
  <2>2. s.pos + Len(d) \in Nat /\ s.pos + Len(d) <= Len(obj)
    <3>1. s.pos + Len(d) <= len
      BY ONLY <1>1, <1>4, <1>11, <1>17
    <3>2. Len(d) \in Nat
      BY ONLY <1>4, LenIs
    <3> QED
      BY ONLY <1>1, <1>3, <1>4, <3>1, <3>2, SMTT(30)
  <2> DEFINE rest == Rest(obj, s.pos + Len(d))
  <2>3. rest \in Data /\ Len(rest) = Len(obj) - (s.pos + Len(d))
    BY ONLY <1>3, <2>2, RestIs
  <2>4. new = (front \o d) \o rest
    BY ONLY Zenon DEF new, rest, front
  <2>5. CASE s.fin = 1
    <3>1. w.ret = "OK" /\ s.pos + Len(d) = len
      BY ONLY <1>11, <1>17, <2>5
    <3>2. sum = 2 => s.crc \o s.buf = crcClient
      BY ONLY <1>17 DEF CrcWrong
    <3>3. new = (front \o s.buf) \o (z \o rest)
      <4>1. front \in Data
        BY ONLY <2>1 DEF front
      <4>2. front \o d = (front \o s.buf) \o z
        BY ONLY <1>1, <1>2, <4>1, CatAssoc DEF d
      <4>3. front \o s.buf \in Data
        BY ONLY <1>1, <4>1, CatIs
      <4> DEFINE fb == front \o s.buf
      <4>4. (fb \o z) \o rest = fb \o (z \o rest)
        <5> HIDE DEF fb, rest
        <5>1. fb \in Data
          BY ONLY <4>3 DEF fb
        <5> QED
          BY ONLY <1>2, <2>3, <5>1, CatAssoc
      <4> HIDE DEF rest
      <4> QED
        BY ONLY <2>4, <4>2, <4>4
    <3>4. z \o rest \in Data
      BY ONLY <1>2, <2>3, CatIs
    <3>5. s.len = Len(obj) => (z \o rest # <<>> => o \in Str /\ (z \o rest)[1] = 0)
      <4>1. CASE z = <<>>
        <5>1. s.len = Len(obj) => Len(rest) = 0
          BY ONLY <1>1, <1>3, <1>4, <2>3, <3>1, <4>1 DEF len
        <5>2. Len(rest) = 0 => rest = <<>>
          BY ONLY <2>3, EmptySeq DEF Data
        <5>3. z \o rest = rest
          BY ONLY <2>3, <4>1, CatNone
        <5> QED
          BY ONLY <5>1, <5>2, <5>3
      <4>2. CASE z # <<>>
        <5>1. Len(z) > 0
          BY ONLY <1>2, <4>2, EmptySeq DEF Data
        <5>2. Len(rest) \in Nat
          BY ONLY <2>3, LenIs
        <5>3. 1 \in 1..(Len(z) + Len(rest)) /\ 1 <= Len(z)
          BY ONLY <1>2, <5>1, <5>2
        <5>4. (z \o rest)[1] = z[1]
          BY ONLY <1>2, <2>3, <5>3, CatAt
        <5> QED
          BY ONLY <1>2, <4>2, <5>4
      <4> QED
        BY ONLY <4>1, <4>2
    <3>6. r.od[o] = (front \o s.buf) \o (z \o rest)
      BY ONLY <1>11, <1>12, <1>17, <3>1, <3>3
    <3>7. r.idx = o /\ r.out = s.out /\ r.t = s.t /\ (Sizes(s) => Sizes(r))
      BY ONLY <1>11, <1>12, <1>14, <1>17
    <3> HIDE DEF rest
    <3> QED
      BY ONLY <2>5, <3>2, <3>4, <3>5, <3>6, <3>7 DEF r, front, Ends, Validated
  <2>6. CASE s.fin # 1
    <3>0. s.fin = 0
      BY ONLY <1>1, <2>6 DEF Bit
    <3>1. w.ret = "PARTIAL" /\ w.e.pos = s.pos + Len(d) /\ Len(new) = Len(obj)
      BY ONLY <1>11, <1>17, <2>6
    <3>2. z = <<>>
      BY ONLY <1>2, <2>6
    <3>3. d = s.buf
      BY ONLY <1>1, <3>2, CatNone DEF d
    <3>4. Front_(new, s.pos + Len(d)) = front \o s.buf
      <4>1. front \in Data /\ Len(front) = s.pos
        BY ONLY <2>1 DEF front
      <4> HIDE DEF rest
      <4> QED
        BY ONLY <1>1, <2>3, <2>4, <3>3, <4>1, NewFront
    <3>5. r.od[o] = new /\ r.pos = s.pos + Len(d)
      BY ONLY <1>11, <1>12, <1>17, <3>1
    <3>6. r.idx = o /\ r.out = s.out /\ r.t = s.t /\ (Sizes(s) => Sizes(r))
          /\ r.crc = crc /\ r.len = len
      BY ONLY <1>11, <1>12, <1>14, <1>17
    <3>7. len = s.len
      BY ONLY <3>2 DEF len
    <3> QED
      BY ONLY <3>0, <3>1, <3>4, <3>5, <3>6, <3>7 DEF r, front, crc, Validated
  <2> QED
    BY ONLY <2>5, <2>6
<1> QED
  BY ONLY <1>5, <1>15, <1>16, <1>17

\* An expedited download is written at once.
Expedite(s) == IF s.rx.ind > 0 THEN s.rx.ind ELSE Low(s.len, Exped)

Initiated(r, s) ==
  /\ r.idx = s.idx /\ r.out = s.out
  /\ Sizes(s) => Sizes(r)
  /\ \/ r.st = "ABORT"
     \/ /\ s.rx.exp = 1 /\ r.st = "DOWNLOAD_INITIATE_RSP" /\ r.fin = 1
        /\ Expedite(s) \in Nat /\ Expedite(s) <= Exped
        /\ Ends(s.idx, r.od[s.idx], Front_(s.rx.data, Expedite(s)))
     \/ /\ s.rx.exp # 1 /\ r.st = "DOWNLOAD_INITIATE_RSP" /\ r.fin = 0
        /\ r.od = s.od /\ r.pos = s.pos /\ r.len = s.len

LEMMA InitiateDownloadDoes ==
  ASSUME NEW s, SrvBase(s), AtPlace(s), s.rx \in Frames, s.rx.c = "download",
         s.pos = 0, s.len = Len(s.od[s.idx])
  PROVE  Initiated(InitiateDownload(s), s)
<1> DEFINE o == s.idx
           obj == s.od[o]
           n == IF s.rx.ind > 0 THEN s.rx.ind ELSE Low(s.len, Exped)
           short == s.idx \in Str /\ n < s.len
           z == IF ~short THEN <<>> ELSE IF s.len - n = 1 THEN <<0>> ELSE <<0, 0>>
           len == IF short THEN n + Len(z) ELSE s.len
           sized == [s EXCEPT !.len = len]
           d == Front_(s.rx.data, n) \o z
           w == OD_writeOriginal(sized, d)
           done == [w.e EXCEPT !.st = "DOWNLOAD_INITIATE_RSP", !.fin = 1]
           begun1 == [s EXCEPT !.st = "DOWNLOAD_INITIATE_RSP", !.fin = 0, !.ind = s.rx.ind]
           bad == (~short /\ n # s.len) \/ w.ret # "OK"
           r == InitiateDownload(s)
<1>1. /\ s \in SrvRecord /\ s.len \in Nat /\ o \in Obj /\ s.pos = 0
      /\ obj \in Data /\ Len(obj) \in Nat /\ s.len = Len(obj) /\ s.rx.ind \in Nat
  BY LenIs, FrameIs DEF SrvBase, SrvRecord, AtPlace
<1>2. r = IF s.rx.exp = 1 THEN IF bad THEN Stop(s) ELSE done
          ELSE IF ~Fits(s) THEN Stop(s) ELSE begun1
  <2>1. sized = [s EXCEPT !.len = IF short THEN n + Len(z) ELSE @]
    BY ONLY <1>1 DEF SrvRecord
  <2> HIDE DEF sized
  <2> QED
    BY ONLY <2>1 DEF InitiateDownload
<1> HIDE DEF r, bad
<1>3. CASE r = Stop(s)
  <2>1. Stop(s).st = "ABORT" /\ Stop(s).idx = s.idx /\ Stop(s).od = s.od /\ Stop(s).out = s.out
    BY <1>1 DEF SrvRecord, Stop
  <2> QED
    BY ONLY <1>3, <2>1 DEF Sizes, r, Initiated
<1>4. CASE s.rx.exp # 1 /\ r = begun1
  <2>1. /\ begun1.st = "DOWNLOAD_INITIATE_RSP" /\ begun1.fin = 0 /\ begun1.idx = s.idx
        /\ begun1.od = s.od /\ begun1.out = s.out /\ begun1.pos = s.pos /\ begun1.len = s.len
    BY ONLY <1>1 DEF SrvRecord
  <2> HIDE DEF begun1
  <2> QED
    BY ONLY <1>4, <2>1 DEF Sizes, r, Initiated
<1>5. CASE s.rx.exp = 1 /\ ~bad /\ r = done
  <2>1. /\ s.rx.data \in Data /\ Len(s.rx.data) = Exped /\ s.rx.ind <= Exped /\ Exped \in Nat
    BY <1>5, FrameIs, SdoAssumption DEF FrameOK
  <2>2. n \in Nat /\ n <= Exped
    BY ONLY <1>1, <2>1, LowIs
  <2> HIDE DEF n
  <2>3. z \in Data /\ Len(z) \in Nat /\ len \in Nat /\ len <= s.len
        /\ (z # <<>> => short /\ z[1] = 0) /\ (z = <<>> => len = s.len)
    <3>1. <<0, 0>> \in Data /\ <<0>> \in Data /\ <<>> \in Data
          /\ Len(<<0, 0>>) = 2 /\ Len(<<0>>) = 1 /\ Len(<<>>) = 0
          /\ <<0, 0>>[1] = 0 /\ <<0>>[1] = 0 /\ <<0>> # <<>> /\ <<0, 0>> # <<>>
      BY DEF Data
    <3> QED
      BY ONLY <1>1, <2>2, <3>1
  <2>4. /\ Front_(s.rx.data, n) \in Data /\ Len(Front_(s.rx.data, n)) = n
        /\ d \in Data /\ Len(d) = n + Len(z)
    BY ONLY <2>1, <2>2, <2>3, FrontIs, CatIs
  <2>5. short => o \in Str
    BY DEF short
  <2> HIDE DEF z, len, short
  <2>6. sized \in SrvRecord
    BY ONLY <1>1, <2>3 DEF SrvRecord
  <2>7. sized.idx = o /\ sized.len = len /\ sized.od = s.od /\ sized.pos = 0 /\ sized.out = s.out
    BY ONLY <1>1 DEF SrvRecord
  <2> HIDE DEF sized, d
  <2>8. sized.idx \in Obj /\ sized.len <= Len(sized.od[sized.idx]) /\ (Sizes(s) => Sizes(sized))
    BY ONLY <1>1, <2>3, <2>7 DEF Sizes
  <2>9. w.ret = "OK"
    BY ONLY <1>5 DEF bad
  <2> DEFINE rest == Rest(obj, 0 + Len(d))
             new == Front_(obj, 0) \o d \o rest
  <2>10. /\ w.e.idx = o /\ w.e.out = s.out /\ w.e \in SrvRecord /\ (Sizes(s) => Sizes(w.e))
         /\ 0 + Len(d) = len /\ w.e.od[o] = new
    <3> DEFINE snew == Front_(sized.od[sized.idx], sized.pos) \o d
                         \o Rest(sized.od[sized.idx], sized.pos + Len(d))
    <3>1. snew = new
      BY ONLY <2>7
    <3>2. /\ w.e.idx = sized.idx /\ w.e.out = sized.out /\ w.e \in SrvRecord
          /\ (Sizes(sized) => Sizes(w.e))
          /\ sized.pos + Len(d) = sized.len /\ w.e.od[sized.idx] = snew
      <4> HIDE DEF w
      <4>1. w.ret # "LONG" /\ w.ret # "PARTIAL"
        BY ONLY <2>9
      <4> QED
        BY ONLY <2>4, <2>6, <2>8, <4>1, WriteDoes, WriteIs DEF w
    <3> HIDE DEF snew, new, w
    <3> QED
      BY ONLY <2>7, <2>8, <3>1, <3>2
  <2> HIDE DEF w
  <2>11. /\ done.st = "DOWNLOAD_INITIATE_RSP" /\ done.fin = 1 /\ done.idx = w.e.idx
         /\ done.od = w.e.od /\ done.out = w.e.out
    BY ONLY <2>10 DEF SrvRecord
  <2> HIDE DEF done
  <2>12. Len(d) \in Nat /\ 0 + Len(d) = Len(d) /\ Len(d) <= Len(obj)
    BY ONLY <1>1, <2>2, <2>3, <2>4, <2>10
  <2>13. rest \in Data /\ Len(rest) = Len(obj) - Len(d)
    BY ONLY <1>1, <2>12, RestIs
  <2>14. Front_(obj, 0) = <<>>
    BY ONLY <1>1, WholeIs
  <2>15. new = d \o rest
    BY ONLY <2>4, <2>14, CatNone
  <2>16. new = Front_(s.rx.data, n) \o (z \o rest)
    <3> HIDE DEF new, rest
    <3> QED
      BY ONLY <2>3, <2>4, <2>13, <2>15, CatAssoc, ZenonT(40) DEF d
  <2> HIDE DEF new
  <2>17. z \o rest \in Data /\ (z \o rest # <<>> => o \in Str /\ (z \o rest)[1] = 0)
    <3> HIDE DEF rest
    <3>1. CASE z = <<>>
      <4>1. Len(rest) = 0
        BY ONLY <1>1, <2>3, <2>10, <2>12, <2>13, <3>1
      <4>2. rest = <<>>
        BY ONLY <2>13, <4>1, EmptySeq DEF Data
      <4> QED
        BY ONLY <2>13, <3>1, <4>2, CatNone
    <3>2. CASE z # <<>>
      <4>1. Len(z) > 0
        BY ONLY <2>3, <3>2, EmptySeq DEF Data
      <4>2. Len(rest) \in Nat
        BY ONLY <2>13, LenIs
      <4>3. 1 \in 1..(Len(z) + Len(rest)) /\ 1 <= Len(z)
        BY ONLY <2>3, <4>1, <4>2
      <4>4. (z \o rest)[1] = z[1] /\ z \o rest \in Data
        BY ONLY <2>3, <2>13, <4>3, CatAt
      <4> QED
        BY ONLY <2>3, <2>5, <3>2, <4>4
    <3> QED
      BY ONLY <3>1, <3>2
  <2>18. Ends(o, done.od[o], Front_(s.rx.data, n))
    <3> HIDE DEF rest
    <3> QED
      BY ONLY <2>10, <2>11, <2>16, <2>17 DEF Ends
  <2>19. Sizes(s) => Sizes(done)
    BY ONLY <2>10, <2>11 DEF Sizes
  <2> QED
    BY ONLY <1>5, <2>2, <2>10, <2>11, <2>18, <2>19 DEF r, n, Initiated, Expedite
<1> QED
  BY ONLY <1>2, <1>3, <1>4, <1>5

\* A segment is written at once when it is the last one or the buffer is full.
Stored(r, s) ==
  /\ r.idx = s.idx /\ r.out = s.out /\ r.t = s.t
  /\ Sizes(s) => Sizes(r)
  /\ \/ r.st = "ABORT"
     \/ /\ ToggleOk(s) /\ r.st = "DOWNLOAD_SEGMENT_RSP" /\ r.fin = s.rx.last
        /\ s.len = Len(s.od[s.idx]) /\ r.fin = 1 =>
             Ends(s.idx, r.od[s.idx], Front_(s.od[s.idx], s.pos) \o (s.buf \o s.rx.data))
        /\ s.len = Len(s.od[s.idx]) /\ r.fin = 0 =>
             /\ r.len = Len(r.od[s.idx])
             /\ Front_(r.od[s.idx], r.pos) \o r.buf =
                   Front_(s.od[s.idx], s.pos) \o (s.buf \o s.rx.data)

LEMMA DownloadSegmentDoes ==
  ASSUME NEW s, SrvOK(s), s.rx \in Frames, s.st = "DOWNLOAD_SEGMENT_REQ"
  PROVE  Stored(DownloadSegment(s), s)
<1> DEFINE a == [s EXCEPT !.fin = s.rx.last, !.buf = @ \o s.rx.data, !.tran = @ + Len(s.rx.data)]
           v == validateAndWriteToOD(a, 0, <<>>)
           writes == a.fin = 1 \/ Buf - Len(a.buf) < Seg + 2
           w == IF writes THEN v ELSE a
           done == [w EXCEPT !.st = "DOWNLOAD_SEGMENT_RSP"]
           o == s.idx
           obj == s.od[o]
           r == DownloadSegment(s)
<1>1. r = IF ~ToggleOk(s) THEN Stop(s)
          ELSE IF a.tran > a.len THEN Stop(a)
          ELSE IF w.st = "ABORT" THEN w ELSE done
  BY Zenon DEF DownloadSegment
<1> HIDE DEF r
<1>2. /\ SrvBase(s) /\ s \in SrvRecord /\ AtPlace(s) /\ s.rd = 0 /\ Len(s.buf) + Seg + 2 <= Buf
      /\ s.buf \in Data /\ Len(s.buf) \in Nat /\ s.tran \in Nat /\ s.nod <= Seg
      /\ o \in Obj /\ obj \in Data /\ s.pos \in Nat /\ s.pos <= Len(obj)
      /\ s.idx = o
  <2>1. SrvBase(s) /\ s \in SrvRecord /\ AtPlace(s) /\ s.rd = 0 /\ Len(s.buf) + Seg + 2 <= Buf
    BY DEF SrvOK, SrvBase, SrvAt, DownStart, DownSegment, DownBlock
  <2>2. s.buf \in Data /\ s.tran \in Nat /\ s.nod <= Seg /\ s.pos \in Nat /\ s.len \in Nat
        /\ s.idx \in Obj /\ s.od \in [Obj -> Data] /\ s.pos <= s.len /\ s.len <= Len(s.od[s.idx])
    BY ONLY <2>1 DEF SrvBase, SrvRecord, AtPlace
  <2>3. Len(s.buf) \in Nat /\ s.od[s.idx] \in Data /\ Len(s.od[s.idx]) \in Nat
    BY ONLY <2>2, LenIs
  <2> QED
    BY ONLY <2>1, <2>2, <2>3
<1>3. CASE ToggleOk(s)
  <2>1. /\ s.rx.data \in Data /\ Len(s.rx.data) \in Nat /\ Len(s.rx.data) <= Seg
        /\ s.rx.last \in Bit
    BY <1>3, FrameIs DEF FrameOK, ToggleOk
  <2>2. s.buf \o s.rx.data \in Data /\ Len(s.buf \o s.rx.data) = Len(s.buf) + Len(s.rx.data)
    BY ONLY <1>2, <2>1, CatIs
  <2>3. Len(s.buf) + Len(s.rx.data) <= Buf /\ s.tran + Len(s.rx.data) \in Nat
    <3>1. s.tran + Len(s.rx.data) \in Nat
      BY ONLY <1>2, <2>1
    <3> QED
      BY ONLY <1>2, <2>1, <3>1, SegmentFits
  <2>4. a \in SrvRecord
    BY ONLY <1>2, <2>1, <2>2, <2>3 DEF SrvRecord
  <2>5. /\ a.st = s.st /\ a.idx = o /\ a.out = s.out /\ a.t = s.t /\ a.od = s.od /\ a.rx = s.rx
        /\ a.pos = s.pos /\ a.len = s.len /\ a.fin = s.rx.last /\ a.buf = s.buf \o s.rx.data
        /\ a.rd = s.rd /\ a.nod = s.nod
    BY ONLY <1>2 DEF SrvRecord
  <2> HIDE DEF a
  <2>6. SrvBase(a) /\ AtPlace(a) /\ a.rd = 0 /\ (Sizes(s) => Sizes(a))
    <3>1. a.rd = 0 /\ Len(a.buf) = Len(s.buf) + Len(s.rx.data) /\ Len(a.buf) <= Buf
      BY ONLY <1>2, <2>2, <2>3, <2>5
    <3>2. a.rd <= Len(a.buf)
      <4>1. Len(s.buf) \in Nat /\ Len(s.rx.data) \in Nat
        BY ONLY <1>2, <2>1
      <4> DEFINE bl == Len(s.buf)
                 dl == Len(s.rx.data)
      <4> HIDE DEF bl, dl
      <4>2. bl \in Nat /\ dl \in Nat /\ a.rd = 0 /\ Len(a.buf) = bl + dl
        BY ONLY <3>1, <4>1 DEF bl, dl
      <4> QED
        BY ONLY <4>2
    <3>3. SrvBase(a)
      BY ONLY <1>2, <2>4, <2>5, <3>1, <3>2 DEF SrvBase
    <3>4. AtPlace(a)
      BY ONLY <1>2, <2>5 DEF AtPlace
    <3> QED
      BY ONLY <2>5, <3>1, <3>3, <3>4 DEF Sizes
  <2>7. CASE r = Stop(a)
    <3>1. Stop(a).st = "ABORT" /\ Stop(a).idx = a.idx /\ Stop(a).od = a.od /\ Stop(a).out = a.out
          /\ Stop(a).t = a.t
      BY ONLY <2>4 DEF SrvRecord, Stop
    <3> QED
      BY ONLY <2>5, <2>7, <3>1 DEF Sizes, r, Stored
  <2>8. /\ v.idx = o /\ v.out = s.out /\ v.t = s.t /\ (Sizes(s) => Sizes(v))
        /\ \/ v.st = "ABORT"
           \/ /\ a.fin = 1
              /\ a.len = Len(obj) => Ends(o, v.od[o], Front_(obj, s.pos) \o a.buf)
           \/ /\ a.fin = 0 /\ v.len = s.len /\ Len(v.od[o]) = Len(obj)
              /\ Front_(v.od[o], v.pos) = Front_(obj, s.pos) \o a.buf
    <3>1. /\ v.idx = a.idx /\ v.out = a.out /\ v.t = a.t /\ (Sizes(a) => Sizes(v))
          /\ \/ v.st = "ABORT"
             \/ /\ a.fin = 1
                /\ a.len = Len(a.od[a.idx]) =>
                     Ends(a.idx, v.od[a.idx], Front_(a.od[a.idx], a.pos) \o a.buf)
             \/ /\ a.fin = 0 /\ v.len = a.len /\ Len(v.od[a.idx]) = Len(a.od[a.idx])
                /\ Front_(v.od[a.idx], v.pos) = Front_(a.od[a.idx], a.pos) \o a.buf
      <4>1. SrvBase(a) /\ AtPlace(a) /\ a.rd = 0 /\ 0 \in 0..2
        BY ONLY <2>6
      <4>2. Validated(v, a, 0, <<>>)
        BY ONLY <4>1, ValidateDoes
      <4> HIDE DEF v
      <4> QED
        BY ONLY <4>2, Zenon DEF Validated
    <3> HIDE DEF v
    <3>2. a.od[a.idx] = obj /\ a.idx = o /\ a.pos = s.pos /\ a.len = s.len /\ a.out = s.out /\ a.t = s.t
      BY ONLY <2>5
    <3> QED
      BY ONLY <2>6, <3>1, <3>2
  <2>9. /\ SrvBase(v)
        /\ \/ v.st = "ABORT"
           \/ v.buf = <<>> /\ v.st = a.st /\ v.fin = a.fin /\ AtPlace(v)
    <3> HIDE DEF v
    <3> QED
      BY ONLY <2>6, 0 \in 0..2, ValidateIs DEF v
  <2> HIDE DEF v
  <2>10. SrvBase(w) /\ w \in SrvRecord
    BY ONLY <2>6, <2>9 DEF SrvBase
  <2>11. /\ w.idx = o /\ w.out = s.out /\ w.t = s.t /\ (Sizes(s) => Sizes(w))
         /\ \/ w.st = "ABORT"
            \/ /\ w.fin = s.rx.last
               /\ s.len = Len(obj) /\ w.fin = 1 => Ends(o, w.od[o], Front_(obj, s.pos) \o a.buf)
               /\ s.len = Len(obj) /\ w.fin = 0 =>
                    /\ w.len = Len(w.od[o])
                    /\ Front_(w.od[o], w.pos) \o w.buf = Front_(obj, s.pos) \o a.buf
    <3>1. CASE writes
      <4>1. w = v
        BY ONLY <3>1
      <4>2. v.st # "ABORT" /\ v.fin = 0 => Front_(v.od[o], v.pos) \o <<>> = Front_(v.od[o], v.pos)
        <5> SUFFICES ASSUME v.st # "ABORT", v.fin = 0
                     PROVE  Front_(v.od[o], v.pos) \o <<>> = Front_(v.od[o], v.pos)
          OBVIOUS
        <5>1. v.pos \in Nat /\ v.od[o] \in Data /\ Len(v.od[o]) \in Nat /\ v.pos <= Len(v.od[o])
          <6>1. v \in SrvRecord /\ v.idx \in Obj /\ v.pos <= v.len /\ v.len <= Len(v.od[v.idx]) /\ v.idx = o
            BY ONLY <2>8, <2>9, v.st # "ABORT" DEF AtPlace, SrvBase
          <6>2. v.pos \in Nat /\ v.len \in Nat /\ v.od[o] \in Data
            BY ONLY <6>1 DEF SrvRecord
          <6> QED
            BY ONLY <6>1, <6>2, LenIs
        <5> QED
          BY ONLY <5>1, FrontIs, CatNone
      <4>3. w.st # "ABORT" => w.fin = s.rx.last /\ w.buf = <<>>
        BY ONLY <2>5, <2>9, <4>1
      <4>4. a.len = s.len
        BY ONLY <2>5
      <4>5. /\ w.idx = o /\ w.out = s.out /\ w.t = s.t /\ (Sizes(s) => Sizes(w))
            /\ \/ w.st = "ABORT"
               \/ /\ a.fin = 1
                  /\ s.len = Len(obj) => Ends(o, w.od[o], Front_(obj, s.pos) \o a.buf)
               \/ /\ a.fin = 0 /\ w.len = s.len /\ Len(w.od[o]) = Len(obj)
                  /\ Front_(w.od[o], w.pos) = Front_(obj, s.pos) \o a.buf
        BY ONLY <2>8, <4>1, <4>4
      <4>6. w.st # "ABORT" /\ w.fin = 0 => Front_(w.od[o], w.pos) \o w.buf = Front_(w.od[o], w.pos)
        BY ONLY <4>1, <4>2, <4>3
      <4>7. a.fin = s.rx.last
        BY ONLY <2>5
      <4> HIDE DEF w
      <4>8. CASE w.st = "ABORT"
        BY ONLY <4>5, <4>8
      <4>9. CASE w.st # "ABORT"
        <5>1. w.fin = s.rx.last /\ s.rx.last = a.fin
          BY ONLY <4>3, <4>7, <4>9
        <5>2. CASE a.fin = 1
          BY ONLY <4>5, <4>7, <4>9, <5>1, <5>2
        <5>3. CASE a.fin = 0
          <6> DEFINE A == Front_(w.od[o], w.pos) \o w.buf
                     B == Front_(obj, s.pos) \o a.buf
                     C == Front_(w.od[o], w.pos)
          <6>1. w.len = s.len /\ Len(w.od[o]) = Len(obj) /\ C = B
            <7>1. a.fin # 1
              BY ONLY <5>3
            <7> QED
              BY ONLY <4>5, <4>9, <7>1, Zenon
          <6>2. w.fin = 0 /\ A = C
            BY ONLY <4>6, <4>9, <5>1, <5>3
          <6>3. w.idx = o /\ w.out = s.out /\ w.t = s.t /\ (Sizes(s) => Sizes(w))
            BY ONLY <4>5
          <6> HIDE DEF A, B, C
          <6>4. (s.len = Len(obj) => w.len = Len(w.od[o]) /\ A = B) /\ w.fin # 1
            BY ONLY <6>1, <6>2
          <6> QED
            BY ONLY <5>1, <6>2, <6>3, <6>4, Zenon DEF A, B
        <5> QED
          BY ONLY <4>5, <4>9, <5>2, <5>3
      <4> QED
        BY ONLY <4>8, <4>9
    <3>2. CASE ~writes
      <4>1. w = a /\ a.fin # 1
        BY ONLY <3>2
      <4> HIDE DEF w
      <4> QED
        BY ONLY <2>5, <2>6, <4>1
    <3> QED
      BY ONLY <3>1, <3>2
  <2> HIDE DEF w
  <2>12. /\ done.st = "DOWNLOAD_SEGMENT_RSP" /\ done.fin = w.fin /\ done.idx = w.idx
         /\ done.od = w.od /\ done.out = w.out /\ done.t = w.t /\ done.pos = w.pos
         /\ done.len = w.len /\ done.buf = w.buf
    BY ONLY <2>10 DEF SrvRecord
  <2> HIDE DEF done
  <2>13. CASE r = w /\ w.st = "ABORT"
    BY ONLY <2>11, <2>13 DEF r, Stored
  <2>14. CASE r = done /\ w.st # "ABORT"
    BY ONLY <1>3, <2>5, <2>11, <2>12, <2>14 DEF r, Sizes, Stored
  <2> QED
    BY ONLY <1>1, <1>3, <2>7, <2>13, <2>14
<1>4. CASE ~ToggleOk(s)
  <2>1. Stop(s).st = "ABORT" /\ Stop(s).idx = s.idx /\ Stop(s).od = s.od /\ Stop(s).out = s.out
        /\ Stop(s).t = s.t
    BY ONLY <1>2 DEF SrvRecord, Stop
  <2> QED
    BY ONLY <1>1, <1>4, <2>1 DEF Sizes, r, Stored
<1> QED
  BY ONLY <1>3, <1>4

\* What an end that stops keeps, and one that sends.
LEMMA StopKeeps ==
  ASSUME NEW s \in SrvRecord
  PROVE  /\ Stop(s).st = "ABORT" /\ Stop(s).idx = s.idx /\ Stop(s).od = s.od
         /\ Stop(s).out = s.out /\ Stop(s).t = s.t /\ Stop(s).fin = s.fin
BY DEF SrvRecord, Stop

LEMMA SendKeeps ==
  ASSUME NEW e \in SrvRecord, NEW f
  PROVE  /\ Send(e, f).out = <<f>>
         /\ Send(e, f).st = e.st /\ Send(e, f).idx = e.idx /\ Send(e, f).ind = e.ind
         /\ Send(e, f).tran = e.tran /\ Send(e, f).fin = e.fin /\ Send(e, f).t = e.t
         /\ Send(e, f).buf = e.buf /\ Send(e, f).rd = e.rd /\ Send(e, f).crc = e.crc
         /\ Send(e, f).pos = e.pos /\ Send(e, f).len = e.len /\ Send(e, f).od = e.od
         /\ Send(e, f).rx = e.rx /\ Send(e, f).nod = e.nod
BY DEF SrvRecord, Send

\* The server's CRC of a block is that of what it has written.
Cover(s) == s.len = Len(s.od[s.idx]) /\ s.crc = Front_(s.od[s.idx], s.pos)

BlockEnded(r, s) ==
  /\ r.idx = s.idx /\ r.out = s.out
  /\ Sizes(s) => Sizes(r)
  /\ \/ r.st = "ABORT"
     \/ /\ s.rx.c = "blkEnd" /\ r.st = "DOWNLOAD_BLK_END_RSP"
        /\ s.fin = 1 /\ Cover(s) => Ends(s.idx, r.od[s.idx], s.rx.crc)

LEMMA EndBlockDownloadDoes ==
  ASSUME NEW s, SrvOK(s), s.rx \in Frames, s.st = "DOWNLOAD_BLK_END_REQ"
  PROVE  BlockEnded(EndBlockDownload(s), s)
<1> DEFINE n == Len(s.buf) - s.rx.ind
           a == [s EXCEPT !.tran = @ - s.rx.ind, !.buf = Front_(@, n)]
           w == validateAndWriteToOD(a, 2, s.rx.crc)
           done == [w EXCEPT !.st = "DOWNLOAD_BLK_END_RSP"]
           r == EndBlockDownload(s)
<1>1. r = IF s.rx.c # "blkEnd" \/ n <= 0 THEN Stop(s) ELSE IF w.st = "ABORT" THEN w ELSE done
  BY DEF EndBlockDownload
<1> HIDE DEF r
<1>2. s \in SrvRecord
  BY DEF SrvOK, SrvBase
<1>3. CASE s.rx.c # "blkEnd" \/ n <= 0
  <2>1. r = Stop(s)
    BY ONLY <1>1, <1>3
  <2> QED
    BY ONLY <1>2, <2>1, StopKeeps DEF r, BlockEnded, Sizes
<1>4. CASE ~(s.rx.c # "blkEnd" \/ n <= 0)
  <2>1. s.rx.ind \in Nat
    BY FrameIs
  <2>2. /\ s \in SrvRecord /\ AtPlace(s) /\ s.rd = 0 /\ Len(s.buf) <= s.tran
        /\ s.buf \in Data /\ Len(s.buf) \in Nat /\ s.tran \in Nat /\ s.nod <= Seg
        /\ Len(s.buf) <= Buf
    BY LenIs DEF SrvOK, SrvBase, SrvAt, DownBlock, SrvRecord
  <2>3. n \in Nat /\ n <= Len(s.buf) /\ s.tran - s.rx.ind \in Nat
    BY ONLY <1>4, <2>1, <2>2
  <2> HIDE DEF n
  <2>4. Front_(s.buf, n) \in Data /\ Len(Front_(s.buf, n)) = n
    BY ONLY <2>2, <2>3, FrontIs
  <2>5. a \in SrvRecord
    BY ONLY <2>2, <2>3, <2>4 DEF SrvRecord
  <2>6. /\ a.buf = Front_(s.buf, n) /\ a.st = s.st /\ a.idx = s.idx /\ a.pos = s.pos
        /\ a.len = s.len /\ a.od = s.od /\ a.rd = s.rd /\ a.nod = s.nod /\ a.rx = s.rx
        /\ a.crc = s.crc /\ a.out = s.out /\ a.fin = s.fin
    BY ONLY <2>2 DEF SrvRecord
  <2> HIDE DEF a
  <2>7. SrvBase(a) /\ AtPlace(a) /\ a.rd = 0
    BY ONLY <2>2, <2>3, <2>4, <2>5, <2>6, SdoAssumption DEF SrvBase, AtPlace
  <2>8. Validated(w, a, 2, s.rx.crc) /\ SrvBase(w)
    <3>1. 2 \in 0..2
      OBVIOUS
    <3> QED
      BY ONLY <2>7, <3>1, ValidateDoes, ValidateIs
  <2> HIDE DEF w
  <2>9. w.idx = s.idx /\ w.out = s.out /\ (Sizes(s) => Sizes(w))
    BY ONLY <2>6, <2>8 DEF Validated, Sizes
  <2>10. w.st # "ABORT" /\ s.fin = 1 /\ Cover(s) => Ends(s.idx, w.od[s.idx], s.rx.crc)
    <3> SUFFICES ASSUME w.st # "ABORT", s.fin = 1, Cover(s)
                 PROVE  Ends(s.idx, w.od[s.idx], s.rx.crc)
      OBVIOUS
    <3>1. s.crc \o a.buf = s.rx.crc /\ Ends(s.idx, w.od[s.idx], Front_(s.od[s.idx], s.pos) \o a.buf)
      <4>1. a.fin # 0
        BY ONLY <2>6, s.fin = 1
      <4>2. a.len = Len(a.od[a.idx])
        BY ONLY <2>6, Cover(s) DEF Cover
      <4>3. /\ 2 = 2 => a.crc \o a.buf = s.rx.crc
            /\ Ends(a.idx, w.od[a.idx], Front_(a.od[a.idx], a.pos) \o a.buf)
        BY ONLY <2>8, <4>1, <4>2, w.st # "ABORT", Zenon DEF Validated
      <4> QED
        BY ONLY <2>6, <4>3
    <3> QED
      BY ONLY <3>1, Cover(s) DEF Cover
  <2>11. CASE w.st = "ABORT"
    <3>1. r = w
      BY ONLY <1>1, <1>4, <2>11 DEF n
    <3> QED
      BY ONLY <2>9, <2>11, <3>1 DEF r, BlockEnded
  <2>12. CASE w.st # "ABORT"
    <3>1. r = done
      BY ONLY <1>1, <1>4, <2>12 DEF n
    <3>2. /\ done.st = "DOWNLOAD_BLK_END_RSP" /\ done.idx = w.idx /\ done.out = w.out
          /\ done.od = w.od
      BY ONLY <2>8 DEF SrvBase, SrvRecord
    <3> HIDE DEF done
    <3> QED
      BY ONLY <1>4, <2>9, <2>10, <2>12, <3>1, <3>2 DEF r, BlockEnded, Sizes
  <2> QED
    BY ONLY <2>11, <2>12
<1> QED
  BY ONLY <1>3, <1>4

Answered(r, s) ==
  /\ r.idx = s.idx /\ r.rx \in {s.rx, None} /\ (Sizes(s) => Sizes(r))
  /\ \/ r.st = "ABORT" /\ r.out = s.out
     \/ /\ r.st \in {"DOWNLOAD_BLK_END_REQ", "DOWNLOAD_BLK_SUBBLOCK_REQ"}
        /\ r.st = "DOWNLOAD_BLK_END_REQ" => r.fin = 1
        /\ \E g \in Frames : g.c = "subBlock" /\ r.out = <<g>>
        /\ Cover(s) => Cover(r)

LEMMA AnswerSubBlockDoes ==
  ASSUME NEW s, SrvOK(s), s.st = "DOWNLOAD_BLK_SUBBLOCK_RSP"
  PROVE  Answered(AnswerSubBlock(s), s)
<1> DEFINE empties == s.fin = 0 /\ BlockSize(s) < Cap /\ s.buf # <<>>
           w == IF empties THEN validateAndWriteToOD(s, 1, <<>>) ELSE s
           n == IF s.fin = 1 THEN s.blk ELSE BlockSize(w)
           seq == IF s.fin = 1 THEN w.seq ELSE 0
           rx == IF s.fin = 1 THEN w.rx ELSE None
           st == IF s.fin = 1 THEN "DOWNLOAD_BLK_END_REQ" ELSE "DOWNLOAD_BLK_SUBBLOCK_REQ"
           a == [w EXCEPT !.blk = n, !.seq = IF s.fin = 1 THEN @ ELSE 0,
                          !.rx = IF s.fin = 1 THEN @ ELSE None,
                          !.st = IF s.fin = 1 THEN "DOWNLOAD_BLK_END_REQ"
                                 ELSE "DOWNLOAD_BLK_SUBBLOCK_REQ"]
           f == [Frame("subBlock") EXCEPT !.seq = s.seq, !.blk = n]
           r == AnswerSubBlock(s)
<1>1. r = IF w.st = "ABORT" THEN w ELSE Send(a, f)
  BY DEF AnswerSubBlock
<1> HIDE DEF r
<1>2. /\ SrvBase(s) /\ s \in SrvRecord /\ AtPlace(s) /\ s.rd = 0 /\ s.fin \in Bit /\ s.seq \in Nat
      /\ s.blk \in Nat
  BY DEF SrvOK, SrvBase, SrvAt, SrvRecord, DownBlock
<1>3. /\ SrvBase(w) /\ w.rx = s.rx /\ w.idx = s.idx /\ w.out = s.out /\ (Sizes(s) => Sizes(w))
      /\ w.st # "ABORT" => w.fin = s.fin /\ (Cover(s) => Cover(w))
                      /\ (s.fin = 0 => w.buf = <<>> \/ ~(BlockSize(w) < Cap))
  <2>1. CASE empties
    <3> DEFINE v == validateAndWriteToOD(s, 1, <<>>)
    <3>1. 1 \in 0..2
      OBVIOUS
    <3>2. /\ Validated(v, s, 1, <<>>) /\ SrvBase(v) /\ v.rx = s.rx
          /\ v.st = "ABORT" \/ (v.fin = s.fin /\ v.buf = <<>>)
      BY ONLY <1>2, <3>1, ValidateDoes, ValidateIs
    <3>3. w = v
      BY ONLY <2>1
    <3> HIDE DEF v, w
    <3>4. v.st # "ABORT" /\ Cover(s) => Cover(v)
      <4>1. s.fin # 1
        BY ONLY <2>1
      <4>2. 1 > 0
        OBVIOUS
      <4>3. v.st # "ABORT" => /\ v.idx = s.idx /\ v.len = s.len /\ Len(v.od[s.idx]) = Len(s.od[s.idx])
                              /\ v.crc = s.crc \o s.buf
                              /\ Front_(v.od[s.idx], v.pos) = Front_(s.od[s.idx], s.pos) \o s.buf
        BY ONLY <3>2, <4>1, <4>2, Zenon DEF Validated
      <4> QED
        BY ONLY <4>3 DEF Cover
    <3>5. v.idx = s.idx /\ v.out = s.out /\ (Sizes(s) => Sizes(v))
      BY ONLY <3>2 DEF Validated
    <3> QED
      BY ONLY <3>2, <3>3, <3>4, <3>5
  <2>2. CASE ~empties
    <3>1. w = s /\ (s.fin = 0 => s.buf = <<>> \/ ~(BlockSize(s) < Cap))
      BY ONLY <2>2
    <3> HIDE DEF w
    <3> QED
      BY ONLY <1>2, <3>1
  <2> HIDE DEF w, empties
  <2> QED
    BY ONLY <2>1, <2>2
<1> HIDE DEF w
<1>4. CASE w.st = "ABORT"
  BY ONLY <1>1, <1>3, <1>4 DEF Answered, r
<1>5. CASE w.st # "ABORT"
  <2>1. w \in SrvRecord /\ Seg \in Nat \ {0} /\ Buf - 2 \in Nat
    BY <1>3, SdoAssumption DEF SrvBase
  <2>2. n \in Nat
    <3>1. CASE s.fin = 1
      BY ONLY <1>2, <3>1
    <3>2. CASE s.fin = 0
      <4>1. n = BlockSize(w) /\ (w.buf = <<>> \/ ~(BlockSize(w) < Cap))
        BY ONLY <1>3, <1>5, <3>2
      <4>2. Len(w.buf) \in Nat
        BY ONLY <2>1, LenIs DEF SrvRecord
      <4> HIDE DEF n
      <4> QED
        BY ONLY <4>1, <4>2, BlockIs
    <3> QED
      BY ONLY <1>2, <3>1, <3>2 DEF Bit
  <2> HIDE DEF n
  <2>3. f \in Frames /\ f.c = "subBlock"
    <3>1. "subBlock" \in Commands \ {"block", "blkEnd"} /\ "subBlock" \in Commands
      BY DEF Commands
    <3>2. 0 \in Bit /\ 0 \in Nat /\ None \in Obj \cup {None}
      BY DEF Bit
    <3>3. f \in Frames
      BY ONLY <1>2, <2>2, <3>1, <3>2, PlainFrame
    <3>4. Frame("subBlock") \in FrameRecord /\ Frame("subBlock").c = "subBlock"
      BY ONLY <3>1, FrameOf
    <3>5. f.c = Frame("subBlock").c
      BY ONLY <3>4 DEF FrameRecord
    <3> QED
      BY ONLY <3>3, <3>4, <3>5
  <2> HIDE DEF f
  <2>4. a = [w EXCEPT !.blk = n, !.seq = seq, !.rx = rx, !.st = st]
    BY ONLY <2>1 DEF SrvRecord
  <2>5. seq \in Nat /\ rx \in Frames \cup {None} /\ rx \in {s.rx, None} /\ st \in States
    BY ONLY <1>3, <2>1, StatesAre DEF SrvRecord, DownBlock
  <2>6. (s.fin = 0 => st = "DOWNLOAD_BLK_SUBBLOCK_REQ") /\ (s.fin = 1 => st = "DOWNLOAD_BLK_END_REQ")
    OBVIOUS
  <2> HIDE DEF a, seq, rx, st
  <2>7. a \in SrvRecord
    BY ONLY <2>1, <2>2, <2>4, <2>5 DEF SrvRecord
  <2>8. /\ a.st = st /\ a.idx = w.idx /\ a.pos = w.pos /\ a.len = w.len /\ a.od = w.od
        /\ a.crc = w.crc /\ a.fin = w.fin /\ a.rx = rx
    BY ONLY <2>1, <2>4 DEF SrvRecord
  <2> HIDE DEF a
  <2> DEFINE e == Send(a, f)
  <2>9. /\ e.out = <<f>> /\ e.st = st /\ e.idx = w.idx /\ e.pos = w.pos /\ e.len = w.len /\ e.od = w.od
        /\ e.crc = w.crc /\ e.fin = w.fin /\ e.rx = rx
    BY ONLY <2>7, <2>8, SendKeeps
  <2> HIDE DEF e
  <2>10. Sizes(w) => Sizes(e)
    BY ONLY <2>9 DEF Sizes
  <2>11. Cover(w) => Cover(e)
    BY ONLY <2>9 DEF Cover
  <2>12. r = e
    BY ONLY <1>1, <1>5 DEF e
  <2>13. e.st \in {"DOWNLOAD_BLK_END_REQ", "DOWNLOAD_BLK_SUBBLOCK_REQ"}
         /\ (e.st = "DOWNLOAD_BLK_END_REQ" => e.fin = 1)
    BY ONLY <1>2, <1>3, <1>5, <2>6, <2>9 DEF Bit
  <2> QED
    BY ONLY <1>3, <1>5, <2>3, <2>5, <2>9, <2>10, <2>11, <2>12, <2>13 DEF Answered, r
<1> QED
  BY ONLY <1>4, <1>5

\* A segment of a sub-block changes neither the dictionary nor what is known of it.
BlockStored(r, s) ==
  /\ r.idx = s.idx /\ r.out = s.out /\ r.od = s.od /\ r.pos = s.pos /\ r.len = s.len
  /\ r.crc = s.crc /\ r.st \in {"DOWNLOAD_BLK_SUBBLOCK_REQ", "DOWNLOAD_BLK_SUBBLOCK_RSP"}
  /\ r.rx \in {s.rx, None}

LEMMA StoreBlockSegmentDoes ==
  ASSUME NEW s \in SrvRecord, s.st = "DOWNLOAD_BLK_SUBBLOCK_REQ", NEW f \in Frames
  PROVE  BlockStored([StoreBlockSegment(s, f) EXCEPT !.half = 0], s)
<1> DEFINE a == [s EXCEPT !.seq = f.seq, !.buf = @ \o f.data, !.tran = @ + Seg]
           b == [a EXCEPT !.fin = IF f.last = 1 THEN 1 ELSE @,
                          !.st = IF f.last = 1 \/ f.seq = s.blk THEN "DOWNLOAD_BLK_SUBBLOCK_RSP" ELSE @,
                          !.rx = IF f.last = 1 \/ f.seq = s.blk THEN None ELSE @]
           c == [s EXCEPT !.st = "DOWNLOAD_BLK_SUBBLOCK_RSP", !.rx = None]
           e == StoreBlockSegment(s, f)
           r == [e EXCEPT !.half = 0]
           Keeps(x) == /\ x.idx = s.idx /\ x.out = s.out /\ x.od = s.od /\ x.pos = s.pos /\ x.len = s.len
                       /\ x.crc = s.crc /\ x.st \in {"DOWNLOAD_BLK_SUBBLOCK_REQ", "DOWNLOAD_BLK_SUBBLOCK_RSP"}
                       /\ x.rx \in {s.rx, None}
<1>1. e \in {b, c, s}
  BY DEF StoreBlockSegment
<1>2. Keeps(s)
  OBVIOUS
<1>3. Keeps(c) /\ DOMAIN c = DOMAIN s
  BY DEF SrvRecord
<1>4. Keeps(b) /\ DOMAIN b = DOMAIN s
  <2>1. /\ a.idx = s.idx /\ a.out = s.out /\ a.od = s.od /\ a.pos = s.pos /\ a.len = s.len
        /\ a.crc = s.crc /\ a.st = s.st /\ a.rx = s.rx /\ a.fin = s.fin
        /\ DOMAIN a = DOMAIN s
    BY DEF SrvRecord
  <2> DEFINE fin == IF f.last = 1 THEN 1 ELSE a.fin
             st == IF f.last = 1 \/ f.seq = s.blk THEN "DOWNLOAD_BLK_SUBBLOCK_RSP" ELSE a.st
             rx == IF f.last = 1 \/ f.seq = s.blk THEN None ELSE a.rx
  <2>2. DOMAIN s = {"st", "idx", "ind", "tran", "fin", "t", "buf", "rd", "seq", "blk", "nod", "crc",
                    "rx", "half", "out", "pos", "len", "od"}
    BY DEF SrvRecord
  <2>3. b = [a EXCEPT !.fin = fin, !.st = st, !.rx = rx]
    OBVIOUS
  <2>4. st \in {"DOWNLOAD_BLK_SUBBLOCK_REQ", "DOWNLOAD_BLK_SUBBLOCK_RSP"} /\ rx \in {s.rx, None}
    BY <2>1
  <2> HIDE DEF a, b, fin, st, rx
  <2>5. /\ b.idx = a.idx /\ b.out = a.out /\ b.od = a.od /\ b.pos = a.pos /\ b.len = a.len
        /\ b.crc = a.crc /\ b.st = st /\ b.rx = rx /\ DOMAIN b = DOMAIN a
    BY ONLY <2>1, <2>2, <2>3
  <2> QED
    BY ONLY <2>1, <2>4, <2>5
<1>5. Keeps(e) /\ DOMAIN e = DOMAIN s
  <2> HIDE DEF e, b, c, Keeps
  <2> QED
    BY <1>1, <1>2, <1>3, <1>4
<1> HIDE DEF e
<1>6. /\ r.idx = e.idx /\ r.out = e.out /\ r.od = e.od /\ r.pos = e.pos /\ r.len = e.len
      /\ r.crc = e.crc /\ r.st = e.st /\ r.rx = e.rx
  OBVIOUS
<1> QED
  BY ONLY <1>5, <1>6 DEF BlockStored, r, e

-----------------------------------------------------------------------------
(* What holds while a transfer is on its way. s is the server, x the frames  *)
(* to it, k the client, y the frames to that, and j the job; a frame         *)
(* received that was not taken yet still counts as on its way.               *)

Requests == {"download", "upload", "blkDownload", "blkUpload"}

\* what a server says on its own, in the middle of what came before
Noise == {"abort", "subBlock"}

Gone == {"IDLE", "ABORT"}

\* where an earlier transfer may have left the server
Old == SrvWaits \cup {"ABORT", "DOWNLOAD_BLK_SUBBLOCK_RSP"}

Held(ch, r) == {ch[i] : i \in 1..Len(ch)} \cup ({r} \ {None})

Quiet(ch, r) == ch = <<>> /\ r = None

Mute(ch, r) == \A g \in Held(ch, r) : g.c \in Noise

Alone(ch, r) == Len(ch) <= 1 /\ (r # None => ch = <<>>)

Single(ch, r) ==
  /\ \A a, b \in 1..Len(ch) : ch[a].c \notin Noise /\ ch[b].c \notin Noise => a = b
  /\ r # None /\ r.c \notin Noise => \A a \in 1..Len(ch) : ch[a].c \in Noise

\* one question or one answer, and never both
Turn(s, x, k, y) ==
  Alone(x, s.rx) /\ Single(y, k.rx) /\ (Quiet(x, s.rx) \/ Mute(y, k.rx))

Written(s, j) == Text(j.obj, s.od[j.obj]) = j.data

\* The server has been given the first n bytes, and has no others.
Sync(s, j, n) ==
  /\ n \in Nat /\ n <= Len(j.data)
  /\ s.idx = j.obj /\ s.len = Len(s.od[j.obj])
  /\ Front_(s.od[j.obj], s.pos) \o s.buf = Front_(j.data, n)

SrvDown(s) ==
  /\ Sizes(s)
  /\ s.st \in DownBlock => Cover(s)
  /\ s.st = "DOWNLOAD_BLK_INITIATE_RSP" => s.pos = 0 /\ s.len = Len(s.od[s.idx])
  /\ s.st = "DOWNLOAD_BLK_END_REQ" => s.fin = 1

\* What the client has still to send, and what of a block was taken.
Left(k, j) ==
  /\ k.tran \in Nat /\ k.tran <= Len(j.data)
  /\ k.fifo \o k.more = Rest(j.data, k.tran)
  /\ k.fin = 1 => k.tran = Len(j.data)

Taken(k, j) ==
  /\ k.crc \o (k.fifo \o k.more) = j.data
  /\ k.fin = 1 => k.more = <<>> /\ k.alt = Len(k.fifo)

CliHas(k, j) ==
  /\ k.ret = "ok" => k.st = "IDLE"
  /\ k.st # "IDLE" \/ k.ret = "ok" => j \in Jobs
  /\ k.st \in CliUp => j.op = "upload"
  /\ k.st \in CliDown => j.op = "download" /\ k.idx = j.obj
  /\ k.st \in DownRequest \cup DownStart \cup DownSegment => Left(k, j)
  /\ k.st \in DownRequest => k.tran = 0 /\ k.fin = 0 /\ k.ind = j.ind
  /\ k.st \in DownStart /\ k.fin = 0 => k.tran = 0
  /\ k.st = "DOWNLOAD_BLK_INITIATE_RSP" => k.fin = 0
  /\ k.st = "DOWNLOAD_INITIATE_REQ" => k.more = <<>> \/ Len(k.fifo) = Fifo
  /\ k.st = "DOWNLOAD_SEGMENT_REQ" => k.fin = 0
  /\ k.st \in DownSending => Taken(k, j)
  /\ k.st = "DOWNLOAD_BLK_SUBBLOCK_REQ" => k.fin = 0
  /\ k.st \in {"DOWNLOAD_BLK_END_REQ", "DOWNLOAD_BLK_END_RSP"} => k.crc = j.data

\* the client's question
Asked(f, s, k, j) ==
  /\ k.st = "DOWNLOAD_INITIATE_RSP" =>
       /\ f.c = "download" /\ f.idx = j.obj /\ f.exp = k.fin
       /\ k.fin = 1 => /\ j.data # <<>> /\ Len(j.data) <= Exped
                       /\ f.data = j.data \o Zeros(Exped - Len(j.data))
                       /\ f.ind = Len(j.data) \/ (f.ind = 0 /\ j.ind = 0)
  /\ k.st = "DOWNLOAD_BLK_INITIATE_RSP" => f.c = "blkDownload" /\ f.idx = j.obj
  /\ k.st = "DOWNLOAD_SEGMENT_RSP" =>
       /\ f.c = "segment" /\ f.t = k.t /\ f.last = k.fin
       /\ \E n \in 0..k.tran :
            /\ f.data = Part(j.data, n, k.tran)
            /\ s.st = "DOWNLOAD_SEGMENT_REQ" => Sync(s, j, n) /\ s.t = k.t

\* the server about to answer it
Answering(s, k, j) ==
  /\ s.idx = j.obj /\ s.st = k.st
  /\ k.st = "DOWNLOAD_INITIATE_RSP" =>
       /\ s.fin = k.fin
       /\ k.fin = 1 => Written(s, j)
       /\ k.fin = 0 => s.pos = 0 /\ s.len = Len(s.od[j.obj])
  /\ k.st = "DOWNLOAD_SEGMENT_RSP" =>
       /\ s.fin = k.fin /\ s.t = k.t
       /\ k.fin = 1 => Written(s, j)
       /\ k.fin = 0 => Sync(s, j, k.tran)

\* and what its answer says
Answers(s, k, j) ==
  /\ k.st \in {"DOWNLOAD_INITIATE_RSP", "DOWNLOAD_SEGMENT_RSP"} /\ k.fin = 1 =>
       Written(s, j) /\ s.st \in Gone
  /\ k.st = "DOWNLOAD_INITIATE_RSP" /\ k.fin = 0 /\ s.st = "DOWNLOAD_SEGMENT_REQ" =>
       Sync(s, j, 0) /\ s.t = 0
  /\ k.st = "DOWNLOAD_SEGMENT_RSP" /\ k.fin = 0 /\ s.st = "DOWNLOAD_SEGMENT_REQ" =>
       Sync(s, j, k.tran) /\ s.t = 1 - k.t
  /\ k.st = "DOWNLOAD_BLK_INITIATE_RSP" => s.idx = j.obj /\ s.st \in DownBlock \cup Gone

CliAsks == {"DOWNLOAD_INITIATE_RSP", "DOWNLOAD_BLK_INITIATE_RSP", "DOWNLOAD_SEGMENT_RSP"}

CliReady == DownRequest \cup {"DOWNLOAD_SEGMENT_REQ"}

CliBlock == DownSending \cup {"DOWNLOAD_BLK_END_REQ", "DOWNLOAD_BLK_END_RSP"}

Waiting(s, x, k, y, j) ==
  /\ Turn(s, x, k, y)
  /\ \/ /\ s.st \in Old
        /\ \A f \in Held(x, s.rx) : Asked(f, s, k, j)
        /\ Mute(y, k.rx) \/ Answers(s, k, j)
     \/ Quiet(x, s.rx) /\ Mute(y, k.rx) /\ Answering(s, k, j)

Ready(s, x, k, y, j) ==
  /\ Quiet(x, s.rx) /\ Mute(y, k.rx) /\ s.st \in Old
  /\ k.st = "DOWNLOAD_SEGMENT_REQ" /\ s.st = "DOWNLOAD_SEGMENT_REQ" => Sync(s, j, k.tran) /\ s.t = k.t

Blocks(s, x, k, y, j) ==
  /\ s.idx = j.obj /\ s.st \in DownBlock \cup Gone \cup {"DOWNLOAD_BLK_END_RSP"}
  /\ \A f \in Held(x, s.rx) :
       /\ f.c \notin Requests
       /\ f.c = "blkEnd" => k.st = "DOWNLOAD_BLK_END_RSP" /\ f.crc = j.data
  /\ s.st = "DOWNLOAD_BLK_END_RSP" => k.st = "DOWNLOAD_BLK_END_RSP" /\ Written(s, j)
  /\ \A g \in Held(y, k.rx) :
       g.c = "blkEndOk" => k.st = "DOWNLOAD_BLK_END_RSP" /\ Written(s, j) /\ s.st \in Gone

Arrived(s, x, k, y, j) ==
  /\ \A f \in Held(x, s.rx) : f.c \notin Requests
  /\ s.st \in Gone /\ Written(s, j)

Down(s, x, k, y, j) ==
  /\ SrvDown(s) /\ CliHas(k, j)
  /\ k.st \in CliAsks => Waiting(s, x, k, y, j)
  /\ k.st \in CliReady => Ready(s, x, k, y, j)
  /\ k.st \in CliBlock => Blocks(s, x, k, y, j)
  /\ k.ret = "ok" /\ j.op = "download" => Arrived(s, x, k, y, j)

\* A frame received, taken or lost: nothing new is on its way.
Fewer(ch2, r2, ch, r) ==
  /\ Held(ch2, r2) \subseteq Held(ch, r)
  /\ Quiet(ch, r) => Quiet(ch2, r2)
  /\ Alone(ch, r) => Alone(ch2, r2)
  /\ Single(ch, r) => Single(ch2, r2)
  /\ Mute(ch, r) => Mute(ch2, r2)

LEMMA FewerFrames ==
  ASSUME NEW ch \in Seq(Frames), NEW r \in Frames \cup {None}
  PROVE  /\ Fewer(ch, r, ch, r) /\ Fewer(ch, None, ch, r)
         /\ ch # <<>> => Fewer(Tail(ch), r, ch, r) /\ Fewer(Tail(ch), None, ch, r)
         /\ ch # <<>> /\ r = None => Fewer(Tail(ch), Head(ch), ch, r)
<1>1. Fewer(ch, r, ch, r)
  BY DEF Fewer
<1>2. Fewer(ch, None, ch, r)
  BY DEF Fewer, Held, Quiet, Alone, Single, Mute
<1>3. CASE ch # <<>>
  <2> DEFINE n == Len(ch)
             tl == Tail(ch)
             m == Len(tl)
  <2>1. n \in Nat /\ n > 0 /\ m = n - 1 /\ Head(ch) = ch[1] /\ \A i \in 1..m : tl[i] = ch[i + 1]
    BY <1>3
  <2>2. (tl = <<>> <=> m = 0) /\ (n <= 1 <=> m = 0)
    <3>1. tl \in Seq(Frames)
      BY ONLY <1>3, ch \in Seq(Frames)
    <3>2. tl = <<>> <=> m = 0
      BY ONLY <3>1, EmptySeq
    <3>3. n \in Nat /\ n > 0 /\ m = n - 1
      BY ONLY <2>1
    <3> HIDE DEF n, tl, m
    <3> QED
      BY ONLY <3>2, <3>3
  <2> HIDE DEF n, tl, m
  <2>3. \A i \in 1..m : i + 1 \in 1..n /\ i + 1 # 1
    BY ONLY <2>1
  <2>4. {tl[i] : i \in 1..m} \subseteq {ch[i] : i \in 1..n}
    BY ONLY <2>1, <2>3
  <2>5. Single(ch, r) => Single(tl, r)
    <3> SUFFICES ASSUME Single(ch, r)
                 PROVE  Single(tl, r)
      OBVIOUS
    <3>1. /\ \A a, b \in 1..n : ch[a].c \notin Noise /\ ch[b].c \notin Noise => a = b
          /\ r # None /\ r.c \notin Noise => \A a \in 1..n : ch[a].c \in Noise
      BY DEF Single, n
    <3>2. ASSUME NEW a \in 1..m, NEW b \in 1..m, tl[a].c \notin Noise, tl[b].c \notin Noise
          PROVE  a = b
      <4>1. a + 1 = b + 1
        BY ONLY <2>1, <2>3, <3>1, <3>2
      <4> QED
        BY ONLY <2>1, <4>1
    <3>3. r # None /\ r.c \notin Noise => \A a \in 1..m : tl[a].c \in Noise
      BY ONLY <2>1, <2>3, <3>1
    <3> QED
      BY ONLY <3>2, <3>3 DEF Single, m
  <2>6. Held(tl, r) \subseteq Held(ch, r)
    BY ONLY <2>4 DEF Held, n, m
  <2>7. Alone(ch, r) => Alone(tl, r)
    BY ONLY <1>3, <2>1, <2>2 DEF Alone, n, m
  <2>8. Fewer(tl, r, ch, r)
    BY ONLY <1>3, <2>5, <2>6, <2>7 DEF Fewer, Quiet, Mute
  <2>9. Held(tl, None) \subseteq Held(ch, r) /\ (Single(ch, r) => Single(tl, None))
        /\ (Alone(ch, r) => Alone(tl, None))
    BY ONLY <2>5, <2>6, <2>7 DEF Held, Single, Alone
  <2>10. Fewer(tl, None, ch, r)
    BY ONLY <1>3, <2>9 DEF Fewer, Quiet, Mute
  <2> DEFINE hd == Head(ch)
  <2>11. r = None => Fewer(tl, hd, ch, r)
    <3> SUFFICES ASSUME r = None
                 PROVE  Fewer(tl, hd, ch, r)
      OBVIOUS
    <3>0. hd = ch[1]
      BY ONLY <2>1
    <3> HIDE DEF hd
    <3>1. hd \in {ch[i] : i \in 1..n}
      BY ONLY <2>1, <3>0
    <3>2. Held(tl, hd) \subseteq Held(ch, r)
      BY ONLY <2>4, <3>1 DEF Held, n, m
    <3>3. Single(ch, r) => Single(tl, hd)
      <4> SUFFICES ASSUME Single(ch, r)
                   PROVE  Single(tl, hd)
        OBVIOUS
      <4>1. \A a, b \in 1..n : ch[a].c \notin Noise /\ ch[b].c \notin Noise => a = b
        BY DEF Single, n
      <4>2. hd.c \notin Noise => \A a \in 1..m : tl[a].c \in Noise
        BY ONLY <2>1, <2>3, <3>0, <4>1
      <4>3. \A a, b \in 1..m : tl[a].c \notin Noise /\ tl[b].c \notin Noise => a = b
        BY <2>5 DEF Single, m
      <4> QED
        BY ONLY <4>2, <4>3 DEF Single, m
    <3>4. Alone(ch, r) => Alone(tl, hd)
      BY ONLY <2>1, <2>2 DEF Alone, n, m
    <3> QED
      BY ONLY <1>3, <3>2, <3>3, <3>4 DEF Fewer, Quiet, Mute
  <2> QED
    BY ONLY <1>1, <1>2, <2>8, <2>10, <2>11 DEF tl, hd
<1> QED
  BY ONLY <1>1, <1>2, <1>3

\* The frame received is one of those, and without it there is no other answer.
LEMMA HeldFrame ==
  ASSUME NEW ch, NEW r, r # None
  PROVE  /\ r \in Held(ch, r) /\ ~Quiet(ch, r)
         /\ Alone(ch, r) => Quiet(ch, None)
         /\ r.c \notin Noise => ~Mute(ch, r)
         /\ Single(ch, r) /\ r.c \notin Noise => Mute(ch, None)
BY DEF Held, Quiet, Alone, Mute, Single

LEMMA NoFrames ==
  ASSUME NEW ch, NEW r, Quiet(ch, r)
  PROVE  Held(ch, r) = {} /\ Mute(ch, r) /\ Alone(ch, r) /\ Single(ch, r)
BY DEF Held, Quiet, Alone, Mute, Single

\* A frame sent.
LEMMA OneMore ==
  ASSUME NEW ch \in Seq(Frames), NEW r \in Frames \cup {None}, NEW g \in Frames
  PROVE  /\ Held(ch \o <<g>>, r) = Held(ch, r) \cup {g}
         /\ Quiet(ch, r) => Alone(ch \o <<g>>, r)
         /\ Mute(ch, r) => Single(ch \o <<g>>, r)
         /\ g.c \in Noise /\ Single(ch, r) => Single(ch \o <<g>>, r)
         /\ g.c \in Noise /\ Mute(ch, r) => Mute(ch \o <<g>>, r)
<1> DEFINE n == Len(ch)
           up == ch \o <<g>>
<1>1. n \in Nat /\ Len(up) = n + 1 /\ up[n + 1] = g /\ \A i \in 1..n : up[i] = ch[i]
  OBVIOUS
<1>2. ch = <<>> => n = 0
  OBVIOUS
<1> HIDE DEF n, up
<1>3. \A i : i \in 1..(n + 1) <=> i \in 1..n \/ i = n + 1
  BY ONLY <1>1
<1>4. {up[i] : i \in 1..(n + 1)} = {ch[i] : i \in 1..n} \cup {g}
  BY ONLY <1>1, <1>3
<1>5. Held(up, r) = Held(ch, r) \cup {g}
  BY ONLY <1>1, <1>4 DEF Held, n
<1>6. Quiet(ch, r) => Alone(up, r)
  BY ONLY <1>1, <1>2 DEF Quiet, Alone
<1>7. Mute(ch, r) <=> (r # None => r.c \in Noise) /\ \A i \in 1..n : ch[i].c \in Noise
  BY ONLY DEF Mute, Held, n
<1>8. Single(up, r) <=>
        /\ \A a, b \in 1..(n + 1) : up[a].c \notin Noise /\ up[b].c \notin Noise => a = b
        /\ r # None /\ r.c \notin Noise => \A a \in 1..(n + 1) : up[a].c \in Noise
  BY ONLY <1>1 DEF Single
<1>9. Mute(ch, r) => Single(up, r)
  BY ONLY <1>1, <1>3, <1>7, <1>8
<1>10. g.c \in Noise /\ Single(ch, r) => Single(up, r)
  <2>1. Single(ch, r) <=>
          /\ \A a, b \in 1..n : ch[a].c \notin Noise /\ ch[b].c \notin Noise => a = b
          /\ r # None /\ r.c \notin Noise => \A a \in 1..n : ch[a].c \in Noise
    BY ONLY DEF Single, n
  <2> QED
    BY ONLY <1>1, <1>3, <1>8, <2>1
<1>11. g.c \in Noise /\ Mute(ch, r) => Mute(up, r)
  BY ONLY <1>5 DEF Mute
<1> QED
  BY ONLY <1>5, <1>6, <1>9, <1>10, <1>11 DEF up

SrvFields == {"st", "idx", "ind", "tran", "fin", "t", "buf", "rd", "seq", "blk", "nod", "crc",
              "rx", "half", "out", "pos", "len", "od"}

\* What never changes the dictionary.
Kept(r, s) == r.od = s.od /\ r.idx = s.idx /\ r.out = s.out /\ DOMAIN r = SrvFields

LEMMA FieldsAre == \A s \in SrvRecord : DOMAIN s = SrvFields
BY DEF SrvRecord, SrvFields

LEMMA StopKept ==
  ASSUME NEW s, DOMAIN s = SrvFields
  PROVE  Kept(Stop(s), s) /\ Stop(s).st = "ABORT"
BY DEF Kept, Stop, SrvFields

LEMMA ReadKeeps ==
  ASSUME NEW s, DOMAIN s = SrvFields, NEW min, NEW sum
  PROVE  /\ Kept(readFromOd(s, min, sum), s)
         /\ readFromOd(s, min, sum).st \in {s.st, "ABORT"}
<1> DEFINE rest == Rest(s.buf, s.rd)
           room == Buf - Len(rest)
           left == s.len - s.pos
           read == SubSeq(s.od[s.idx], s.pos + 1, s.pos + Low(left, room))
           cut == s.idx \in Str /\ TextLen(read) < Len(read)
           new == IF cut THEN Front_(read, TextLen(read)) ELSE read
           part == (left > room /\ ~cut) \/ rest \o new = <<>>
           all == rest \o new
           few == Len(all) < min
           fin == IF part THEN 0 ELSE 1
           pos == IF left > room THEN s.pos + room ELSE 0
           len == IF cut THEN s.tran + Len(new) ELSE s.len
           crc == IF sum THEN s.crc \o new ELSE s.crc
           more == [s EXCEPT !.buf = all, !.rd = 0, !.fin = fin, !.pos = pos, !.len = len, !.crc = crc]
           r == readFromOd(s, min, sum)
<1>1. r = IF s.fin = 1 \/ Len(rest) >= min THEN s ELSE IF part /\ few THEN Stop(s) ELSE more
  <2>1. more = [s EXCEPT !.buf = all, !.rd = 0, !.fin = fin,
                         !.pos = IF left > room THEN @ + room ELSE 0,
                         !.len = IF cut THEN s.tran + Len(new) ELSE @,
                         !.crc = IF sum THEN @ \o new ELSE @]
    BY DEF SrvFields
  <2> HIDE DEF more
  <2> QED
    BY ONLY <2>1, ZenonT(40) DEF readFromOd
<1> HIDE DEF r, part, few, rest, all, fin, pos, len, crc
<1>2. Kept(more, s) /\ more.st = s.st
  BY DEF SrvFields, Kept
<1>3. Kept(Stop(s), s) /\ Stop(s).st = "ABORT"
  BY StopKept
<1>4. Kept(s, s)
  BY DEF Kept
<1> HIDE DEF more
<1> QED
  BY ONLY <1>1, <1>2, <1>3, <1>4 DEF r

\* What a request leaves as it was, and where it starts.
NewlyRequested(r, s) ==
  /\ r.out = s.out /\ r.od = s.od
  /\ s.rx.c \notin Requests => r.st = "ABORT" /\ r.idx = s.idx
  /\ \/ r.st = "ABORT"
     \/ /\ r.idx = s.rx.idx /\ r.pos = 0 /\ r.len = Len(r.od[r.idx])
        /\ \/ s.rx.c = "download" /\ r.st = "DOWNLOAD_INITIATE_REQ"
           \/ s.rx.c = "blkDownload" /\ r.st = "DOWNLOAD_BLK_INITIATE_REQ"
     \/ r.idx = s.rx.idx /\ s.rx.c \in {"upload", "blkUpload"} /\ r.st \in UpRequest

LEMMA NewRequestDoes ==
  ASSUME NEW s, SrvBase(s), s.rx \in Frames
  PROVE  NewlyRequested(NewRequest(s), s)
<1> DEFINE up == s.rx.c \in {"upload", "blkUpload"}
           st == CASE s.rx.c = "download" -> "DOWNLOAD_INITIATE_REQ"
                   [] s.rx.c = "upload" -> "UPLOAD_INITIATE_REQ"
                   [] s.rx.c = "blkDownload" -> "DOWNLOAD_BLK_INITIATE_REQ"
                   [] s.rx.c = "blkUpload" -> "UPLOAD_BLK_INITIATE_REQ"
                   [] OTHER -> "ABORT"
           found == OD_getSub(s, up)
           ready == [found EXCEPT !.st = st]
           clean == [ready EXCEPT !.buf = <<>>, !.rd = 0, !.tran = 0, !.fin = 0]
           read == readFromOd(clean, Seg, FALSE)
           r == NewRequest(s)
<1>1. /\ s.rx.c \notin Requests => st = "ABORT"
      /\ \/ st = "ABORT"
         \/ up /\ s.rx.c \in {"upload", "blkUpload"} /\ st \in UpRequest
         \/ ~up /\ s.rx.c = "download" /\ st = "DOWNLOAD_INITIATE_REQ"
         \/ ~up /\ s.rx.c = "blkDownload" /\ st = "DOWNLOAD_BLK_INITIATE_REQ"
      /\ up \in BOOLEAN
  BY DEF UpRequest, Requests
<1>2. r = IF st = "ABORT" \/ found.st = "ABORT" THEN Stop(s)
          ELSE IF ~up THEN ready
          ELSE IF read.st = "ABORT" THEN read
          ELSE IF read.fin = 1 /\ read.len # Len(read.buf) THEN Stop(read)
          ELSE [read EXCEPT !.ind = IF read.fin = 0 /\ read.idx \in Str THEN 0 ELSE read.len]
  BY DEF NewRequest
<1>3. s \in SrvRecord
  BY DEF SrvBase
<1>4. /\ Stop(s).st = "ABORT" /\ Stop(s).out = s.out /\ Stop(s).od = s.od /\ Stop(s).idx = s.idx
  BY <1>3, StopKeeps
<1>5. found.st = "ABORT" \/ (found.out = s.out /\ found.od = s.od /\ found.idx = s.rx.idx
                             /\ found.pos = 0 /\ found.len = Len(found.od[found.idx])
                             /\ found \in SrvRecord /\ AtPlace(found) /\ SrvBase(found))
  <2> DEFINE e == [s EXCEPT !.idx = s.rx.idx, !.len = Len(s.od[s.rx.idx]), !.pos = 0]
  <2>1. found = Stop(s) \/ found = e
    BY DEF OD_getSub
  <2>2. found = Stop(s) \/ (SrvBase(found) /\ AtPlace(found))
    BY <1>1, SubIs
  <2> HIDE DEF found
  <2>3. e.out = s.out /\ e.od = s.od /\ e.idx = s.rx.idx /\ e.pos = 0 /\ e.len = Len(s.od[s.rx.idx])
    BY ONLY <1>3 DEF SrvRecord
  <2> HIDE DEF e
  <2> QED
    BY ONLY <1>4, <2>1, <2>2, <2>3 DEF SrvBase
<1> HIDE DEF up, st, r, found
<1>6. CASE st = "ABORT" \/ found.st = "ABORT"
  BY ONLY <1>2, <1>4, <1>6 DEF NewlyRequested, r
<1>7. CASE ~(st = "ABORT" \/ found.st = "ABORT")
  <2>0. st \in States
    BY ONLY <1>1, <1>7, StatesAre DEF UpRequest, DownRequest
  <2>1. /\ found.out = s.out /\ found.od = s.od /\ found.idx = s.rx.idx
        /\ found.pos = 0 /\ found.len = Len(found.od[found.idx])
        /\ found \in SrvRecord /\ SrvBase(found) /\ AtPlace(found)
    BY ONLY <1>5, <1>7
  <2>2. /\ ready.out = s.out /\ ready.od = s.od /\ ready.idx = s.rx.idx /\ ready.st = st
        /\ ready.pos = 0 /\ ready.len = Len(ready.od[ready.idx])
    BY ONLY <2>1 DEF SrvRecord
  <2>3. SrvBase(ready) /\ AtPlace(ready) /\ ready \in SrvRecord
    BY ONLY <2>0, <2>1, SrvStateIs DEF SrvBase
  <2> HIDE DEF ready
  <2>4. CASE ~up
    <3>1. r = ready
      BY ONLY <1>2, <1>7, <2>4
    <3> QED
      BY ONLY <1>1, <1>7, <2>2, <2>4, <3>1 DEF NewlyRequested, r
  <2>5. CASE up
    <3>0. <<>> \in Data /\ Len(<<>>) = 0 /\ Buf \in Nat /\ Seg \in Nat /\ FALSE \in BOOLEAN
      BY SdoAssumption DEF Data
    <3>1. clean \in SrvRecord
      BY ONLY <2>3, <3>0, 0 \in Nat DEF SrvRecord, Bit
    <3>2. /\ clean.buf = <<>> /\ clean.rd = 0 /\ clean.fin = 0 /\ clean.pos = ready.pos
          /\ clean.idx = ready.idx /\ clean.len = ready.len /\ clean.od = ready.od
          /\ clean.out = ready.out /\ clean.st = ready.st
      BY ONLY <2>3 DEF SrvRecord
    <3> HIDE DEF clean
    <3>3. Readable(clean)
      BY ONLY <2>3, <3>0, <3>1, <3>2 DEF Readable, AtPlace
    <3>4. Read(read, clean, Seg) /\ read.out = clean.out
      BY ONLY <3>0, <3>1, <3>3, ReadIs, ReadKeeps, FieldsAre DEF Kept
    <3> HIDE DEF read
    <3>5. /\ read.od = s.od /\ read.idx = s.rx.idx /\ read.out = s.out /\ read \in SrvRecord
          /\ read.st = "ABORT" \/ read.st = st
      BY ONLY <2>2, <3>2, <3>4 DEF Read
    <3> DEFINE ind == IF read.fin = 0 /\ read.idx \in Str THEN 0 ELSE read.len
               e == [read EXCEPT !.ind = ind]
    <3>6. e.od = s.od /\ e.idx = s.rx.idx /\ e.out = s.out /\ e.st = read.st
      BY ONLY <3>5 DEF SrvRecord
    <3>7. /\ Stop(read).od = s.od /\ Stop(read).out = s.out /\ Stop(read).st = "ABORT"
      BY ONLY <3>5, StopKeeps
    <3>8. r \in {read, Stop(read)} \/ (r = e /\ read.st # "ABORT")
      BY ONLY <1>2, <1>7, <2>5
    <3>9. s.rx.c \in {"upload", "blkUpload"} /\ st \in UpRequest /\ s.rx.c \in Requests
      BY ONLY <1>1, <1>7, <2>5
    <3> HIDE DEF e
    <3> QED
      BY ONLY <3>5, <3>6, <3>7, <3>8, <3>9 DEF NewlyRequested, r
  <2> QED
    BY ONLY <2>4, <2>5
<1> QED
  BY ONLY <1>6, <1>7

\* The states of an upload.
UpWork == UpStart \cup UpBlock \cup {"UPLOAD_BLK_END_SREQ", "UPLOAD_BLK_END_CRSP"}

\* An upload leaves the dictionary alone.
Unwritten(r, s) == Kept(r, s) /\ r.st \in UpWork \cup {"ABORT"}

LEMMA InitiateBlockUploadKeeps ==
  ASSUME NEW s, DOMAIN s = SrvFields
  PROVE  Unwritten(InitiateBlockUpload(s), s)
<1> DEFINE small == [s EXCEPT !.st = "UPLOAD_INITIATE_RSP"]
           block == [s EXCEPT !.crc = s.buf, !.blk = s.rx.blk, !.st = "UPLOAD_BLK_INITIATE_RSP"]
           r == InitiateBlockUpload(s)
<1>1. r = small \/ r = Stop(s) \/ r = block
  BY DEF InitiateBlockUpload
<1>2. /\ Kept(small, s) /\ small.st = "UPLOAD_INITIATE_RSP"
      /\ Kept(block, s) /\ block.st = "UPLOAD_BLK_INITIATE_RSP"
  BY DEF SrvFields, Kept
<1> HIDE DEF r, small, block
<1> QED
  BY <1>1, <1>2, StopKept DEF Unwritten, r, UpWork, UpStart

LEMMA ConfirmSubBlockKeeps ==
  ASSUME NEW s, DOMAIN s = SrvFields, s.st \in UpBlock
  PROVE  /\ Unwritten(ConfirmSubBlock(s), s)
         /\ s.rx.c # "subBlock" => ConfirmSubBlock(s).st = "ABORT"
<1> DEFINE lost == (s.seq - s.rx.seq) * Seg - s.nod
           back == [s EXCEPT !.rd = @ - lost, !.tran = @ - lost]
           a == IF s.rx.seq < s.seq THEN back ELSE s
           b == [a EXCEPT !.blk = s.rx.blk]
           d == readFromOd(b, s.rx.blk * Seg, TRUE)
           end == [d EXCEPT !.st = "UPLOAD_BLK_END_SREQ"]
           on == [d EXCEPT !.seq = 0, !.st = "UPLOAD_BLK_SUBBLOCK_SREQ"]
           r == ConfirmSubBlock(s)
<1>1. r = IF s.rx.c # "subBlock" \/ s.rx.blk < 1 \/ s.rx.seq > s.seq THEN Stop(s)
          ELSE IF d.st = "ABORT" THEN d ELSE IF Len(d.buf) = d.rd THEN end ELSE on
  BY DEF ConfirmSubBlock
<1>2. Kept(Stop(s), s) /\ Stop(s).st = "ABORT"
  BY StopKept
<1> HIDE DEF lost
<1>3. Kept(back, s) /\ back.st = s.st
  BY DEF SrvFields, Kept
<1> HIDE DEF back
<1>4. Kept(a, s) /\ a.st = s.st
  BY <1>3 DEF Kept
<1> HIDE DEF a
<1>5. Kept(b, s) /\ b.st = s.st
  BY ONLY <1>4 DEF SrvFields, Kept
<1> HIDE DEF b
<1>6. Kept(d, b) /\ d.st \in {b.st, "ABORT"}
  BY ONLY <1>5, ReadKeeps DEF Kept
<1> HIDE DEF d
<1>7. Kept(d, s)
  BY ONLY <1>5, <1>6 DEF Kept
<1>8. Kept(end, s) /\ end.st = "UPLOAD_BLK_END_SREQ" /\ Kept(on, s) /\ on.st = "UPLOAD_BLK_SUBBLOCK_SREQ"
  BY ONLY <1>7 DEF SrvFields, Kept
<1> HIDE DEF end, on, r
<1>9. (r.st = "ABORT" /\ r \in {Stop(s), d}) \/ r = end \/ r = on
  BY ONLY <1>1, <1>2
<1> QED
  BY ONLY <1>1, <1>2, <1>7, <1>8, <1>9 DEF Unwritten, UpWork, UpBlock, r

\* What the server makes of the frame received.
TookDownload(r, s) ==
  /\ s.st = "IDLE" /\ s.rx.c = "download"
  /\ r.st = "DOWNLOAD_INITIATE_RSP" /\ r.idx = s.rx.idx
  /\ \/ /\ s.rx.exp = 1 /\ r.fin = 1
        /\ \E n \in 0..Exped :
             /\ n = IF s.rx.ind > 0 THEN s.rx.ind ELSE Low(Len(s.od[s.rx.idx]), Exped)
             /\ Ends(r.idx, r.od[r.idx], Front_(s.rx.data, n))
     \/ s.rx.exp # 1 /\ r.fin = 0 /\ r.pos = 0 /\ r.len = Len(r.od[r.idx])

TookBlkDownload(r, s) ==
  /\ s.st = "IDLE" /\ s.rx.c = "blkDownload"
  /\ r.st = "DOWNLOAD_BLK_INITIATE_RSP" /\ r.idx = s.rx.idx
  /\ r.pos = 0 /\ r.len = Len(r.od[r.idx])

TookUpload(r, s) ==
  /\ r.st \in UpWork /\ r.od = s.od
  /\ \/ s.st = "IDLE" /\ s.rx.c \in {"upload", "blkUpload"} /\ r.idx = s.rx.idx
     \/ s.st \in UpWork /\ s.rx.c \in {"next", "blkStart", "subBlock"} /\ r.idx = s.idx

Took(r, s) ==
  /\ r.rx = None /\ r.out = s.out
  /\ Sizes(s) => Sizes(r)
  /\ s.st # "IDLE" \/ s.rx.c \notin Requests => r.idx = s.idx
  /\ s.st \in Gone /\ s.rx.c \notin Requests => r.st = "ABORT" /\ r.od = s.od
  /\ \/ r.st = "ABORT"
     \/ TookDownload(r, s)
     \/ TookBlkDownload(r, s)
     \/ s.st = "DOWNLOAD_SEGMENT_REQ" /\ Stored(r, s)
     \/ s.st = "DOWNLOAD_BLK_SUBBLOCK_REQ" /\ r.st = s.st /\ r.od = s.od /\ r.pos = s.pos
          /\ r.len = s.len /\ r.crc = s.crc
     \/ s.st = "DOWNLOAD_BLK_END_REQ" /\ BlockEnded(r, s)
     \/ TookUpload(r, s)

LEMMA TookFields ==
  ASSUME NEW t \in SrvRecord
  PROVE  LET r == [t EXCEPT !.rx = None] IN
         /\ r.st = t.st /\ r.idx = t.idx /\ r.fin = t.fin /\ r.t = t.t /\ r.buf = t.buf
         /\ r.crc = t.crc /\ r.out = t.out /\ r.pos = t.pos /\ r.len = t.len /\ r.od = t.od
         /\ r.rx = None
BY DEF SrvRecord

\* A request, by a server that was idle.
LEMMA IdleTakes ==
  ASSUME NEW s, SrvOK(s), s.rx \in Frames, s.st = "IDLE"
  PROVE  Took(SrvTake(s), s)
<1> DEFINE q == NewRequest(s)
           e == SrvTaken(q)
           r == [e EXCEPT !.rx = None]
<1>1. SrvTake(s) = r
  BY DEF SrvTake
<1>2. SrvBase(s) /\ s \in SrvRecord
  BY DEF SrvOK, SrvBase
<1>3. SrvBase(q) /\ q.rx = s.rx /\ Requested(q) /\ NewlyRequested(q, s) /\ q \in SrvRecord
  <2>1. SrvBase(q) /\ q.rx = s.rx /\ Requested(q) /\ NewlyRequested(q, s)
    BY <1>2, NewRequestIs, NewRequestDoes
  <2> QED
    BY <2>1 DEF SrvBase
<1>4. e \in SrvRecord
  <2> HIDE DEF q
  <2>1. q.rx \in Frames
    BY <1>3
  <2> QED
    BY ONLY <1>3, <2>1, SrvTakenOK DEF SrvOK, SrvBase
<1>5. q.out = s.out /\ q.od = s.od
  BY ONLY <1>3 DEF NewlyRequested
<1>6. CASE q.st = "ABORT"
  <2>1. e = q
    BY ONLY <1>6 DEF SrvTaken
  <2> HIDE DEF q
  <2>2. r.rx = None /\ r.out = s.out /\ r.od = s.od /\ r.st = "ABORT" /\ r.idx = q.idx
    BY ONLY <1>4, <1>5, <1>6, <2>1, TookFields
  <2>3. s.rx.c \notin Requests => q.idx = s.idx
    BY ONLY <1>3 DEF NewlyRequested
  <2> HIDE DEF e, r
  <2> QED
    BY ONLY <1>1, <2>2, <2>3, s.st = "IDLE" DEF Took, Sizes
<1> HIDE DEF q
<1>7. CASE s.rx.c = "download" /\ q.st = "DOWNLOAD_INITIATE_REQ" /\ q.idx = s.rx.idx /\ q.pos = 0 /\ q.len = Len(q.od[q.idx])
  <2>1. e = InitiateDownload(q)
    BY ONLY <1>7 DEF SrvTaken
  <2>2. AtPlace(q)
    BY ONLY <1>3, <1>7 DEF Requested, DownRequest, UpRequest
  <2>3. Initiated(e, q)
    BY ONLY <1>3, <1>7, <2>1, <2>2, s.rx \in Frames, InitiateDownloadDoes
  <2> HIDE DEF e
  <2>4. /\ r.st = e.st /\ r.idx = e.idx /\ r.fin = e.fin /\ r.out = e.out /\ r.pos = e.pos
        /\ r.len = e.len /\ r.od = e.od /\ r.rx = None
    BY ONLY <1>4, TookFields
  <2> HIDE DEF r
  <2>5. /\ e.idx = q.idx /\ e.out = q.out /\ (Sizes(q) => Sizes(e))
        /\ \/ e.st = "ABORT"
           \/ /\ s.rx.exp = 1 /\ e.st = "DOWNLOAD_INITIATE_RSP" /\ e.fin = 1
              /\ Expedite(q) \in Nat /\ Expedite(q) <= Exped
              /\ Ends(q.idx, e.od[q.idx], Front_(s.rx.data, Expedite(q)))
           \/ /\ s.rx.exp # 1 /\ e.st = "DOWNLOAD_INITIATE_RSP" /\ e.fin = 0
              /\ e.od = q.od /\ e.pos = q.pos /\ e.len = q.len
    BY ONLY <1>3, <2>3 DEF Initiated
  <2>6. e.st = "ABORT" \/ TookDownload(r, s)
    <3>1. CASE /\ s.rx.exp = 1 /\ e.st = "DOWNLOAD_INITIATE_RSP" /\ e.fin = 1
               /\ Expedite(q) \in Nat /\ Expedite(q) <= Exped
               /\ Ends(q.idx, e.od[q.idx], Front_(s.rx.data, Expedite(q)))
      <4>1. Expedite(q) = IF s.rx.ind > 0 THEN s.rx.ind ELSE Low(Len(s.od[s.rx.idx]), Exped)
        BY ONLY <1>3, <1>5, <1>7 DEF Expedite
      <4>2. Expedite(q) \in 0..Exped
        BY ONLY <3>1, SdoAssumption
      <4>3. Ends(r.idx, r.od[r.idx], Front_(s.rx.data, Expedite(q)))
        BY ONLY <2>4, <2>5, <3>1
      <4>4. r.st = "DOWNLOAD_INITIATE_RSP" /\ r.idx = s.rx.idx /\ r.fin = 1
        BY ONLY <1>7, <2>4, <2>5, <3>1
      <4> DEFINE m == Expedite(q)
      <4> HIDE DEF m
      <4> QED
        BY ONLY <1>7, <3>1, <4>1, <4>2, <4>3, <4>4, s.st = "IDLE", Zenon DEF TookDownload
    <3>2. CASE /\ s.rx.exp # 1 /\ e.st = "DOWNLOAD_INITIATE_RSP" /\ e.fin = 0
               /\ e.od = q.od /\ e.pos = q.pos /\ e.len = q.len
      BY ONLY <1>7, <2>4, <2>5, <3>2, s.st = "IDLE" DEF TookDownload
    <3> QED
      BY ONLY <2>5, <3>1, <3>2
  <2>7. Sizes(s) => Sizes(r)
    BY ONLY <1>5, <2>4, <2>5 DEF Sizes
  <2>8. r.out = s.out /\ s.rx.c \in Requests
    BY ONLY <1>5, <1>7, <2>4, <2>5 DEF Requests
  <2> QED
    BY ONLY <1>1, <2>4, <2>6, <2>7, <2>8, s.st = "IDLE" DEF Took
<1>8. CASE s.rx.c = "blkDownload" /\ q.st = "DOWNLOAD_BLK_INITIATE_REQ" /\ q.idx = s.rx.idx /\ q.pos = 0 /\ q.len = Len(q.od[q.idx])
  <2> DEFINE good == [q EXCEPT !.st = "DOWNLOAD_BLK_INITIATE_RSP", !.ind = q.rx.ind, !.fin = 0]
  <2>1. e \in {good, Stop(q)}
    BY ONLY <1>8 DEF SrvTaken
  <2>2. /\ good.st = "DOWNLOAD_BLK_INITIATE_RSP" /\ good.idx = q.idx /\ good.out = q.out
        /\ good.pos = q.pos /\ good.len = q.len /\ good.od = q.od
    BY ONLY <1>3 DEF SrvRecord
  <2>3. Stop(q).st = "ABORT" /\ Stop(q).out = q.out /\ Stop(q).od = q.od /\ Stop(q).idx = q.idx
    BY ONLY <1>3, StopKeeps
  <2> HIDE DEF e, good
  <2>4. /\ r.st = e.st /\ r.idx = e.idx /\ r.out = e.out /\ r.pos = e.pos
        /\ r.len = e.len /\ r.od = e.od /\ r.rx = None
    BY ONLY <1>4, TookFields
  <2> HIDE DEF r
  <2>5. s.rx.c \in Requests
    BY ONLY <1>8 DEF Requests
  <2>6. r.out = s.out /\ r.od = s.od
    BY ONLY <1>5, <2>1, <2>2, <2>3, <2>4
  <2>7. r.st = "ABORT" \/ TookBlkDownload(r, s)
    BY ONLY <1>8, <2>1, <2>2, <2>3, <2>4, s.st = "IDLE" DEF TookBlkDownload
  <2> QED
    BY ONLY <1>1, <2>4, <2>5, <2>6, <2>7, s.st = "IDLE" DEF Took, Sizes
<1>9. CASE q.idx = s.rx.idx /\ s.rx.c \in {"upload", "blkUpload"} /\ q.st \in UpRequest
  <2>1. DOMAIN q = SrvFields
    BY <1>3, FieldsAre
  <2> DEFINE small == [q EXCEPT !.st = "UPLOAD_INITIATE_RSP"]
  <2>2. e = small \/ e = InitiateBlockUpload(q)
    BY ONLY <1>9 DEF SrvTaken, UpRequest
  <2>3. Unwritten(small, q)
    <3>1. Kept(small, q) /\ small.st = "UPLOAD_INITIATE_RSP"
      BY ONLY <2>1 DEF Kept, SrvFields
    <3> QED
      BY ONLY <3>1 DEF Unwritten, UpWork, UpStart
  <2>4. Unwritten(InitiateBlockUpload(q), q)
    BY <2>1, InitiateBlockUploadKeeps
  <2> HIDE DEF e, small
  <2>5. e.od = q.od /\ e.idx = q.idx /\ e.out = q.out /\ e.st \in UpWork \cup {"ABORT"}
    BY ONLY <2>2, <2>3, <2>4 DEF Unwritten, Kept
  <2>6. r.st = e.st /\ r.idx = e.idx /\ r.out = e.out /\ r.od = e.od /\ r.rx = None
    BY ONLY <1>4, TookFields
  <2> HIDE DEF r
  <2>7. s.rx.c \in Requests
    BY ONLY <1>9 DEF Requests
  <2>8. r.st = "ABORT" \/ TookUpload(r, s)
    BY ONLY <1>5, <1>9, <2>5, <2>6, s.st = "IDLE" DEF TookUpload
  <2> QED
    BY ONLY <1>1, <1>5, <2>5, <2>6, <2>7, <2>8, s.st = "IDLE" DEF Took, Sizes
<1> QED
  BY ONLY <1>3, <1>6, <1>7, <1>8, <1>9 DEF NewlyRequested

\* A frame of a transfer that is on its way.
LEMMA BusyTakes ==
  ASSUME NEW s, SrvOK(s), s.rx \in Frames, s.st # "IDLE"
  PROVE  Took(SrvTake(s), s)
<1> DEFINE e == SrvTaken(s)
           r == [e EXCEPT !.rx = None]
<1>1. SrvTake(s) = r
  BY DEF SrvTake
<1>2. s \in SrvRecord /\ DOMAIN s = SrvFields
  BY FieldsAre DEF SrvOK, SrvBase
<1>3. e \in SrvRecord
  BY SrvTakenOK DEF SrvOK, SrvBase
<1>4. /\ r.st = e.st /\ r.idx = e.idx /\ r.fin = e.fin /\ r.t = e.t /\ r.buf = e.buf
      /\ r.crc = e.crc /\ r.out = e.out /\ r.pos = e.pos /\ r.len = e.len /\ r.od = e.od
      /\ r.rx = None
  BY ONLY <1>3, TookFields
<1>5. /\ Stop(s).st = "ABORT" /\ Stop(s).out = s.out /\ Stop(s).od = s.od /\ Stop(s).idx = s.idx
  BY ONLY <1>2, StopKeeps
<1> HIDE DEF r
<1>6. ASSUME e.st = "ABORT", e.out = s.out, e.od = s.od, e.idx = s.idx
      PROVE  Took(r, s)
  <2> HIDE DEF e
  <2> QED
    BY ONLY <1>4, <1>6 DEF Took, Sizes
<1>7. CASE s.st = "ABORT"
  <2>1. e = s
    BY ONLY <1>7 DEF SrvTaken
  <2> QED
    BY ONLY <1>1, <1>6, <1>7, <2>1
<1>8. CASE s.st = "DOWNLOAD_SEGMENT_REQ"
  <2>1. e = DownloadSegment(s)
    BY ONLY <1>8 DEF SrvTaken
  <2>2. Stored(e, s)
    BY ONLY <1>8, <2>1, SrvOK(s), s.rx \in Frames, DownloadSegmentDoes
  <2> HIDE DEF e
  <2>3. Stored(r, s)
    BY ONLY <1>4, <2>2 DEF Stored, Sizes
  <2>4. r.rx = None /\ r.out = s.out /\ r.idx = s.idx /\ (Sizes(s) => Sizes(r))
    BY ONLY <1>4, <2>3 DEF Stored
  <2> QED
    BY ONLY <1>1, <1>8, <2>3, <2>4 DEF Took, Gone
<1>9. CASE s.st = "DOWNLOAD_BLK_END_REQ"
  <2>1. e = EndBlockDownload(s)
    BY ONLY <1>9 DEF SrvTaken
  <2>2. BlockEnded(e, s)
    BY ONLY <1>9, <2>1, SrvOK(s), s.rx \in Frames, EndBlockDownloadDoes
  <2> HIDE DEF e
  <2>3. BlockEnded(r, s)
    BY ONLY <1>4, <2>2 DEF BlockEnded, Sizes
  <2>4. r.rx = None /\ r.out = s.out /\ r.idx = s.idx /\ (Sizes(s) => Sizes(r))
    BY ONLY <1>4, <2>3 DEF BlockEnded
  <2> QED
    BY ONLY <1>1, <1>9, <2>3, <2>4 DEF Took, Gone
<1>10. CASE s.st = "DOWNLOAD_BLK_SUBBLOCK_REQ"
  <2>1. e = s
    BY ONLY <1>10 DEF SrvTaken
  <2> HIDE DEF e
  <2> QED
    BY ONLY <1>1, <1>4, <1>10, <2>1 DEF Took, Gone, Sizes
<1>11. CASE s.st \in {"UPLOAD_SEGMENT_REQ", "UPLOAD_BLK_INITIATE_REQ2", "UPLOAD_BLK_SUBBLOCK_SREQ",
                      "UPLOAD_BLK_SUBBLOCK_CRSP"}
  <2>1. Unwritten(e, s) /\ (e.st # "ABORT" => s.rx.c \in {"next", "blkStart", "subBlock"})
    <3>1. CASE s.st = "UPLOAD_SEGMENT_REQ"
      <4> DEFINE good == [s EXCEPT !.st = "UPLOAD_SEGMENT_RSP"]
      <4>1. e = Stop(s) \/ (e = good /\ s.rx.c = "next")
        BY ONLY <3>1 DEF SrvTaken
      <4>2. Kept(good, s) /\ good.st = "UPLOAD_SEGMENT_RSP"
        BY ONLY <1>2 DEF Kept, SrvFields
      <4> HIDE DEF e, good
      <4> QED
        BY ONLY <1>2, <4>1, <4>2, StopKept DEF Unwritten, UpWork, UpStart
    <3>2. CASE s.st = "UPLOAD_BLK_INITIATE_REQ2"
      <4> DEFINE good == [s EXCEPT !.seq = 0, !.st = "UPLOAD_BLK_SUBBLOCK_SREQ"]
      <4>1. e = Stop(s) \/ (e = good /\ s.rx.c = "blkStart")
        BY ONLY <3>2 DEF SrvTaken
      <4>2. Kept(good, s) /\ good.st = "UPLOAD_BLK_SUBBLOCK_SREQ"
        BY ONLY <1>2 DEF Kept, SrvFields
      <4> HIDE DEF e, good
      <4> QED
        BY ONLY <1>2, <4>1, <4>2, StopKept DEF Unwritten, UpWork, UpBlock
    <3>3. CASE s.st \in UpBlock
      <4>1. e = ConfirmSubBlock(s)
        BY ONLY <3>3 DEF SrvTaken, UpBlock
      <4> QED
        BY ONLY <1>2, <3>3, <4>1, ConfirmSubBlockKeeps
    <3> QED
      BY ONLY <1>11, <3>1, <3>2, <3>3 DEF UpBlock
  <2> HIDE DEF e
  <2>2. s.st \in UpWork
    BY ONLY <1>11 DEF UpWork, UpStart, UpBlock
  <2>3. r.st = "ABORT" \/ TookUpload(r, s)
    BY ONLY <1>4, <2>1, <2>2 DEF TookUpload, Unwritten, Kept
  <2>4. r.rx = None /\ r.out = s.out /\ r.od = s.od /\ r.idx = s.idx
    BY ONLY <1>4, <2>1 DEF Unwritten, Kept
  <2> QED
    BY ONLY <1>1, <1>11, <2>3, <2>4 DEF Took, Gone, Sizes
<1>12. CASE s.st \notin {"ABORT", "DOWNLOAD_SEGMENT_REQ", "DOWNLOAD_BLK_END_REQ", "DOWNLOAD_BLK_SUBBLOCK_REQ",
                      "UPLOAD_SEGMENT_REQ", "UPLOAD_BLK_INITIATE_REQ2", "UPLOAD_BLK_SUBBLOCK_SREQ",
                      "UPLOAD_BLK_SUBBLOCK_CRSP"}
  <2>1. s.st \notin DownRequest \cup UpRequest
    BY DEF SrvOK, SrvAt
  <2>2. e = Stop(s)
    BY ONLY <1>12, <2>1 DEF SrvTaken, DownRequest, UpRequest
  <2> QED
    BY ONLY <1>1, <1>5, <1>6, <2>2
<1> QED
  BY ONLY <1>1, <1>7, <1>8, <1>9, <1>10, <1>11, <1>12

LEMMA SrvTakes ==
  ASSUME NEW s, SrvOK(s), s.rx \in Frames
  PROVE  Took(SrvTake(s), s)
BY IdleTakes, BusyTakes

\* What the server gives: the frame sent, and where it stands afterwards.
GaveAbort(e, s) ==
  /\ s.st \in {"ABORT", "DOWNLOAD_BLK_SUBBLOCK_RSP"} \cup UpWork
  /\ e.st = "IDLE" /\ e.out = <<abort>>
  /\ s.st # "DOWNLOAD_BLK_SUBBLOCK_RSP" => e.od = s.od

GaveInitiated(e, s) ==
  /\ s.st = "DOWNLOAD_INITIATE_RSP"
  /\ e.od = s.od /\ e.pos = s.pos /\ e.len = s.len
  /\ \E g \in Frames : e.out = <<g>> /\ g.c \notin Noise
  /\ \/ s.fin = 1 /\ e.st = "IDLE"
     \/ s.fin = 0 /\ e.st = "DOWNLOAD_SEGMENT_REQ" /\ e.t = 0 /\ e.buf = <<>>

GaveSegment(e, s) ==
  /\ s.st = "DOWNLOAD_SEGMENT_RSP"
  /\ e.od = s.od /\ e.pos = s.pos /\ e.len = s.len /\ e.buf = s.buf
  /\ \E g \in Frames : e.out = <<g>> /\ g.c \notin Noise
  /\ \/ s.fin = 1 /\ e.st = "IDLE"
     \/ s.fin = 0 /\ e.st = "DOWNLOAD_SEGMENT_REQ" /\ e.t = 1 - s.t

GaveBlock(e, s) ==
  /\ s.st = "DOWNLOAD_BLK_INITIATE_RSP" /\ e.st = "DOWNLOAD_BLK_SUBBLOCK_REQ"
  /\ e.od = s.od /\ e.pos = s.pos /\ e.len = s.len /\ e.crc = <<>>
  /\ \E g \in Frames : e.out = <<g>> /\ g.c = "blkDownloadOk"

GaveSubBlock(e, s) ==
  /\ s.st = "DOWNLOAD_BLK_SUBBLOCK_RSP"
  /\ e.st \in {"DOWNLOAD_BLK_END_REQ", "DOWNLOAD_BLK_SUBBLOCK_REQ"}
  /\ e.st = "DOWNLOAD_BLK_END_REQ" => e.fin = 1
  /\ \E g \in Frames : e.out = <<g>> /\ g.c = "subBlock"
  /\ Cover(s) => Cover(e)

GaveEnd(e, s) ==
  /\ s.st = "DOWNLOAD_BLK_END_RSP" /\ e.st = "IDLE" /\ e.od = s.od
  /\ \E g \in Frames : e.out = <<g>> /\ g.c = "blkEndOk"

GaveUpload(e, s) ==
  /\ s.st \in UpWork /\ e.st \in UpWork \cup {"IDLE"} /\ e.od = s.od
  /\ \E g \in Frames : e.out = <<g>>

Gave(e, s) ==
  /\ e.rx \in {s.rx, None} /\ e.idx = s.idx
  /\ Sizes(s) => Sizes(e)
  /\ \/ GaveAbort(e, s) \/ GaveInitiated(e, s) \/ GaveSegment(e, s) \/ GaveBlock(e, s)
     \/ GaveSubBlock(e, s) \/ GaveEnd(e, s) \/ GaveUpload(e, s)
     \/ s.st \in SrvWaits /\ e = s

\* What is sent of an upload.
UpSent(r, s) ==
  /\ r.od = s.od /\ r.idx = s.idx /\ r.rx = s.rx
  /\ \/ r.st = "ABORT"
     \/ r.st \in UpWork \cup {"IDLE"} /\ \E g : r.out = <<g>>

LEMMA AnswerUploadSends ==
  ASSUME NEW s, DOMAIN s = SrvFields
  PROVE  UpSent(AnswerUpload(s), s)
<1> DEFINE a == [s EXCEPT !.st = "IDLE"]
           b == [s EXCEPT !.st = "UPLOAD_SEGMENT_REQ", !.t = 0]
           f == [Frame("uploadOk") EXCEPT !.idx = s.idx, !.exp = 1, !.ind = s.ind,
                                          !.data = Front_(s.buf, s.ind)]
           g == [Frame("uploadOk") EXCEPT !.idx = s.idx, !.ind = s.ind]
           r == AnswerUpload(s)
<1>1. r = Send(a, f) \/ r = Send(b, g)
  BY DEF AnswerUpload
<1> HIDE DEF f, g, r
<1>2. /\ a.od = s.od /\ a.idx = s.idx /\ a.rx = s.rx /\ a.st = "IDLE" /\ DOMAIN a = SrvFields
      /\ b.od = s.od /\ b.idx = s.idx /\ b.rx = s.rx /\ b.st = "UPLOAD_SEGMENT_REQ" /\ DOMAIN b = SrvFields
  BY DEF SrvFields
<1> HIDE DEF a, b
<1>3. /\ Send(a, f).od = s.od /\ Send(a, f).idx = s.idx /\ Send(a, f).rx = s.rx
      /\ Send(a, f).st = "IDLE" /\ Send(a, f).out = <<f>>
      /\ Send(b, g).od = s.od /\ Send(b, g).idx = s.idx /\ Send(b, g).rx = s.rx
      /\ Send(b, g).st = "UPLOAD_SEGMENT_REQ" /\ Send(b, g).out = <<g>>
  BY ONLY <1>2 DEF Send, SrvFields
<1> QED
  BY ONLY <1>1, <1>3 DEF UpSent, UpWork, UpStart, r

LEMMA AnswerSegmentSends ==
  ASSUME NEW s, s \in SrvRecord, Readable(s), s.st = "UPLOAD_SEGMENT_RSP"
  PROVE  UpSent(AnswerSegment(s), s)
<1> DEFINE q == readFromOd(s, Seg, FALSE)
           left == Len(q.buf) - q.rd
           last == left < Seg \/ (q.fin = 1 /\ left = Seg)
           n == Low(left, Seg)
           st == IF last THEN "IDLE" ELSE "UPLOAD_SEGMENT_REQ"
           a == [q EXCEPT !.t = 1 - @, !.rd = @ + n, !.tran = @ + n, !.st = st]
           wrong == a.ind > 0 /\ (a.tran > a.ind \/ (last /\ a.tran < a.ind))
           f == [Frame("segment") EXCEPT !.t = q.t, !.last = IF last THEN 1 ELSE 0,
                                         !.data = SubSeq(q.buf, q.rd + 1, q.rd + n)]
           r == AnswerSegment(s)
<1>1. r = IF q.st = "ABORT" THEN q ELSE IF wrong THEN Stop(a) ELSE Send(a, f)
  BY DEF AnswerSegment
<1>2. Seg \in Nat /\ FALSE \in BOOLEAN /\ DOMAIN s = SrvFields
  BY FieldsAre, SdoAssumption
<1>3. Kept(q, s) /\ q.rx = s.rx
  BY ONLY <1>2, ReadKeeps, ReadIs, Readable(s), SdoAssumption DEF Read
<1> HIDE DEF q, r, f, n, wrong
<1>4. st \in UpWork \cup {"IDLE"}
  BY DEF UpWork, UpStart
<1> HIDE DEF st, last
<1>5. a.od = s.od /\ a.idx = s.idx /\ a.rx = s.rx /\ a.st = st /\ DOMAIN a = SrvFields
  BY ONLY <1>3 DEF Kept, SrvFields
<1> HIDE DEF a
<1>6. /\ Stop(a).od = s.od /\ Stop(a).idx = s.idx /\ Stop(a).rx = s.rx /\ Stop(a).st = "ABORT"
      /\ Send(a, f).od = s.od /\ Send(a, f).idx = s.idx /\ Send(a, f).rx = s.rx
      /\ Send(a, f).st = st /\ Send(a, f).out = <<f>>
  BY ONLY <1>5 DEF Stop, Send, SrvFields
<1> QED
  BY ONLY <1>1, <1>3, <1>4, <1>6 DEF UpSent, Kept, r

LEMMA SendBlockSegmentSends ==
  ASSUME NEW s, DOMAIN s = SrvFields, s.st = "UPLOAD_BLK_SUBBLOCK_SREQ"
  PROVE  UpSent(SendBlockSegment(s), s)
<1> DEFINE left == Len(s.buf) - s.rd
           last == left < Seg \/ (s.fin = 1 /\ left = Seg)
           n == Low(left, Seg)
           a == [s EXCEPT !.seq = @ + 1, !.rd = @ + n, !.nod = Seg - n, !.tran = @ + n]
           done == a.rd = Len(a.buf)
           wrong == a.ind > 0 /\ (a.tran > a.ind \/ (done /\ a.tran < a.ind))
           st == IF done \/ a.seq >= a.blk THEN "UPLOAD_BLK_SUBBLOCK_CRSP" ELSE a.st
           b == [a EXCEPT !.st = st]
           f == [Frame("block") EXCEPT !.seq = a.seq, !.last = IF last THEN 1 ELSE 0,
                                       !.data = Pad(SubSeq(s.buf, s.rd + 1, s.rd + n))]
           r == SendBlockSegment(s)
<1>1. r = IF wrong THEN Stop(a) ELSE Send(b, f)
  BY DEF SendBlockSegment
<1> HIDE DEF r, f, n, wrong, done
<1>2. a.od = s.od /\ a.idx = s.idx /\ a.rx = s.rx /\ a.st = s.st /\ DOMAIN a = SrvFields
  BY DEF SrvFields
<1> HIDE DEF a
<1>3. st \in UpWork
  BY <1>2 DEF UpWork, UpBlock
<1> HIDE DEF st
<1>4. b.od = s.od /\ b.idx = s.idx /\ b.rx = s.rx /\ b.st = st /\ DOMAIN b = SrvFields
  BY ONLY <1>2 DEF SrvFields
<1> HIDE DEF b
<1>5. /\ Stop(a).od = s.od /\ Stop(a).idx = s.idx /\ Stop(a).rx = s.rx /\ Stop(a).st = "ABORT"
      /\ Send(b, f).od = s.od /\ Send(b, f).idx = s.idx /\ Send(b, f).rx = s.rx
      /\ Send(b, f).st = st /\ Send(b, f).out = <<f>>
  BY ONLY <1>2, <1>4 DEF Stop, Send, SrvFields
<1> QED
  BY ONLY <1>1, <1>3, <1>5 DEF UpSent, r

LEMMA SendAbortDoes ==
  ASSUME NEW e, DOMAIN e = SrvFields
  PROVE  /\ e.st # "ABORT" => SendAbort(e) = e
         /\ e.st = "ABORT" => /\ SendAbort(e).st = "IDLE" /\ SendAbort(e).out = <<abort>>
                              /\ SendAbort(e).od = e.od /\ SendAbort(e).idx = e.idx
                              /\ SendAbort(e).rx = e.rx
<1> DEFINE a == [e EXCEPT !.st = "IDLE"]
<1>1. a.od = e.od /\ a.idx = e.idx /\ a.rx = e.rx /\ a.st = "IDLE" /\ DOMAIN a = SrvFields
  BY DEF SrvFields
<1>2. e.st = "ABORT" => SendAbort(e) = Send(a, abort)
  BY DEF SendAbort
<1>3. e.st # "ABORT" => SendAbort(e) = e
  BY DEF SendAbort
<1> HIDE DEF a
<1>4. /\ Send(a, abort).od = e.od /\ Send(a, abort).idx = e.idx /\ Send(a, abort).rx = e.rx
      /\ Send(a, abort).st = "IDLE" /\ Send(a, abort).out = <<abort>>
  BY ONLY <1>1 DEF Send, SrvFields
<1> QED
  BY ONLY <1>2, <1>3, <1>4

LEMMA AnswerFrames ==
  ASSUME NEW idx \in Obj \cup {None}, NEW t \in Bit, NEW n \in Nat
  PROVE  /\ LET f == [Frame("downloadOk") EXCEPT !.idx = idx] IN f \in Frames /\ f.c = "downloadOk"
         /\ LET f == [Frame("segmentOk") EXCEPT !.t = t] IN f \in Frames /\ f.c = "segmentOk"
         /\ LET f == [Frame("blkDownloadOk") EXCEPT !.idx = idx, !.blk = n] IN
            f \in Frames /\ f.c = "blkDownloadOk"
         /\ Frame("blkEndOk") \in Frames /\ Frame("blkEndOk").c = "blkEndOk"
<1>1. /\ {"downloadOk", "segmentOk", "blkDownloadOk", "blkEndOk"} \subseteq Commands \ {"block", "blkEnd"}
      /\ {"downloadOk", "segmentOk", "blkDownloadOk", "blkEndOk"} \subseteq Commands
  BY DEF Commands
<1>2. 0 \in Nat /\ 0 \in Bit /\ None \in Obj \cup {None}
  BY DEF Bit
<1>3. /\ [Frame("downloadOk") EXCEPT !.idx = idx] \in Frames
      /\ [Frame("segmentOk") EXCEPT !.t = t] \in Frames
      /\ [Frame("blkDownloadOk") EXCEPT !.idx = idx, !.blk = n] \in Frames
      /\ Frame("blkEndOk") \in Frames
  BY <1>1, <1>2, PlainFrame
<1>4. ASSUME NEW c \in {"downloadOk", "segmentOk", "blkDownloadOk", "blkEndOk"}
      PROVE  Frame(c) \in FrameRecord /\ Frame(c).c = c
  BY <1>1, FrameOf
<1>5. /\ [Frame("downloadOk") EXCEPT !.idx = idx].c = Frame("downloadOk").c
      /\ [Frame("segmentOk") EXCEPT !.t = t].c = Frame("segmentOk").c
      /\ [Frame("blkDownloadOk") EXCEPT !.idx = idx, !.blk = n].c = Frame("blkDownloadOk").c
  BY <1>4 DEF FrameRecord
<1> QED
  BY ONLY <1>3, <1>4, <1>5

LEMMA SrvGives ==
  ASSUME NEW s, SrvOK(s)
  PROVE  Gave(SendAbort(SrvSend(s)), s)
<1> DEFINE q == SrvSend(s)
           e == SendAbort(q)
<1> SUFFICES Gave(e, s)
  OBVIOUS
<1>1. /\ s \in SrvRecord /\ DOMAIN s = SrvFields /\ s.fin \in Bit /\ s.t \in Bit
      /\ s.idx \in Obj \cup {None}
  BY FieldsAre DEF SrvOK, SrvBase, SrvRecord
<1>2. q \in SrvRecord /\ DOMAIN q = SrvFields /\ q.out \in Seq(Frames)
  BY SrvSendOK, FieldsAre DEF SrvOK, SrvBase, SrvRecord
<1>3. /\ q.st # "ABORT" => e = q
      /\ q.st = "ABORT" => /\ e.st = "IDLE" /\ e.out = <<abort>> /\ e.od = q.od /\ e.idx = q.idx /\ e.rx = q.rx
  BY ONLY <1>2, SendAbortDoes
<1> HIDE DEF e
<1>4. CASE s.st = "DOWNLOAD_INITIATE_RSP"
  <2> DEFINE a == [s EXCEPT !.st = "IDLE"]
             b == [s EXCEPT !.t = 0, !.tran = 0, !.buf = <<>>, !.rd = 0, !.st = "DOWNLOAD_SEGMENT_REQ"]
             p == IF s.fin = 1 THEN a ELSE b
             f == [Frame("downloadOk") EXCEPT !.idx = s.idx]
  <2>1. q = Send(p, f)
    BY ONLY <1>4 DEF SrvSend
  <2>2. f \in Frames /\ f.c = "downloadOk"
    BY ONLY <1>1, AnswerFrames, 0 \in Nat
  <2> HIDE DEF f, q
  <2>3. /\ a.od = s.od /\ a.idx = s.idx /\ a.rx = s.rx /\ a.st = "IDLE" /\ DOMAIN a = SrvFields
        /\ a.pos = s.pos /\ a.len = s.len
        /\ b.od = s.od /\ b.idx = s.idx /\ b.rx = s.rx /\ b.st = "DOWNLOAD_SEGMENT_REQ" /\ DOMAIN b = SrvFields
        /\ b.pos = s.pos /\ b.len = s.len /\ b.t = 0 /\ b.buf = <<>>
    BY ONLY <1>1 DEF SrvFields
  <2> HIDE DEF a, b
  <2>4. /\ p.od = s.od /\ p.idx = s.idx /\ p.rx = s.rx /\ p.pos = s.pos /\ p.len = s.len
        /\ DOMAIN p = SrvFields
        /\ \/ s.fin = 1 /\ p.st = "IDLE"
           \/ s.fin = 0 /\ p.st = "DOWNLOAD_SEGMENT_REQ" /\ p.t = 0 /\ p.buf = <<>>
    BY ONLY <1>1, <2>3 DEF Bit
  <2> HIDE DEF p
  <2>5. /\ q.od = p.od /\ q.idx = p.idx /\ q.rx = p.rx /\ q.pos = p.pos /\ q.len = p.len
        /\ q.st = p.st /\ q.t = p.t /\ q.buf = p.buf /\ q.out = <<f>>
    BY ONLY <2>1, <2>4 DEF Send, SrvFields
  <2>6. e = q
    BY ONLY <1>3, <2>4, <2>5
  <2>7. GaveInitiated(e, s)
    BY ONLY <1>4, <2>2, <2>4, <2>5, <2>6 DEF GaveInitiated, Noise
  <2> QED
    BY ONLY <2>4, <2>5, <2>6, <2>7 DEF Gave, Sizes
<1>5. CASE s.st = "DOWNLOAD_SEGMENT_RSP"
  <2> DEFINE st == IF s.fin = 1 THEN "IDLE" ELSE "DOWNLOAD_SEGMENT_REQ"
             p == [s EXCEPT !.t = 1 - @, !.st = st]
             f == [Frame("segmentOk") EXCEPT !.t = s.t]
  <2>1. q = Send(p, f)
    BY ONLY <1>5 DEF SrvSend
  <2>2. f \in Frames /\ f.c = "segmentOk"
    BY ONLY <1>1, AnswerFrames, 0 \in Nat
  <2>3. (s.fin = 1 /\ st = "IDLE") \/ (s.fin = 0 /\ st = "DOWNLOAD_SEGMENT_REQ")
    BY ONLY <1>1 DEF Bit
  <2> HIDE DEF f, q, st
  <2>4. /\ p.od = s.od /\ p.idx = s.idx /\ p.rx = s.rx /\ p.st = st /\ DOMAIN p = SrvFields
        /\ p.pos = s.pos /\ p.len = s.len /\ p.buf = s.buf /\ p.t = 1 - s.t
    BY ONLY <1>1 DEF SrvFields
  <2> HIDE DEF p
  <2>5. /\ q.od = p.od /\ q.idx = p.idx /\ q.rx = p.rx /\ q.pos = p.pos /\ q.len = p.len
        /\ q.st = p.st /\ q.t = p.t /\ q.buf = p.buf /\ q.out = <<f>>
    BY ONLY <2>1, <2>4 DEF Send, SrvFields
  <2>6. e = q
    BY ONLY <1>3, <2>3, <2>4, <2>5
  <2>7. GaveSegment(e, s)
    BY ONLY <1>5, <2>2, <2>3, <2>4, <2>5, <2>6 DEF GaveSegment, Noise
  <2> QED
    BY ONLY <2>4, <2>5, <2>6, <2>7 DEF Gave, Sizes
<1>6. CASE s.st = "DOWNLOAD_BLK_INITIATE_RSP"
  <2> DEFINE n == BlockSize([s EXCEPT !.buf = <<>>])
             p == [s EXCEPT !.blk = n, !.tran = 0, !.fin = 0, !.buf = <<>>, !.rd = 0, !.seq = 0,
                            !.crc = <<>>, !.rx = None, !.half = 0, !.st = "DOWNLOAD_BLK_SUBBLOCK_REQ"]
             f == [Frame("blkDownloadOk") EXCEPT !.idx = s.idx, !.blk = n]
  <2>1. q = Send(p, f)
    BY ONLY <1>6 DEF SrvSend
  <2>2. f.c = "blkDownloadOk"
    <3>1. Frame("blkDownloadOk").c = "blkDownloadOk" /\ Frame("blkDownloadOk") \in FrameRecord
      BY FrameOf DEF Commands
    <3> HIDE DEF n
    <3> QED
      BY ONLY <3>1 DEF FrameRecord
  <2> HIDE DEF f, n
  <2>3. /\ p.od = s.od /\ p.idx = s.idx /\ p.rx = None /\ p.st = "DOWNLOAD_BLK_SUBBLOCK_REQ"
        /\ DOMAIN p = SrvFields /\ p.pos = s.pos /\ p.len = s.len /\ p.crc = <<>>
    BY ONLY <1>1 DEF SrvFields
  <2> HIDE DEF p
  <2>4. /\ q.od = p.od /\ q.idx = p.idx /\ q.rx = p.rx /\ q.pos = p.pos /\ q.len = p.len
        /\ q.st = p.st /\ q.crc = p.crc /\ q.out = <<f>>
    BY ONLY <2>1, <2>3 DEF Send, SrvFields
  <2>5. f \in Frames
    <3> HIDE DEF q
    <3> QED
      BY ONLY <1>2, <2>4
  <2> HIDE DEF q
  <2>6. e = q
    BY ONLY <1>3, <2>3, <2>4
  <2>7. GaveBlock(e, s)
    BY ONLY <1>6, <2>2, <2>3, <2>4, <2>5, <2>6 DEF GaveBlock
  <2> QED
    BY ONLY <2>3, <2>4, <2>6, <2>7 DEF Gave, Sizes
<1>7. CASE s.st = "DOWNLOAD_BLK_SUBBLOCK_RSP"
  <2>1. q = AnswerSubBlock(s)
    BY ONLY <1>7 DEF SrvSend
  <2>2. Answered(q, s)
    BY ONLY <1>7, <2>1, SrvOK(s), AnswerSubBlockDoes
  <2> HIDE DEF q
  <2>3. /\ q.idx = s.idx /\ q.rx \in {s.rx, None} /\ (Sizes(s) => Sizes(q))
        /\ q.st = "ABORT" \/ GaveSubBlock(q, s)
    BY ONLY <1>7, <2>2 DEF Answered, GaveSubBlock
  <2>4. CASE q.st = "ABORT"
    <3>1. GaveAbort(e, s)
      BY ONLY <1>3, <1>7, <2>4 DEF GaveAbort
    <3> QED
      BY ONLY <1>3, <2>3, <2>4, <3>1 DEF Gave, Sizes
  <2>5. CASE q.st # "ABORT"
    <3>1. e = q
      BY ONLY <1>3, <2>5
    <3> QED
      BY ONLY <2>3, <2>5, <3>1 DEF Gave
  <2> QED
    BY ONLY <2>4, <2>5
<1>8. CASE s.st = "DOWNLOAD_BLK_END_RSP"
  <2> DEFINE p == [s EXCEPT !.st = "IDLE"]
             f == Frame("blkEndOk")
  <2>1. q = Send(p, f)
    BY ONLY <1>8 DEF SrvSend
  <2>2. f \in Frames /\ f.c = "blkEndOk"
    BY ONLY <1>1, AnswerFrames, 0 \in Nat
  <2> HIDE DEF f, q
  <2>3. p.od = s.od /\ p.idx = s.idx /\ p.rx = s.rx /\ p.st = "IDLE" /\ DOMAIN p = SrvFields
    BY ONLY <1>1 DEF SrvFields
  <2> HIDE DEF p
  <2>4. q.od = p.od /\ q.idx = p.idx /\ q.rx = p.rx /\ q.st = p.st /\ q.out = <<f>>
    BY ONLY <2>1, <2>3 DEF Send, SrvFields
  <2>5. e = q
    BY ONLY <1>3, <2>3, <2>4
  <2>6. GaveEnd(e, s)
    BY ONLY <1>8, <2>2, <2>3, <2>4, <2>5 DEF GaveEnd
  <2> QED
    BY ONLY <2>3, <2>4, <2>5, <2>6 DEF Gave, Sizes
<1>9. CASE s.st \in {"UPLOAD_INITIATE_RSP", "UPLOAD_SEGMENT_RSP", "UPLOAD_BLK_INITIATE_RSP",
                     "UPLOAD_BLK_SUBBLOCK_SREQ", "UPLOAD_BLK_END_SREQ"}
  <2>1. UpSent(q, s)
    <3>1. CASE s.st = "UPLOAD_INITIATE_RSP"
      <4>1. q = AnswerUpload(s)
        BY ONLY <3>1 DEF SrvSend
      <4> QED
        BY ONLY <1>1, <4>1, AnswerUploadSends
    <3>2. CASE s.st = "UPLOAD_SEGMENT_RSP"
      <4>1. q = AnswerSegment(s)
        BY ONLY <3>2 DEF SrvSend
      <4>2. Readable(s)
        BY <3>2 DEF SrvOK, SrvBase, SrvAt, Readable, UpStart
      <4> QED
        BY ONLY <1>1, <3>2, <4>1, <4>2, AnswerSegmentSends
    <3>3. CASE s.st = "UPLOAD_BLK_SUBBLOCK_SREQ"
      <4>1. q = SendBlockSegment(s)
        BY ONLY <3>3 DEF SrvSend
      <4> QED
        BY ONLY <1>1, <3>3, <4>1, SendBlockSegmentSends
    <3>4. CASE s.st = "UPLOAD_BLK_INITIATE_RSP"
      <4> DEFINE p == [s EXCEPT !.st = "UPLOAD_BLK_INITIATE_REQ2"]
                 f == [Frame("blkUploadOk") EXCEPT !.idx = s.idx, !.ind = s.ind]
      <4>1. q = Send(p, f)
        BY ONLY <3>4 DEF SrvSend
      <4> HIDE DEF f, q
      <4>2. p.od = s.od /\ p.idx = s.idx /\ p.rx = s.rx /\ p.st = "UPLOAD_BLK_INITIATE_REQ2" /\ DOMAIN p = SrvFields
        BY ONLY <1>1 DEF SrvFields
      <4> HIDE DEF p
      <4>3. q.od = p.od /\ q.idx = p.idx /\ q.rx = p.rx /\ q.st = p.st /\ q.out = <<f>>
        BY ONLY <4>1, <4>2 DEF Send, SrvFields
      <4> QED
        BY ONLY <4>2, <4>3 DEF UpSent, UpWork, UpStart
    <3>5. CASE s.st = "UPLOAD_BLK_END_SREQ"
      <4> DEFINE p == [s EXCEPT !.st = "UPLOAD_BLK_END_CRSP"]
                 f == [Frame("blkEnd") EXCEPT !.ind = s.nod, !.crc = s.crc]
      <4>1. q = Send(p, f)
        BY ONLY <3>5 DEF SrvSend
      <4> HIDE DEF f, q
      <4>2. p.od = s.od /\ p.idx = s.idx /\ p.rx = s.rx /\ p.st = "UPLOAD_BLK_END_CRSP" /\ DOMAIN p = SrvFields
        BY ONLY <1>1 DEF SrvFields
      <4> HIDE DEF p
      <4>3. q.od = p.od /\ q.idx = p.idx /\ q.rx = p.rx /\ q.st = p.st /\ q.out = <<f>>
        BY ONLY <4>1, <4>2 DEF Send, SrvFields
      <4> QED
        BY ONLY <4>2, <4>3 DEF UpSent, UpWork
    <3> QED
      BY ONLY <1>9, <3>1, <3>2, <3>3, <3>4, <3>5
  <2>2. s.st \in UpWork
    BY ONLY <1>9 DEF UpWork, UpStart, UpBlock
  <2> HIDE DEF q
  <2>3. CASE q.st = "ABORT"
    <3>1. GaveAbort(e, s)
      BY ONLY <1>3, <2>1, <2>2, <2>3 DEF GaveAbort, UpSent
    <3> QED
      BY ONLY <1>3, <2>1, <2>3, <3>1 DEF Gave, UpSent, Sizes
  <2>4. CASE q.st # "ABORT"
    <3>1. e = q
      BY ONLY <1>3, <2>4
    <3>2. q.st \in UpWork \cup {"IDLE"} /\ \E g : q.out = <<g>>
      BY ONLY <2>1, <2>4 DEF UpSent
    <3>3. \E g \in Frames : q.out = <<g>>
      <4>1. PICK g : q.out = <<g>>
        BY ONLY <3>2
      <4>2. g \in Frames
        BY ONLY <1>2, <4>1
      <4> QED
        BY ONLY <4>1, <4>2
    <3>4. GaveUpload(e, s)
      BY ONLY <2>1, <2>2, <3>1, <3>2, <3>3 DEF GaveUpload, UpSent
    <3> QED
      BY ONLY <2>1, <3>1, <3>4 DEF Gave, UpSent, Sizes
  <2> QED
    BY ONLY <2>3, <2>4
<1>10. CASE s.st = "ABORT"
  <2>1. q = s
    BY ONLY <1>10 DEF SrvSend
  <2> HIDE DEF q
  <2>2. GaveAbort(e, s)
    BY ONLY <1>3, <1>10, <2>1 DEF GaveAbort
  <2> QED
    BY ONLY <1>3, <1>10, <2>1, <2>2 DEF Gave, Sizes
<1>11. CASE s.st \in SrvWaits
  <2>1. q = s
    BY ONLY <1>11 DEF SrvSend, SrvWaits
  <2>2. s.st # "ABORT"
    BY ONLY <1>11 DEF SrvWaits
  <2> HIDE DEF q
  <2>3. e = s
    BY ONLY <1>3, <2>1, <2>2
  <2> QED
    BY ONLY <1>11, <2>3 DEF Gave
<1> HIDE DEF q
<1>12. s.st \in States /\ s.st \notin DownRequest \cup UpRequest
  BY DEF SrvOK, SrvAt, SrvBase, SrvRecord
<1>13. \/ s.st \in SrvWaits
       \/ s.st \in {"DOWNLOAD_INITIATE_RSP", "DOWNLOAD_SEGMENT_RSP", "DOWNLOAD_BLK_INITIATE_RSP",
                    "DOWNLOAD_BLK_SUBBLOCK_RSP", "DOWNLOAD_BLK_END_RSP", "ABORT"}
       \/ s.st \in {"UPLOAD_INITIATE_RSP", "UPLOAD_SEGMENT_RSP", "UPLOAD_BLK_INITIATE_RSP",
                     "UPLOAD_BLK_SUBBLOCK_SREQ", "UPLOAD_BLK_END_SREQ"}
  BY ONLY <1>12 DEF States, SrvWaits, DownRequest, UpRequest, DownStart, DownSegment, DownBlock, UpStart,
     UpBlock, Others
<1> QED
  BY ONLY <1>4, <1>5, <1>6, <1>7, <1>8, <1>9, <1>10, <1>11, <1>13

=============================================================================
