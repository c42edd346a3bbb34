-------------------------- MODULE SdoTransferProofs --------------------------
(***************************************************************************)
(* Proofs that the transfers of Sdo arrive, for every dictionary, buffer   *)
(* size and job, with any number of frames lost: the client's word that a  *)
(* transfer was done means that both ends have the same value.  The        *)
(* inductive invariants are ArriveInv for downloads and UploadInv for      *)
(* uploads, on top of the types and states of SdoProofs.                   *)
(***************************************************************************)
EXTENDS SdoProofs

\* Ends that differ in nothing this is about.
SameSrv(r, s) ==
  /\ r.st = s.st /\ r.od = s.od /\ r.idx = s.idx /\ r.pos = s.pos /\ r.len = s.len
  /\ r.buf = s.buf /\ r.t = s.t /\ r.fin = s.fin /\ r.crc = s.crc

SameCli(q, k) ==
  /\ q.st = k.st /\ q.idx = k.idx /\ q.ind = k.ind /\ q.tran = k.tran /\ q.fin = k.fin /\ q.t = k.t
  /\ q.fifo = k.fifo /\ q.more = k.more /\ q.crc = k.crc /\ q.alt = k.alt /\ (q.ret = "ok" => k.ret = "ok")

LEMMA SameMeans ==
  ASSUME NEW r, NEW s, SameSrv(r, s), NEW q, NEW k, SameCli(q, k), NEW j
  PROVE  /\ Written(r, j) <=> Written(s, j)
         /\ \A n : Sync(r, j, n) <=> Sync(s, j, n)
         /\ SrvDown(s) => SrvDown(r)
         /\ CliHas(k, j) => CliHas(q, j)
<1>1. Written(r, j) <=> Written(s, j)
  BY DEF SameSrv, Written
<1>2. \A n : Sync(r, j, n) <=> Sync(s, j, n)
  BY DEF SameSrv, Sync
<1>3. SrvDown(s) => SrvDown(r)
  BY DEF SameSrv, SrvDown, Sizes, Cover
<1>4. CliHas(k, j) => CliHas(q, j)
  BY DEF SameCli, CliHas, Left, Taken
<1> QED
  BY ONLY <1>1, <1>2, <1>3, <1>4

LEMMA SameFrames ==
  ASSUME NEW r, NEW s, SameSrv(r, s), NEW q, NEW k, SameCli(q, k), NEW j
  PROVE  /\ \A f : Asked(f, s, k, j) => Asked(f, r, q, j)
         /\ Answering(s, k, j) => Answering(r, q, j)
         /\ Answers(s, k, j) => Answers(r, q, j)
<1>1. /\ Written(r, j) <=> Written(s, j)
      /\ \A n : Sync(r, j, n) <=> Sync(s, j, n)
  BY SameMeans
<1>2. ASSUME NEW f, Asked(f, s, k, j)
      PROVE  Asked(f, r, q, j)
  <2>1. k.st = "DOWNLOAD_SEGMENT_RSP" =>
          \E n \in 0..k.tran :
            /\ f.data = Part(j.data, n, k.tran)
            /\ r.st = "DOWNLOAD_SEGMENT_REQ" => Sync(r, j, n) /\ r.t = k.t
    BY ONLY <1>1, <1>2, SameSrv(r, s) DEF Asked, SameSrv
  <2> QED
    BY ONLY <1>2, <2>1, SameCli(q, k) DEF Asked, SameCli
<1>3. Answering(s, k, j) => Answering(r, q, j)
  BY ONLY <1>1, SameSrv(r, s), SameCli(q, k) DEF Answering, SameSrv, SameCli
<1>4. Answers(s, k, j) => Answers(r, q, j)
  BY ONLY <1>1, SameSrv(r, s), SameCli(q, k) DEF Answers, SameSrv, SameCli
<1> QED
  BY ONLY <1>2, <1>3, <1>4

\* Nothing is said that was not said before.
LEMMA DownFewer ==
  ASSUME NEW s, NEW x, NEW k, NEW y, NEW j, Down(s, x, k, y, j),
         NEW r, NEW u, NEW q, NEW v, SameSrv(r, s), SameCli(q, k),
         Fewer(u, r.rx, x, s.rx), Fewer(v, q.rx, y, k.rx)
  PROVE  Down(r, u, q, v, j)
<1>1. /\ SrvDown(r) /\ CliHas(q, j)
      /\ Written(r, j) <=> Written(s, j)
      /\ \A n : Sync(r, j, n) <=> Sync(s, j, n)
  BY SameMeans DEF Down
<1>2. /\ \A f : Asked(f, s, k, j) => Asked(f, r, q, j)
      /\ Answering(s, k, j) => Answering(r, q, j)
      /\ Answers(s, k, j) => Answers(r, q, j)
  BY SameFrames
<1>3. /\ Turn(s, x, k, y) => Turn(r, u, q, v)
      /\ Quiet(x, s.rx) => Quiet(u, r.rx)
      /\ Mute(y, k.rx) => Mute(v, q.rx)
      /\ Held(u, r.rx) \subseteq Held(x, s.rx)
      /\ Held(v, q.rx) \subseteq Held(y, k.rx)
  BY DEF Fewer, Turn
<1>4. r.st = s.st /\ r.idx = s.idx /\ r.t = s.t
      /\ q.st = k.st /\ (q.ret = "ok" => k.ret = "ok") /\ q.tran = k.tran /\ q.t = k.t
  BY DEF SameSrv, SameCli
<1>5. Waiting(s, x, k, y, j) => Waiting(r, u, q, v, j)
  BY ONLY <1>2, <1>3, <1>4 DEF Waiting
<1>6. Ready(s, x, k, y, j) => Ready(r, u, q, v, j)
  BY ONLY <1>1, <1>3, <1>4 DEF Ready
<1>7. Blocks(s, x, k, y, j) => Blocks(r, u, q, v, j)
  BY ONLY <1>1, <1>3, <1>4 DEF Blocks
<1>8. Arrived(s, x, k, y, j) => Arrived(r, u, q, v, j)
  BY ONLY <1>1, <1>3, <1>4 DEF Arrived
<1>9. /\ k.st \in CliAsks => Waiting(s, x, k, y, j)
      /\ k.st \in CliReady => Ready(s, x, k, y, j)
      /\ k.st \in CliBlock => Blocks(s, x, k, y, j)
      /\ k.ret = "ok" /\ j.op = "download" => Arrived(s, x, k, y, j)
  BY ONLY Down(s, x, k, y, j) DEF Down
<1> QED
  BY ONLY <1>1, <1>4, <1>5, <1>6, <1>7, <1>8, <1>9 DEF Down

\* A frame more that says nothing.
Louder(v, y, r) ==
  /\ Mute(y, r) => Mute(v, r)
  /\ Single(y, r) => Single(v, r)
  /\ \A g \in Held(v, r) : g \in Held(y, r) \/ g.c \in Noise

LEMMA NoiseIs ==
  ASSUME NEW y \in Seq(Frames), NEW r \in Frames \cup {None}, NEW g \in Frames, g.c \in Noise
  PROVE  Louder(y \o <<g>>, y, r) /\ Louder(y, y, r)
BY OneMore DEF Louder

LEMMA AbortIsNoise ==
  abort \in Frames /\ abort.c \in Noise /\ abort.c = "abort"
<1>1. abort.c = "abort"
  BY FrameOf DEF abort, Commands
<1> QED
  BY <1>1, AbortFrame DEF Noise

\* A server that stops, is stopped, or is told to: whatever comes of it later
\* starts anew.
LEMMA DownReset ==
  ASSUME NEW s, NEW x, NEW k, NEW y, NEW j, Down(s, x, k, y, j),
         NEW r, NEW u, NEW v, r.st \in Gone, r.od = s.od, r.idx = s.idx,
         Fewer(u, r.rx, x, s.rx), Louder(v, y, k.rx)
  PROVE  Down(r, u, k, v, j)
<1>1. SrvDown(r) /\ CliHas(k, j) /\ (Written(s, j) => Written(r, j))
  BY DEF Down, SrvDown, Sizes, Gone, DownBlock, Written
<1>2. r.st \in Old /\ r.st \notin {"DOWNLOAD_SEGMENT_REQ", "DOWNLOAD_BLK_END_RSP"}
  BY DEF Gone, Old, SrvWaits
<1>3. /\ Turn(s, x, k, y) => Turn(r, u, k, v)
      /\ Quiet(x, s.rx) => Quiet(u, r.rx)
      /\ Mute(y, k.rx) => Mute(v, k.rx)
      /\ Held(u, r.rx) \subseteq Held(x, s.rx)
      /\ \A g \in Held(v, k.rx) : g \in Held(y, k.rx) \/ g.c \in Noise
  BY DEF Fewer, Turn, Louder
<1>4. Waiting(s, x, k, y, j) => Waiting(r, u, k, v, j)
  <2>1. \A f : Asked(f, s, k, j) => Asked(f, r, k, j)
    BY ONLY <1>2 DEF Asked
  <2>2. Answers(s, k, j) => Answers(r, k, j)
    BY ONLY <1>1, <1>2, r.st \in Gone, r.idx = s.idx DEF Answers
  <2>3. Quiet(x, s.rx) => Held(u, r.rx) = {}
    BY ONLY <1>3, NoFrames
  <2>4. Waiting(s, x, k, y, j) =>
          (\A f \in Held(u, r.rx) : Asked(f, r, k, j)) /\ (Mute(v, k.rx) \/ Answers(r, k, j))
    BY ONLY <1>3, <2>1, <2>2, <2>3 DEF Waiting
  <2> QED
    BY ONLY <1>2, <1>3, <2>4 DEF Waiting
<1>5. Ready(s, x, k, y, j) => Ready(r, u, k, v, j)
  BY ONLY <1>2, <1>3 DEF Ready
<1>6. Blocks(s, x, k, y, j) => Blocks(r, u, k, v, j)
  BY ONLY <1>1, <1>2, <1>3, r.st \in Gone, r.idx = s.idx DEF Blocks, Noise
<1>7. Arrived(s, x, k, y, j) => Arrived(r, u, k, v, j)
  BY ONLY <1>1, <1>3, r.st \in Gone DEF Arrived
<1>8. /\ k.st \in CliAsks => Waiting(s, x, k, y, j)
      /\ k.st \in CliReady => Ready(s, x, k, y, j)
      /\ k.st \in CliBlock => Blocks(s, x, k, y, j)
      /\ k.ret = "ok" /\ j.op = "download" => Arrived(s, x, k, y, j)
  BY ONLY Down(s, x, k, y, j) DEF Down
<1> QED
  BY ONLY <1>1, <1>4, <1>5, <1>6, <1>7, <1>8 DEF Down

-----------------------------------------------------------------------------
(* The server takes a frame. *)

LEMMA LongerText ==
  ASSUME NEW o \in Str, NEW v, NEW d \in Data, NEW n \in Nat, Ends(o, v, d \o Zeros(n))
  PROVE  Ends(o, v, d)
<1> DEFINE z == Zeros(n)
<1>1. z \in Data /\ Len(z) = n /\ (n > 0 => z[1] = 0)
  BY ZerosAre DEF Zeros
<1> HIDE DEF z
<1>2. PICK e \in Data : v = (d \o z) \o e /\ (e # <<>> => e[1] = 0)
  BY DEF Ends, z
<1>3. v = d \o (z \o e) /\ z \o e \in Data
  BY ONLY <1>1, <1>2, d \in Data, CatAssoc, CatIs
<1>4. z \o e # <<>> => (z \o e)[1] = 0
  <2>1. CASE n = 0
    <3>1. z = <<>>
      BY ONLY <1>1, <2>1, EmptySeq DEF Data
    <3> QED
      BY ONLY <1>2, <3>1, CatNone
  <2>2. CASE n > 0
    <3>1. 1 \in 1..(Len(z) + Len(e)) /\ 1 <= Len(z)
      BY ONLY <1>1, <1>2, <2>2, LenIs
    <3>2. (z \o e)[1] = z[1]
      BY ONLY <1>1, <1>2, <3>1, CatAt
    <3> QED
      BY ONLY <1>1, <2>2, <3>2
  <2> QED
    BY ONLY <2>1, <2>2, n \in Nat
<1> QED
  BY ONLY <1>3, <1>4, o \in Str DEF Ends

\* Expedited data are the first of four bytes.
LEMMA ExpeditedEnds ==
  ASSUME NEW o, NEW v, NEW d \in Data, Len(d) <= Exped, NEW n \in 0..Exped,
         n = Len(d) \/ (o \in Str /\ Len(d) <= n),
         Ends(o, v, Front_(d \o Zeros(Exped - Len(d)), n))
  PROVE  Ends(o, v, d)
<1> DEFINE m == Len(d)
           z == Zeros(Exped - m)
<1>1. m \in Nat /\ Exped \in Nat /\ Exped - m \in Nat /\ n \in Nat /\ n <= Exped
  BY LenIs, SdoAssumption
<1>2. z \in Data /\ Len(z) = Exped - m
  BY <1>1, ZerosAre
<1>3. CASE n = m
  <2>1. Front_(d \o z, m) = d
    BY <1>2, CatParts
  <2> QED
    BY <1>3, <2>1
<1>4. CASE n # m
  <2>1. o \in Str /\ m <= n /\ n - m \in Nat /\ n - m <= Exped - m
    BY <1>1, <1>4
  <2>2. Front_(d \o z, n) = d \o Zeros(n - m)
    <3> DEFINE a == Front_(d \o z, n)
               b == Zeros(n - m)
    <3>0. b \in Data /\ Len(b) = n - m /\ (\A i \in 1..(n - m) : b[i] = 0)
          /\ (\A i \in 1..(Exped - m) : z[i] = 0)
      BY <2>1, ZerosAre DEF Zeros
    <3>1. d \o z \in Data /\ Len(d \o z) = Exped
          /\ (\A i \in 1..Exped : (d \o z)[i] = IF i <= m THEN d[i] ELSE z[i - m])
      <4>1. Len(d) + Len(z) = Exped
        BY <1>1, <1>2
      <4> QED
        BY <1>2, <4>1, CatAt
    <3>2. d \o b \in Data /\ Len(d \o b) = n
          /\ (\A i \in 1..n : (d \o b)[i] = IF i <= m THEN d[i] ELSE b[i - m])
      <4>1. Len(d) + Len(b) = n
        BY <1>1, <2>1, <3>0
      <4> QED
        BY <3>0, <4>1, CatAt
    <3>3. a \in Data /\ Len(a) = n /\ (\A i \in 1..n : a[i] = (d \o z)[i])
      <4> DEFINE c == d \o z
      <4>1. c \in Data /\ Len(c) = Exped
        BY <3>1
      <4> HIDE DEF c
      <4>2. /\ Part(c, 0, n) \in Data /\ Len(Part(c, 0, n)) = n - 0
            /\ \A i \in 1..(n - 0) : Part(c, 0, n)[i] = c[0 + i]
        BY ONLY <1>1, <4>1, PartIs, 0 \in Nat, 0 <= n, ZenonT(40)
      <4>3. Front_(c, n) = Part(c, 0, n)
        BY ONLY FrontPart
      <4>4. Front_(c, n) \in Data /\ Len(Front_(c, n)) = n /\ (\A i \in 1..n : Front_(c, n)[i] = c[i])
        BY ONLY <1>1, <4>2, <4>3
      <4> QED
        BY ONLY <4>4 DEF c, a
    <3> HIDE DEF m, z, a, b
    <3>4. \A i \in 1..n : a[i] = (d \o b)[i]
      <4> SUFFICES ASSUME NEW i \in 1..n
                   PROVE  a[i] = (d \o b)[i]
        OBVIOUS
      <4>1. i \in 1..Exped
        BY ONLY <1>1
      <4>2. CASE i <= m
        BY ONLY <3>1, <3>2, <3>3, <4>1, <4>2
      <4>3. CASE ~(i <= m)
        <5>1. i - m \in 1..(n - m) /\ i - m \in 1..(Exped - m)
          BY ONLY <1>1, <2>1, <4>1, <4>3
        <5> QED
          BY ONLY <3>0, <3>1, <3>2, <3>3, <4>1, <4>3, <5>1
      <4> QED
        BY ONLY <4>2, <4>3
    <3>5. a = d \o b
      BY ONLY <3>2, <3>3, <3>4, SameData
    <3> QED
      BY <3>5 DEF a, b, z, m
  <2> QED
    BY <2>1, <2>2, LongerText, ZenonT(40)
<1> QED
  BY <1>3, <1>4

\* The jobs this is about.
JobOK(j) == j \in Jobs /\ j.op = "download" => Fitting(j)

LEMMA JobIs ==
  ASSUME NEW j \in Jobs
  PROVE  j.obj \in Obj /\ j.data \in Data /\ j.ind \in Nat /\ j.op \in {"upload", "download"}
         /\ (j.op = "upload" => j.data = <<>>) /\ j.blk \in {0, 1}
BY SdoAssumption DEF Data

LEMMA HeldLess == \A x, r : Held(x, None) \subseteq Held(x, r)
BY DEF Held

LEMMA TakesSrvDown ==
  ASSUME NEW r, NEW s, Took(r, s), SrvDown(s)
  PROVE  SrvDown(r)
<1>1. Sizes(r)
  BY DEF Took, SrvDown
<1>2. r.st \in DownBlock =>
        /\ s.st = "DOWNLOAD_BLK_SUBBLOCK_REQ" /\ r.st = s.st /\ r.od = s.od /\ r.pos = s.pos
        /\ r.len = s.len /\ r.crc = s.crc /\ r.idx = s.idx
  BY ONLY Took(r, s)
     DEF Took, TookDownload, TookBlkDownload, TookUpload, Stored, BlockEnded, DownBlock, UpWork, UpStart, UpBlock
<1>3. r.st \in DownBlock => Cover(r)
  BY <1>2 DEF SrvDown, Cover, DownBlock
<1>4. r.st = "DOWNLOAD_BLK_INITIATE_RSP" => r.pos = 0 /\ r.len = Len(r.od[r.idx])
  BY ONLY Took(r, s)
     DEF Took, TookDownload, TookBlkDownload, TookUpload, Stored, BlockEnded, DownBlock, UpWork, UpStart, UpBlock
<1>5. r.st # "DOWNLOAD_BLK_END_REQ"
  BY ONLY <1>2 DEF DownBlock
<1> QED
  BY ONLY <1>1, <1>3, <1>4, <1>5 DEF SrvDown

\* The length the server takes of expedited data is that of the job.
LEMMA ExpeditedFits ==
  ASSUME NEW s \in SrvRecord, Sizes(s), NEW j \in Jobs, Fitting(j), NEW f,
         Len(j.data) <= Exped, j.data # <<>>, f.ind = Len(j.data) \/ (f.ind = 0 /\ j.ind = 0),
         NEW n \in 0..Exped, n = IF f.ind > 0 THEN f.ind ELSE Low(Len(s.od[j.obj]), Exped)
  PROVE  n = Len(j.data) \/ (j.obj \in Str /\ Len(j.data) <= n)
<1>1. j.obj \in Obj /\ j.data \in Data
  BY JobIs
<1> DEFINE d == Len(j.data)
           z == Len(s.od[j.obj])
<1>2. d \in Nat /\ z \in Nat /\ z = Len(First[j.obj]) /\ d # 0 /\ Exped \in Nat
  <2>1. s.od[j.obj] \in Data
    BY <1>1 DEF SrvRecord
  <2>2. d # 0
    BY ONLY <1>1, j.data # <<>>, EmptySeq DEF Data
  <2> QED
    BY <1>1, <2>1, <2>2, LenIs, SdoAssumption DEF Sizes
<1>3. CASE f.ind = d
  BY <1>2, <1>3
<1>4. CASE f.ind = 0 /\ j.ind = 0
  <2>1. IF j.obj \in Str THEN d <= z ELSE d = z
    BY <1>2, <1>4 DEF Fitting
  <2>2. n = Low(z, Exped) /\ d <= Exped
    BY <1>4
  <2> HIDE DEF d, z
  <2>3. n = IF z < Exped THEN z ELSE Exped
    BY ONLY <2>2 DEF Low
  <2>4. n = d \/ (j.obj \in Str /\ d <= n)
    BY ONLY <1>2, <2>1, <2>2, <2>3
  <2> QED
    BY ONLY <2>4 DEF d
<1> QED
  BY <1>3, <1>4

\* The request of a download.
LEMMA TakesDownload ==
  ASSUME NEW s, SrvOK(s), s.rx \in Frames, Sizes(s), NEW r, TookDownload(r, s),
         NEW k, k.fin \in Bit, NEW j \in Jobs, Fitting(j), Asked(s.rx, s, k, j), k.st \in CliAsks
  PROVE  Answering(r, k, j)
<1> DEFINE f == s.rx
<1>1. s \in SrvRecord /\ j.obj \in Obj /\ j.data \in Data /\ f.exp \in Bit
  BY JobIs DEF SrvOK, SrvBase, Frames, FrameRecord
<1>2. s.st = "IDLE" /\ f.c = "download" /\ r.st = "DOWNLOAD_INITIATE_RSP" /\ r.idx = f.idx
  BY DEF TookDownload
<1>3. k.st = "DOWNLOAD_INITIATE_RSP"
  BY ONLY <1>2, Asked(f, s, k, j), k.st \in CliAsks DEF Asked, CliAsks
<1>4. /\ f.idx = j.obj /\ f.exp = k.fin
      /\ k.fin = 1 => /\ j.data # <<>> /\ Len(j.data) <= Exped
                      /\ f.data = j.data \o Zeros(Exped - Len(j.data))
                      /\ f.ind = Len(j.data) \/ (f.ind = 0 /\ j.ind = 0)
  BY ONLY <1>3, Asked(f, s, k, j) DEF Asked
<1>5. CASE f.exp = 1
  <2>1. PICK n \in 0..Exped :
          /\ n = IF f.ind > 0 THEN f.ind ELSE Low(Len(s.od[f.idx]), Exped)
          /\ r.fin = 1 /\ Ends(r.idx, r.od[r.idx], Front_(f.data, n))
    BY ONLY <1>5, TookDownload(r, s) DEF TookDownload
  <2>2. n = Len(j.data) \/ (j.obj \in Str /\ Len(j.data) <= n)
    BY ONLY <1>1, <1>4, <1>5, <2>1, ExpeditedFits, Sizes(s), Fitting(j), j \in Jobs
  <2>3. /\ Ends(j.obj, r.od[j.obj], Front_(j.data \o Zeros(Exped - Len(j.data)), n))
        /\ Len(j.data) <= Exped /\ n \in 0..Exped
    BY <1>2, <1>4, <1>5, <2>1
  <2>4. Ends(j.obj, r.od[j.obj], j.data)
    BY ONLY <1>1, <2>2, <2>3, ExpeditedEnds
  <2>5. Written(r, j)
    BY ONLY <1>1, <2>4, TextEnds, Fitting(j) DEF Written, Fitting
  <2> QED
    BY ONLY <1>2, <1>3, <1>4, <1>5, <2>1, <2>5 DEF Answering
<1>6. CASE f.exp # 1
  <2>1. r.fin = 0 /\ r.pos = 0 /\ r.len = Len(r.od[r.idx])
    BY ONLY <1>6, TookDownload(r, s) DEF TookDownload
  <2>2. k.fin = 0
    BY ONLY <1>1, <1>4, <1>6 DEF Bit
  <2> QED
    BY ONLY <1>2, <1>3, <1>4, <2>1, <2>2 DEF Answering
<1> QED
  BY ONLY <1>5, <1>6

\* One of its segments.
LEMMA TakesSegment ==
  ASSUME NEW s, SrvOK(s), s.rx \in Frames, s.st = "DOWNLOAD_SEGMENT_REQ", NEW r, Stored(r, s),
         r.st # "ABORT", NEW k, k.fin \in Bit, NEW j \in Jobs, CliHas(k, j), Fitting(j),
         Asked(s.rx, s, k, j), k.st \in CliAsks
  PROVE  Answering(r, k, j)
<1> DEFINE f == s.rx
           d == j.data
<1>1. s \in SrvRecord /\ j.obj \in Obj /\ d \in Data
  BY JobIs DEF SrvOK, SrvBase
<1>2. /\ ToggleOk(s) /\ r.st = "DOWNLOAD_SEGMENT_RSP" /\ r.fin = f.last /\ r.idx = s.idx /\ r.t = s.t
      /\ s.len = Len(s.od[s.idx]) /\ r.fin = 1 =>
           Ends(s.idx, r.od[s.idx], Front_(s.od[s.idx], s.pos) \o (s.buf \o f.data))
      /\ s.len = Len(s.od[s.idx]) /\ r.fin = 0 =>
             /\ r.len = Len(r.od[s.idx])
             /\ Front_(r.od[s.idx], r.pos) \o r.buf =
                   Front_(s.od[s.idx], s.pos) \o (s.buf \o f.data)
  BY DEF Stored
<1>3. k.st = "DOWNLOAD_SEGMENT_RSP"
  BY ONLY <1>2, Asked(f, s, k, j), k.st \in CliAsks DEF Asked, CliAsks, ToggleOk
<1>4. PICK n \in 0..k.tran : f.data = Part(d, n, k.tran) /\ Sync(s, j, n) /\ s.t = k.t
  BY ONLY <1>3, Asked(f, s, k, j), s.st = "DOWNLOAD_SEGMENT_REQ" DEF Asked
<1>5. f.last = k.fin
  BY ONLY <1>3, Asked(f, s, k, j) DEF Asked
<1>6. k.tran \in Nat /\ k.tran <= Len(d) /\ (k.fin = 1 => k.tran = Len(d))
  BY ONLY <1>3, CliHas(k, j) DEF CliHas, Left, DownSegment
<1>7. n \in Nat /\ n <= k.tran /\ n <= Len(d) /\ Len(d) \in Nat
  BY ONLY <1>1, <1>4, <1>6, LenIs
<1>8. s.idx = j.obj /\ s.len = Len(s.od[j.obj]) /\ Front_(s.od[j.obj], s.pos) \o s.buf = Front_(d, n)
  BY ONLY <1>4 DEF Sync
<1>9. s.od[j.obj] \in Data /\ s.buf \in Data /\ f.data \in Data /\ s.pos \in Nat /\ s.pos <= s.len
  BY <1>1 DEF SrvRecord, SrvOK, SrvAt, AtPlace, DownStart, DownSegment, Frames, FrameRecord
<1>10. Front_(s.od[j.obj], s.pos) \in Data
  BY ONLY <1>8, <1>9, FrontIs
<1>11. Front_(s.od[j.obj], s.pos) \o (s.buf \o f.data) = Front_(d, k.tran)
  <2>1. Front_(s.od[j.obj], s.pos) \o (s.buf \o f.data) = Front_(d, n) \o f.data
    <3> DEFINE a == Front_(s.od[j.obj], s.pos)
    <3>1. a \in Data /\ a \o s.buf = Front_(d, n)
      BY ONLY <1>8, <1>10
    <3> HIDE DEF a
    <3>2. (a \o s.buf) \o f.data = a \o (s.buf \o f.data)
      BY ONLY <1>9, <3>1, CatAssoc
    <3>3. a \o (s.buf \o f.data) = Front_(d, n) \o f.data
      BY ONLY <3>1, <3>2
    <3> QED
      BY ONLY <3>3 DEF a
  <2>2. Front_(d, n) \o Part(d, n, k.tran) = Front_(d, k.tran)
    BY ONLY <1>1, <1>6, <1>7, FrontGrows
  <2> QED
    BY ONLY <1>4, <2>1, <2>2
<1>12. k.fin = 1 => Written(r, j)
  <2> SUFFICES ASSUME k.fin = 1
               PROVE  Written(r, j)
    OBVIOUS
  <2>1. Front_(d, k.tran) = d
    BY ONLY <1>1, <1>6, WholeIs, k.fin = 1
  <2>2. Ends(j.obj, r.od[j.obj], d)
    BY ONLY <1>2, <1>5, <1>8, <1>11, <2>1, k.fin = 1
  <2> QED
    BY ONLY <1>1, <2>2, TextEnds, Fitting(j) DEF Written, Fitting
<1>13. k.fin = 0 => Sync(r, j, k.tran)
  BY ONLY <1>2, <1>5, <1>6, <1>8, <1>11 DEF Sync
<1> QED
  BY ONLY <1>2, <1>3, <1>4, <1>5, <1>8, <1>12, <1>13 DEF Answering

\* The question is answered, or given up.
LEMMA TakesWaiting ==
  ASSUME NEW s, SrvOK(s), s.rx \in Frames, s.rx # None, SrvDown(s), NEW r, Took(r, s),
         NEW k, k.fin \in Bit, NEW j \in Jobs, CliHas(k, j), Fitting(j), k.st \in CliAsks,
         NEW x, NEW y, Waiting(s, x, k, y, j)
  PROVE  Waiting(r, x, k, y, j)
<1>1. /\ s.rx \in Held(x, s.rx) /\ ~Quiet(x, s.rx) /\ (Alone(x, s.rx) => Quiet(x, None))
  BY ONLY s.rx # None, HeldFrame
<1>2. Alone(x, s.rx) /\ Single(y, k.rx) /\ Mute(y, k.rx) /\ s.st \in Old /\ Asked(s.rx, s, k, j)
  BY ONLY <1>1, Waiting(s, x, k, y, j) DEF Waiting, Turn
<1>3. Quiet(x, None) /\ r.rx = None
  BY <1>1, <1>2 DEF Took
<1>4. Held(x, None) = {} /\ Alone(x, None)
  BY ONLY <1>3, NoFrames
<1>5. Turn(r, x, k, y)
  BY ONLY <1>2, <1>3, <1>4 DEF Turn
<1>6. ASSUME r.st \in Old
      PROVE  Waiting(r, x, k, y, j)
  BY ONLY <1>2, <1>3, <1>4, <1>5, <1>6 DEF Waiting
<1>7. ASSUME Answering(r, k, j)
      PROVE  Waiting(r, x, k, y, j)
  BY ONLY <1>2, <1>3, <1>4, <1>5, <1>7 DEF Waiting
<1>8. s.rx.c \in {"download", "blkDownload", "segment"}
  BY ONLY <1>2, k.st \in CliAsks DEF Asked, CliAsks
<1>9. CASE r.st = "ABORT"
  BY ONLY <1>6, <1>9 DEF Old
<1>10. CASE TookDownload(r, s)
  BY <1>2, <1>7, <1>10, TakesDownload DEF SrvDown
<1>11. CASE TookBlkDownload(r, s)
  <2>1. k.st = "DOWNLOAD_BLK_INITIATE_RSP" /\ s.rx.idx = j.obj
    BY ONLY <1>2, <1>11, k.st \in CliAsks DEF TookBlkDownload, Asked, CliAsks
  <2>2. Answering(r, k, j)
    BY ONLY <2>1, <1>11 DEF Answering, TookBlkDownload
  <2> QED
    BY ONLY <1>7, <2>2
<1>12. CASE s.st = "DOWNLOAD_SEGMENT_REQ" /\ Stored(r, s) /\ r.st # "ABORT"
  BY <1>2, <1>7, <1>12, TakesSegment
<1>13. CASE s.st = "DOWNLOAD_BLK_SUBBLOCK_REQ" /\ r.st = s.st
  BY ONLY <1>6, <1>13 DEF Old, SrvWaits
<1>14. CASE s.st = "DOWNLOAD_BLK_END_REQ" /\ BlockEnded(r, s) /\ r.st # "ABORT"
  BY ONLY <1>8, <1>14 DEF BlockEnded
<1>15. CASE TookUpload(r, s)
  BY ONLY <1>8, <1>15 DEF TookUpload
<1> QED
  BY ONLY <1>9, <1>10, <1>11, <1>12, <1>13, <1>14, <1>15, Took(r, s) DEF Took

\* A frame among the segments of blocks.
LEMMA TakesBlocks ==
  ASSUME NEW s, SrvOK(s), s.rx \in Frames, s.rx # None, SrvDown(s), NEW r, Took(r, s),
         NEW k, NEW j \in Jobs, Fitting(j), NEW x, NEW y, Blocks(s, x, k, y, j)
  PROVE  Blocks(r, x, k, y, j)
<1>1. s.rx \in Held(x, s.rx) /\ Held(x, r.rx) \subseteq Held(x, s.rx)
  BY HeldFrame, HeldLess DEF Took
<1>2. /\ s.idx = j.obj /\ s.st \in DownBlock \cup Gone \cup {"DOWNLOAD_BLK_END_RSP"}
      /\ s.rx.c \notin Requests
      /\ s.rx.c = "blkEnd" => k.st = "DOWNLOAD_BLK_END_RSP" /\ s.rx.crc = j.data
      /\ \A f \in Held(x, s.rx) :
           /\ f.c \notin Requests
           /\ f.c = "blkEnd" => k.st = "DOWNLOAD_BLK_END_RSP" /\ f.crc = j.data
      /\ \A g \in Held(y, k.rx) :
           g.c = "blkEndOk" => k.st = "DOWNLOAD_BLK_END_RSP" /\ Written(s, j) /\ s.st \in Gone
  BY ONLY <1>1, Blocks(s, x, k, y, j) DEF Blocks
<1>3. r.idx = j.obj /\ (s.st \in Gone => r.st = "ABORT" /\ r.od = s.od)
  BY ONLY <1>2, Took(r, s) DEF Took
<1>4. r.st \in DownBlock \cup Gone \cup {"DOWNLOAD_BLK_END_RSP"}
  BY ONLY <1>2, Took(r, s)
     DEF Took, TookDownload, TookBlkDownload, TookUpload, Stored, BlockEnded, DownBlock, UpWork,
         UpStart, UpBlock, Gone, Requests
<1>5. r.st = "DOWNLOAD_BLK_END_RSP" => k.st = "DOWNLOAD_BLK_END_RSP" /\ Written(r, j)
  <2> SUFFICES ASSUME r.st = "DOWNLOAD_BLK_END_RSP"
               PROVE  k.st = "DOWNLOAD_BLK_END_RSP" /\ Written(r, j)
    OBVIOUS
  <2>1. s.st = "DOWNLOAD_BLK_END_REQ" /\ BlockEnded(r, s)
    BY ONLY <1>2, r.st = "DOWNLOAD_BLK_END_RSP", Took(r, s)
       DEF Took, TookDownload, TookBlkDownload, TookUpload, Stored, UpWork, UpStart, UpBlock
  <2>2. s.fin = 1 /\ Cover(s)
    BY ONLY <2>1, SrvDown(s) DEF SrvDown, DownBlock
  <2>3. s.rx.c = "blkEnd" /\ Ends(s.idx, r.od[s.idx], s.rx.crc)
    BY ONLY <2>1, <2>2, r.st = "DOWNLOAD_BLK_END_RSP" DEF BlockEnded
  <2>4. k.st = "DOWNLOAD_BLK_END_RSP" /\ Ends(j.obj, r.od[j.obj], j.data)
    BY ONLY <1>2, <2>3
  <2> QED
    BY <2>4, TextEnds, JobIs DEF Written, Fitting
<1>6. \A g \in Held(y, k.rx) :
        g.c = "blkEndOk" => k.st = "DOWNLOAD_BLK_END_RSP" /\ Written(r, j) /\ r.st \in Gone
  BY ONLY <1>2, <1>3 DEF Written, Gone
<1> QED
  BY ONLY <1>1, <1>2, <1>3, <1>4, <1>5, <1>6 DEF Blocks

LEMMA SrvTakesDown ==
  ASSUME NEW s, SrvOK(s), s.rx \in Frames, s.rx # None, NEW k, k.fin \in Bit,
         NEW j, JobOK(j), NEW x, NEW y, Down(s, x, k, y, j)
  PROVE  Down(SrvTake(s), x, k, y, j)
<1> DEFINE r == SrvTake(s)
<1>1. Took(r, s)
  BY SrvTakes
<1>2. SrvDown(s) /\ CliHas(k, j)
  BY DEF Down
<1>3. s.rx \in Held(x, s.rx) /\ ~Quiet(x, s.rx)
  BY HeldFrame
<1> SUFFICES Down(r, x, k, y, j)
  OBVIOUS
<1> HIDE DEF r
<1>4. SrvDown(r)
  BY ONLY <1>1, <1>2, TakesSrvDown
<1>5. k.st \in CliAsks \cup CliBlock => j \in Jobs /\ Fitting(j)
  BY ONLY <1>2, JobOK(j)
     DEF CliHas, JobOK, CliAsks, CliBlock, CliDown, DownStart, DownSegment, DownSending, DownBlock, DownRequest
<1>6. k.st \in CliAsks => Waiting(r, x, k, y, j)
  <2> SUFFICES ASSUME k.st \in CliAsks
               PROVE  Waiting(r, x, k, y, j)
    OBVIOUS
  <2>1. Waiting(s, x, k, y, j) /\ j \in Jobs /\ Fitting(j)
    BY <1>5 DEF Down
  <2> QED
    BY <1>1, <1>2, <2>1, TakesWaiting
<1>7. k.st \notin CliReady
  BY ONLY <1>3, Down(s, x, k, y, j) DEF Down, Ready
<1>8. k.st \in CliBlock => Blocks(r, x, k, y, j)
  <2> SUFFICES ASSUME k.st \in CliBlock
               PROVE  Blocks(r, x, k, y, j)
    OBVIOUS
  <2>1. Blocks(s, x, k, y, j) /\ j \in Jobs /\ Fitting(j)
    BY <1>5 DEF Down
  <2> QED
    BY <1>1, <1>2, <2>1, TakesBlocks
<1>9. k.ret = "ok" /\ j.op = "download" => Arrived(r, x, k, y, j)
  <2> SUFFICES ASSUME k.ret = "ok" /\ j.op = "download"
               PROVE  Arrived(r, x, k, y, j)
    OBVIOUS
  <2>1. Arrived(s, x, k, y, j)
    BY DEF Down
  <2>2. s.rx.c \notin Requests /\ s.st \in Gone /\ Written(s, j)
        /\ \A f \in Held(x, s.rx) : f.c \notin Requests
    BY ONLY <1>3, <2>1 DEF Arrived
  <2>3. r.st = "ABORT" /\ r.od = s.od /\ r.rx = None
    BY ONLY <1>1, <2>2 DEF Took
  <2> QED
    BY ONLY <2>2, <2>3, HeldLess DEF Arrived, Written, Gone
<1> QED
  BY ONLY <1>2, <1>4, <1>6, <1>7, <1>8, <1>9 DEF Down

\* A server that waits sends nothing.
LEMMA WaitsGive ==
  ASSUME NEW s, s.st \in SrvWaits
  PROVE  SendAbort(SrvSend(s)) = s
<1>1. SrvSend(s) = s
  BY Zenon DEF SrvSend, SrvWaits
<1> QED
  BY <1>1, Zenon DEF SendAbort, SrvWaits

\* What is left of an earlier transfer says nothing that counts.
GaveNoise(e, s, z) ==
  /\ e.st \in {"IDLE", "DOWNLOAD_BLK_END_REQ", "DOWNLOAD_BLK_SUBBLOCK_REQ"}
  /\ s.st = "ABORT" => e.st = "IDLE" /\ e.od = s.od
  /\ \E g \in Frames : g.c \in Noise /\ z = <<g>>

LEMMA GivesNoise ==
  ASSUME NEW e, NEW s, Gave(e, s), s.st \in {"ABORT", "DOWNLOAD_BLK_SUBBLOCK_RSP"}
  PROVE  GaveNoise(e, s, e.out)
<1>1. GaveAbort(e, s) \/ GaveSubBlock(e, s)
  BY ONLY Gave(e, s), s.st \in {"ABORT", "DOWNLOAD_BLK_SUBBLOCK_RSP"}
     DEF Gave, GaveInitiated, GaveSegment, GaveBlock, GaveEnd, GaveUpload, SrvWaits, UpWork, UpStart, UpBlock
<1>2. CASE GaveAbort(e, s)
  <2>1. e.st = "IDLE" /\ e.out = <<abort>> /\ (s.st = "ABORT" => e.od = s.od)
    BY ONLY <1>2 DEF GaveAbort
  <2>2. \E g \in Frames : g.c \in Noise /\ e.out = <<g>>
    BY ONLY <2>1, AbortIsNoise
  <2> QED
    BY ONLY <2>1, <2>2 DEF GaveNoise
<1>3. CASE GaveSubBlock(e, s)
  <2>1. \E g \in Frames : g.c \in Noise /\ e.out = <<g>>
    BY ONLY <1>3 DEF GaveSubBlock, Noise
  <2>2. s.st # "ABORT" /\ e.st \in {"DOWNLOAD_BLK_END_REQ", "DOWNLOAD_BLK_SUBBLOCK_REQ"}
    BY ONLY <1>3 DEF GaveSubBlock
  <2> QED
    BY ONLY <2>1, <2>2 DEF GaveNoise
<1> QED
  BY ONLY <1>1, <1>2, <1>3

LEMMA NoiseLouder ==
  ASSUME NEW e, NEW s, NEW z, GaveNoise(e, s, z), NEW y \in Seq(Frames), NEW c \in Frames \cup {None}
  PROVE  Louder(y \o z, y, c)
BY NoiseIs DEF GaveNoise

\* The end of a server's step, as far as it alone is concerned.
LEMMA GivesSrvDown ==
  ASSUME NEW s, SrvOK(s), SrvDown(s), s.st \notin SrvWaits, NEW e, Gave(e, s)
  PROVE  SrvDown(e)
<1>1. Sizes(e) /\ e.idx = s.idx
  BY ONLY Gave(e, s), SrvDown(s) DEF Gave, SrvDown
<1>2. e.st \in DownBlock => GaveBlock(e, s) \/ GaveSubBlock(e, s)
  BY ONLY Gave(e, s), s.st \notin SrvWaits
     DEF Gave, GaveAbort, GaveInitiated, GaveSegment, GaveEnd, GaveUpload, UpWork, UpStart, UpBlock, DownBlock
<1>3. e.st # "DOWNLOAD_BLK_INITIATE_RSP"
  BY ONLY Gave(e, s), s.st \notin SrvWaits
     DEF Gave, GaveAbort, GaveInitiated, GaveSegment, GaveBlock, GaveSubBlock, GaveEnd, GaveUpload,
         UpWork, UpStart, UpBlock
<1>4. e.st = "DOWNLOAD_BLK_END_REQ" => e.fin = 1
  BY ONLY <1>2 DEF GaveBlock, GaveSubBlock, DownBlock
<1>5. GaveBlock(e, s) => Cover(e)
  <2> SUFFICES ASSUME GaveBlock(e, s)
               PROVE  Cover(e)
    OBVIOUS
  <2>1. s.st = "DOWNLOAD_BLK_INITIATE_RSP" /\ e.od = s.od /\ e.pos = s.pos /\ e.len = s.len /\ e.crc = <<>>
    BY ONLY GaveBlock(e, s) DEF GaveBlock
  <2>2. s.pos = 0 /\ s.len = Len(s.od[s.idx])
    BY ONLY <2>1, SrvDown(s) DEF SrvDown
  <2>3. s.od[s.idx] \in Data
    BY <2>1 DEF SrvOK, SrvBase, SrvAt, SrvRecord, AtPlace, DownStart
  <2>4. Front_(s.od[s.idx], 0) = <<>>
    BY ONLY <2>3, WholeIs
  <2> QED
    BY ONLY <1>1, <2>1, <2>2, <2>4 DEF Cover
<1>6. GaveSubBlock(e, s) => Cover(e)
  BY ONLY SrvDown(s) DEF GaveSubBlock, SrvDown, DownBlock
<1> QED
  BY ONLY <1>1, <1>2, <1>3, <1>4, <1>5, <1>6 DEF SrvDown

\* The answer to the client's question.
LEMMA GivesAnswer ==
  ASSUME NEW s, SrvOK(s), NEW e, Gave(e, s), NEW k, k.fin \in Bit, k.st \in CliAsks,
         NEW j \in Jobs, Answering(s, k, j)
  PROVE  /\ Answers(e, k, j) /\ e.st \in Old
         /\ \E g \in Frames : e.out = <<g>> /\ g.c \notin Noise
<1>1. s.idx = j.obj /\ s.st = k.st /\ s.st \in CliAsks /\ e.idx = s.idx
  BY DEF Answering, Gave
<1>2. GaveInitiated(e, s) \/ GaveSegment(e, s) \/ GaveBlock(e, s)
  BY ONLY <1>1, Gave(e, s)
     DEF Gave, GaveAbort, GaveSubBlock, GaveEnd, GaveUpload, CliAsks, SrvWaits, UpWork, UpStart, UpBlock
<1>3. s.od[s.idx] \in Data /\ j.data \in Data /\ s.fin \in Bit
  <2>1. s \in SrvRecord /\ s.idx \in Obj /\ j.data \in Data
    BY <1>1, JobIs DEF SrvOK, SrvBase
  <2> QED
    BY ONLY <2>1 DEF SrvRecord
<1>4. CASE GaveInitiated(e, s)
  <2>1. /\ s.st = "DOWNLOAD_INITIATE_RSP" /\ e.od = s.od /\ e.pos = s.pos /\ e.len = s.len
        /\ \E g \in Frames : e.out = <<g>> /\ g.c \notin Noise
        /\ \/ s.fin = 1 /\ e.st = "IDLE"
           \/ s.fin = 0 /\ e.st = "DOWNLOAD_SEGMENT_REQ" /\ e.t = 0 /\ e.buf = <<>>
    BY ONLY <1>4 DEF GaveInitiated
  <2>2. /\ s.fin = k.fin /\ (k.fin = 1 => Written(s, j))
        /\ k.fin = 0 => s.pos = 0 /\ s.len = Len(s.od[j.obj])
    BY ONLY <1>1, <2>1, Answering(s, k, j) DEF Answering
  <2>3. k.fin = 1 => Written(e, j) /\ e.st \in Gone
    BY ONLY <2>1, <2>2 DEF Written, Gone
  <2>4. k.fin = 0 => Sync(e, j, 0) /\ e.t = 0
    <3> SUFFICES ASSUME k.fin = 0
                 PROVE  Sync(e, j, 0) /\ e.t = 0
      OBVIOUS
    <3>1. e.t = 0 /\ e.buf = <<>> /\ e.pos = 0 /\ e.len = Len(e.od[j.obj]) /\ e.idx = j.obj
      BY ONLY <1>1, <2>1, <2>2, k.fin = 0
    <3>2. Front_(e.od[j.obj], 0) = <<>> /\ Front_(j.data, 0) = <<>> /\ <<>> \o <<>> = <<>>
      BY ONLY <1>1, <1>3, <2>1, WholeIs, CatNone
    <3>3. 0 <= Len(j.data)
      BY ONLY <1>3, LenIs
    <3> QED
      BY ONLY <3>1, <3>2, <3>3 DEF Sync
  <2>5. e.st \in Old
    BY ONLY <2>1 DEF Old, SrvWaits
  <2>6. k.st = "DOWNLOAD_INITIATE_RSP"
    BY ONLY <1>1, <2>1
  <2> QED
    BY ONLY <2>1, <2>3, <2>4, <2>5, <2>6 DEF Answers
<1>5. CASE GaveSegment(e, s)
  <2>1. /\ s.st = "DOWNLOAD_SEGMENT_RSP" /\ e.od = s.od /\ e.pos = s.pos /\ e.len = s.len /\ e.buf = s.buf
        /\ \E g \in Frames : e.out = <<g>> /\ g.c \notin Noise
        /\ \/ s.fin = 1 /\ e.st = "IDLE"
           \/ s.fin = 0 /\ e.st = "DOWNLOAD_SEGMENT_REQ" /\ e.t = 1 - s.t
    BY ONLY <1>5 DEF GaveSegment
  <2>2. /\ s.fin = k.fin /\ s.t = k.t /\ (k.fin = 1 => Written(s, j))
        /\ k.fin = 0 => Sync(s, j, k.tran)
    BY ONLY <1>1, <2>1, Answering(s, k, j) DEF Answering
  <2>3. k.fin = 1 => Written(e, j) /\ e.st \in Gone
    BY ONLY <2>1, <2>2 DEF Written, Gone
  <2>4. k.fin = 0 => Sync(e, j, k.tran) /\ e.t = 1 - k.t
    <3>1. e.idx = s.idx /\ e.od = s.od /\ e.pos = s.pos /\ e.len = s.len /\ e.buf = s.buf
      BY ONLY <1>1, <2>1
    <3>2. Sync(s, j, k.tran) => Sync(e, j, k.tran)
      BY ONLY <3>1 DEF Sync
    <3>3. k.fin = 0 => e.t = 1 - k.t
      BY ONLY <2>1, <2>2
    <3> QED
      BY ONLY <2>2, <3>2, <3>3
  <2>5. e.st \in Old
    BY ONLY <2>1 DEF Old, SrvWaits
  <2>6. k.st = "DOWNLOAD_SEGMENT_RSP"
    BY ONLY <1>1, <2>1
  <2> QED
    BY ONLY <2>1, <2>3, <2>4, <2>5, <2>6 DEF Answers
<1>6. CASE GaveBlock(e, s)
  <2>1. /\ s.st = "DOWNLOAD_BLK_INITIATE_RSP" /\ e.st = "DOWNLOAD_BLK_SUBBLOCK_REQ"
        /\ \E g \in Frames : e.out = <<g>> /\ g.c = "blkDownloadOk"
    BY ONLY <1>6 DEF GaveBlock
  <2>2. \E g \in Frames : e.out = <<g>> /\ g.c \notin Noise
    BY ONLY <2>1 DEF Noise
  <2>3. e.st \in Old /\ e.st \in DownBlock
    BY ONLY <2>1 DEF Old, SrvWaits, DownBlock
  <2> QED
    BY ONLY <1>1, <2>1, <2>2, <2>3 DEF Answers
<1> QED
  BY ONLY <1>2, <1>4, <1>5, <1>6

LEMMA GivesWaiting ==
  ASSUME NEW s, SrvOK(s), s.st \notin SrvWaits, NEW e, Gave(e, s),
         NEW k, k.fin \in Bit, k.st \in CliAsks, k.rx \in Frames \cup {None}, NEW j \in Jobs,
         NEW x \in Seq(Frames), NEW y \in Seq(Frames), Waiting(s, x, k, y, j)
  PROVE  Waiting(e, x, k, y \o e.out, j)
<1>1. e.idx = s.idx /\ Fewer(x, e.rx, x, s.rx)
  <2>1. e.idx = s.idx /\ e.rx \in {s.rx, None} /\ s.rx \in Frames \cup {None}
    BY DEF Gave, SrvOK, SrvBase, SrvRecord
  <2>2. Fewer(x, s.rx, x, s.rx) /\ Fewer(x, None, x, s.rx)
    BY ONLY <2>1, FewerFrames, x \in Seq(Frames)
  <2> QED
    BY ONLY <2>1, <2>2
<1>2. Turn(s, x, k, y)
  BY DEF Waiting
<1> DEFINE v == y \o e.out
<1>3. CASE s.st \in Old /\ (\A f \in Held(x, s.rx) : Asked(f, s, k, j)) /\ (Mute(y, k.rx) \/ Answers(s, k, j))
  <2>1. s.st \in {"ABORT", "DOWNLOAD_BLK_SUBBLOCK_RSP"}
    BY <1>3 DEF Old
  <2>2. GaveNoise(e, s, e.out)
    BY ONLY <2>1, Gave(e, s), GivesNoise
  <2>3. Louder(v, y, k.rx)
    BY <2>2, NoiseLouder
  <2>4. /\ e.st \in {"IDLE", "DOWNLOAD_BLK_END_REQ", "DOWNLOAD_BLK_SUBBLOCK_REQ"}
        /\ s.st = "ABORT" => e.st = "IDLE" /\ e.od = s.od
    BY ONLY <2>2 DEF GaveNoise
  <2> HIDE DEF v
  <2>5. Turn(e, x, k, v)
    BY ONLY <1>1, <1>2, <2>3 DEF Turn, Fewer, Louder
  <2>6. \A f \in Held(x, e.rx) : Asked(f, e, k, j)
    BY ONLY <1>1, <1>3, <2>4 DEF Fewer, Asked
  <2>7. Answers(s, k, j) => Answers(e, k, j)
    <3>1. Gone \cap {"ABORT", "DOWNLOAD_BLK_SUBBLOCK_RSP"} = {"ABORT"} /\ "IDLE" \in Gone
          /\ "DOWNLOAD_BLK_END_REQ" \in DownBlock /\ "DOWNLOAD_BLK_SUBBLOCK_REQ" \in DownBlock
      BY ONLY DEF Gone, DownBlock
    <3>2. s.st \in Gone /\ Written(s, j) => Written(e, j) /\ e.st \in Gone
      BY ONLY <2>1, <2>4, <3>1 DEF Written
    <3>3. e.st # "DOWNLOAD_SEGMENT_REQ" /\ e.st \in DownBlock \cup Gone
      BY ONLY <2>4, <3>1
    <3> QED
      BY ONLY <1>1, <3>2, <3>3 DEF Answers
  <2>8. Mute(v, k.rx) \/ Answers(e, k, j)
    BY ONLY <1>3, <2>3, <2>7 DEF Louder
  <2>9. e.st \in Old
    BY ONLY <2>4 DEF Old, SrvWaits
  <2>10. Waiting(e, x, k, v, j)
    BY ONLY <2>5, <2>6, <2>8, <2>9 DEF Waiting
  <2> QED
    BY ONLY <2>10 DEF v
<1>4. CASE Quiet(x, s.rx) /\ Mute(y, k.rx) /\ Answering(s, k, j)
  <2>1. Answers(e, k, j) /\ e.st \in Old
    BY <1>4, GivesAnswer
  <2>2. PICK g \in Frames : e.out = <<g>> /\ g.c \notin Noise
    BY <1>4, GivesAnswer
  <2>3. Quiet(x, e.rx)
    BY ONLY <1>1, <1>4 DEF Fewer
  <2>4. Held(x, e.rx) = {} /\ Alone(x, e.rx)
    BY ONLY <2>3, NoFrames
  <2>5. Single(v, k.rx)
    BY <1>4, <2>2, OneMore
  <2> HIDE DEF v
  <2>6. Turn(e, x, k, v)
    BY ONLY <2>3, <2>4, <2>5 DEF Turn
  <2>7. Waiting(e, x, k, v, j)
    BY ONLY <2>1, <2>4, <2>6 DEF Waiting
  <2> QED
    BY ONLY <2>7 DEF v
<1> QED
  BY ONLY <1>3, <1>4, Waiting(s, x, k, y, j) DEF Waiting

LEMMA GivesBlocks ==
  ASSUME NEW s, SrvOK(s), s.st \notin SrvWaits, NEW e, Gave(e, s),
         NEW k, k.rx \in Frames \cup {None}, NEW j,
         NEW x \in Seq(Frames), NEW y \in Seq(Frames), Blocks(s, x, k, y, j)
  PROVE  Blocks(e, x, k, y \o e.out, j)
<1>1. e.idx = s.idx /\ Fewer(x, e.rx, x, s.rx)
  <2>1. e.idx = s.idx /\ e.rx \in {s.rx, None} /\ s.rx \in Frames \cup {None}
    BY DEF Gave, SrvOK, SrvBase, SrvRecord
  <2>2. Fewer(x, s.rx, x, s.rx) /\ Fewer(x, None, x, s.rx)
    BY ONLY <2>1, FewerFrames, x \in Seq(Frames)
  <2> QED
    BY ONLY <2>1, <2>2
<1> DEFINE v == y \o e.out
           OkIs(g, r) == g.c = "blkEndOk" => k.st = "DOWNLOAD_BLK_END_RSP" /\ Written(r, j) /\ r.st \in Gone
<1>2. s.idx = j.obj /\ s.st \in {"ABORT", "DOWNLOAD_BLK_SUBBLOCK_RSP", "DOWNLOAD_BLK_END_RSP"}
  BY ONLY s.st \notin SrvWaits, Blocks(s, x, k, y, j) DEF Blocks, SrvWaits, DownBlock, Gone
<1>3. \A f \in Held(x, e.rx) :
        /\ f.c \notin Requests
        /\ f.c = "blkEnd" => k.st = "DOWNLOAD_BLK_END_RSP" /\ f.crc = j.data
  BY ONLY <1>1, Blocks(s, x, k, y, j) DEF Blocks, Fewer
<1>4. \A g \in Held(y, k.rx) : OkIs(g, s)
  BY ONLY Blocks(s, x, k, y, j) DEF Blocks
<1>5. CASE s.st # "DOWNLOAD_BLK_END_RSP"
  <2>1. GaveNoise(e, s, e.out)
    BY <1>2, <1>5, GivesNoise
  <2>2. Louder(v, y, k.rx)
    BY <2>1, NoiseLouder
  <2>3. /\ e.st \in {"IDLE", "DOWNLOAD_BLK_END_REQ", "DOWNLOAD_BLK_SUBBLOCK_REQ"}
        /\ s.st = "ABORT" => e.st = "IDLE" /\ e.od = s.od
    BY ONLY <2>1 DEF GaveNoise
  <2> HIDE DEF v
  <2>4. \A g : OkIs(g, s) => OkIs(g, e)
    BY ONLY <1>2, <2>3 DEF Written, Gone
  <2>5. \A g \in Held(v, k.rx) : OkIs(g, e)
    <3>1. \A g : g.c \in Noise => g.c # "blkEndOk"
      BY ONLY DEF Noise
    <3> QED
      BY ONLY <1>4, <2>2, <2>4, <3>1 DEF Louder
  <2>6. e.st # "DOWNLOAD_BLK_END_RSP" /\ e.st \in DownBlock \cup Gone
    BY ONLY <2>3 DEF DownBlock, Gone
  <2>7. Blocks(e, x, k, v, j)
    BY ONLY <1>1, <1>2, <1>3, <2>5, <2>6 DEF Blocks
  <2> QED
    BY ONLY <2>7 DEF v
<1>6. CASE s.st = "DOWNLOAD_BLK_END_RSP"
  <2>1. k.st = "DOWNLOAD_BLK_END_RSP" /\ Written(s, j)
    BY ONLY <1>6, Blocks(s, x, k, y, j) DEF Blocks
  <2>2. GaveEnd(e, s)
    BY ONLY <1>6, Gave(e, s)
       DEF Gave, GaveAbort, GaveInitiated, GaveSegment, GaveBlock, GaveSubBlock, GaveUpload, SrvWaits,
           UpWork, UpStart, UpBlock
  <2>3. e.st = "IDLE" /\ e.od = s.od
    BY ONLY <2>2 DEF GaveEnd
  <2>4. \A g : OkIs(g, e)
    BY ONLY <2>1, <2>3 DEF Written, Gone
  <2> QED
    BY ONLY <1>1, <1>2, <1>3, <2>3, <2>4 DEF Blocks, Gone
<1> QED
  BY ONLY <1>5, <1>6

LEMMA SrvGivesDown ==
  ASSUME NEW s, SrvOK(s), s.out = <<>>, NEW k, k.fin \in Bit, k.rx \in Frames \cup {None},
         NEW j, NEW x \in Seq(Frames), NEW y \in Seq(Frames), Down(s, x, k, y, j)
  PROVE  LET e == SendAbort(SrvSend(s)) IN Down(e, x, k, y \o e.out, j)
<1> DEFINE e == SendAbort(SrvSend(s))
           v == y \o e.out
<1>1. CASE s.st \in SrvWaits
  <2>1. e = s
    BY <1>1, WaitsGive
  <2>2. y \o <<>> = y
    OBVIOUS
  <2> QED
    BY <2>1, <2>2
<1>2. CASE s.st \notin SrvWaits
  <2>1. Gave(e, s)
    BY SrvGives
  <2> SUFFICES Down(e, x, k, y \o e.out, j)
    OBVIOUS
  <2> HIDE DEF e
  <2>2. e.rx \in {s.rx, None} /\ s.rx \in Frames \cup {None}
    BY <2>1 DEF Gave, SrvOK, SrvBase, SrvRecord
  <2>3. Fewer(x, e.rx, x, s.rx)
    <3>1. Fewer(x, s.rx, x, s.rx) /\ Fewer(x, None, x, s.rx)
      BY ONLY <2>2, FewerFrames, x \in Seq(Frames)
    <3> QED
      BY ONLY <2>2, <3>1
  <2>4. SrvDown(s) /\ CliHas(k, j)
    BY DEF Down
  <2>5. SrvDown(e)
    BY <1>2, <2>1, <2>4, GivesSrvDown
  <2>6. k.st \in CliAsks => Waiting(e, x, k, v, j)
    <3> SUFFICES ASSUME k.st \in CliAsks
                 PROVE  Waiting(e, x, k, v, j)
      OBVIOUS
    <3>1. Waiting(s, x, k, y, j)
      BY DEF Down
    <3>2. j \in Jobs
      BY ONLY <2>4, k.st \in CliAsks DEF CliHas, CliAsks
    <3> QED
      BY <1>2, <2>1, <3>1, <3>2, GivesWaiting
  <2>7. k.st \in CliReady => Ready(e, x, k, v, j)
    <3> SUFFICES ASSUME k.st \in CliReady
                 PROVE  Ready(e, x, k, v, j)
      OBVIOUS
    <3>1. Quiet(x, s.rx) /\ Mute(y, k.rx) /\ s.st \in Old
      BY DEF Down, Ready
    <3>2. s.st \in {"ABORT", "DOWNLOAD_BLK_SUBBLOCK_RSP"}
      BY <1>2, <3>1 DEF Old
    <3>3. GaveNoise(e, s, e.out)
      BY ONLY <2>1, <3>2, GivesNoise
    <3>4. Louder(v, y, k.rx)
      BY <3>3, NoiseLouder
    <3> HIDE DEF v
    <3>5. Mute(v, k.rx) /\ Quiet(x, e.rx)
      BY ONLY <2>3, <3>1, <3>4 DEF Louder, Fewer
    <3>6. e.st \in Old /\ e.st # "DOWNLOAD_SEGMENT_REQ"
      BY ONLY <3>3 DEF GaveNoise, Old, SrvWaits
    <3> QED
      BY ONLY <3>5, <3>6 DEF Ready
  <2>8. k.st \in CliBlock => Blocks(e, x, k, v, j)
    <3> SUFFICES ASSUME k.st \in CliBlock
                 PROVE  Blocks(e, x, k, v, j)
      OBVIOUS
    <3>1. Blocks(s, x, k, y, j)
      BY DEF Down
    <3> QED
      BY <1>2, <2>1, <3>1, GivesBlocks
  <2>9. k.ret = "ok" /\ j.op = "download" => Arrived(e, x, k, v, j)
    <3> SUFFICES ASSUME k.ret = "ok" /\ j.op = "download"
                 PROVE  Arrived(e, x, k, v, j)
      OBVIOUS
    <3>1. Arrived(s, x, k, y, j)
      BY DEF Down
    <3>2. s.st = "ABORT" /\ Written(s, j)
      BY ONLY <1>2, <3>1 DEF Arrived, Gone, SrvWaits
    <3>3. e.st = "IDLE" /\ e.od = s.od
      BY ONLY <2>1, <3>2, GivesNoise DEF GaveNoise
    <3> QED
      BY ONLY <2>3, <3>1, <3>2, <3>3 DEF Arrived, Written, Gone, Fewer
  <2> HIDE DEF v
  <2>10. Down(e, x, k, v, j)
    BY ONLY <2>4, <2>5, <2>6, <2>7, <2>8, <2>9 DEF Down
  <2> QED
    BY ONLY <2>10 DEF v
<1> QED
  BY <1>1, <1>2

ArriveInv ==
  Down(srv, toSrv, cli, toCli, job) /\ srv.out = <<>> /\ cli.out = <<>>

LEMMA TypesAre ==
  ASSUME SdoInv
  PROVE  /\ SrvOK(srv) /\ srv \in SrvRecord /\ srv.rx \in Frames \cup {None} /\ DOMAIN srv = SrvFields
         /\ CliOK(cli) /\ cli \in CliRecord /\ cli.rx \in Frames \cup {None} /\ cli.fin \in Bit
         /\ toSrv \in Seq(Frames) /\ toCli \in Seq(Frames) /\ job \in Jobs \cup {None}
<1>1. SrvOK(srv) /\ srv \in SrvRecord /\ CliOK(cli) /\ cli \in CliRecord
  BY DEF SdoInv, SrvOK, SrvBase, CliOK, CliBase
<1>2. srv.rx \in Frames \cup {None} /\ DOMAIN srv = SrvFields
  BY ONLY <1>1, FieldsAre DEF SrvRecord
<1>3. cli.rx \in Frames \cup {None} /\ cli.fin \in Bit
  BY ONLY <1>1 DEF CliRecord
<1> QED
  BY ONLY <1>1, <1>2, <1>3, SdoInv DEF SdoInv

LEMMA EmptyCat == \A y \in Seq(Frames) : y \o <<>> = y
OBVIOUS

LEMMA SameAre == /\ \A s : SameSrv(s, s)
                 /\ \A k : SameCli(k, k)
BY DEF SameSrv, SameCli

\* The server's step ends.
LEMMA SrvGoesOnDown ==
  ASSUME SdoInv, cli.out = <<>>, NEW e, DOMAIN e = SrvFields, e.rx \in Frames \cup {None},
         toCli \o e.out \in Seq(Frames),
         Down(e, toSrv, cli, toCli \o e.out, job), SrvGoesOn(e)
  PROVE  ArriveInv'
<1> DEFINE r == [e EXCEPT !.out = <<>>]
           v == toCli \o e.out
<1>1. srv' = r /\ toCli' = v /\ cli' = cli /\ toSrv' = toSrv /\ job' = job
  BY DEF SrvGoesOn
<1>2. SameSrv(r, e) /\ r.out = <<>> /\ r.rx = e.rx
  BY ONLY DOMAIN e = SrvFields DEF SameSrv, SrvFields
<1>3. Fewer(toSrv, e.rx, toSrv, e.rx) /\ Fewer(v, cli.rx, v, cli.rx)
  BY TypesAre, FewerFrames
<1>4. Down(e, toSrv, cli, v, job)
  OBVIOUS
<1> HIDE DEF r, v
<1>5. Down(r, toSrv, cli, v, job)
  BY ONLY <1>2, <1>3, <1>4, SameAre, DownFewer
<1> QED
  BY ONLY <1>1, <1>2, <1>5, cli.out = <<>> DEF ArriveInv

LEMMA SrvMoveDown ==
  ASSUME SdoInv, cli.out = <<>>, NEW s, SrvOK(s), s.out = <<>>, Down(s, toSrv, cli, toCli, job),
         SrvMove(s)
  PROVE  ArriveInv'
<1> DEFINE e == SendAbort(SrvSend(s))
<1>1. SrvOK(e) /\ Down(e, toSrv, cli, toCli \o e.out, job)
  BY SrvSendOK, SrvSendAbortOK, SrvGivesDown, TypesAre
<1>2. Down(s, toSrv, cli, toCli \o s.out, job)
  BY TypesAre, EmptyCat
<1>3. SrvGoesOn(e) \/ SrvGoesOn(s)
  BY DEF SrvMove
<1>4. ASSUME NEW r, SrvOK(r)
      PROVE  DOMAIN r = SrvFields /\ r.rx \in Frames \cup {None} /\ toCli \o r.out \in Seq(Frames)
  <2>1. r \in SrvRecord
    BY <1>4 DEF SrvOK, SrvBase
  <2>2. DOMAIN r = SrvFields /\ r.rx \in Frames \cup {None} /\ r.out \in Seq(Frames)
    BY ONLY <2>1, FieldsAre DEF SrvRecord
  <2> QED
    BY <2>2, TypesAre, ConcatProperties
<1> HIDE DEF e
<1> QED
  BY <1>1, <1>2, <1>3, <1>4, SrvGoesOnDown

LEMMA ArriveSrvProcess ==
  ASSUME SdoInv, ArriveInv, JobOK(job), CO_SDOserver_process
  PROVE  ArriveInv'
<1> DEFINE s == IF srv.rx = None THEN srv ELSE SrvTake(srv)
<1>1. SrvMove(s)
  BY DEF CO_SDOserver_process
<1>2. SrvOK(s) /\ s.out = <<>> /\ Down(s, toSrv, cli, toCli, job)
  <2>1. CASE srv.rx = None
    BY <2>1, TypesAre DEF ArriveInv
  <2>2. CASE srv.rx # None
    <3>1. srv.rx \in Frames /\ SrvOK(srv)
      BY <2>2, TypesAre
    <3>2. SrvOK(SrvTake(srv))
      BY ONLY <3>1, SrvTakeOK
    <3>3. SrvTake(srv).out = srv.out
      BY ONLY <3>1, SrvTakes DEF Took
    <3>4. Down(SrvTake(srv), toSrv, cli, toCli, job)
      BY ONLY <2>2, <3>1, SrvTakesDown, TypesAre, SdoInv, ArriveInv, JobOK(job) DEF ArriveInv
    <3> QED
      BY ONLY <2>2, <3>2, <3>3, <3>4, ArriveInv DEF ArriveInv
  <2> QED
    BY ONLY <2>1, <2>2
<1> HIDE DEF s
<1> QED
  BY ONLY <1>1, <1>2, SrvMoveDown, SdoInv, ArriveInv DEF ArriveInv

LEMMA ArriveSrvTimeout ==
  ASSUME SdoInv, ArriveInv, SrvTimeout
  PROVE  ArriveInv'
<1> DEFINE c == Stop(srv)
           e == SendAbort(c)
<1>1. SrvGoesOn(c) \/ SrvGoesOn(e)
  BY DEF SrvTimeout
<1>2. Kept(c, srv) /\ c.st = "ABORT" /\ c.rx = srv.rx /\ c.out = <<>>
  BY TypesAre, StopKept, SrvStopIs DEF Kept, ArriveInv
<1>3. e.st = "IDLE" /\ e.out = <<abort>> /\ e.od = c.od /\ e.idx = c.idx /\ e.rx = c.rx
  BY ONLY <1>2, SendAbortDoes DEF Kept
<1>4. DOMAIN e = SrvFields
  BY ONLY <1>2 DEF Kept, SendAbort, Send, SrvFields
<1> HIDE DEF c, e
<1>5. Louder(toCli \o c.out, toCli, cli.rx) /\ Louder(toCli \o e.out, toCli, cli.rx)
      /\ toCli \o c.out \in Seq(Frames) /\ toCli \o e.out \in Seq(Frames)
  <2>1. toCli \o <<abort>> \in Seq(Frames) /\ toCli \o <<>> = toCli
    BY TypesAre, AbortIsNoise, EmptyCat
  <2> QED
    BY <1>2, <1>3, <2>1, NoiseIs, AbortIsNoise, TypesAre
<1>6. Fewer(toSrv, srv.rx, toSrv, srv.rx)
  BY TypesAre, FewerFrames
<1>7. Down(srv, toSrv, cli, toCli, job) /\ cli.out = <<>>
  BY DEF ArriveInv
<1>8. /\ c.od = srv.od /\ c.idx = srv.idx /\ c.st \in Gone
      /\ e.od = srv.od /\ e.idx = srv.idx /\ e.st \in Gone /\ e.rx = srv.rx
  BY ONLY <1>2, <1>3 DEF Kept, Gone
<1>9. Down(c, toSrv, cli, toCli \o c.out, job)
  BY ONLY <1>2, <1>5, <1>6, <1>7, <1>8, DownReset
<1>10. Down(e, toSrv, cli, toCli \o e.out, job)
  BY ONLY <1>5, <1>6, <1>7, <1>8, DownReset
<1>11. DOMAIN c = SrvFields /\ c.rx \in Frames \cup {None} /\ e.rx \in Frames \cup {None}
  BY <1>2, <1>8, TypesAre DEF Kept
<1> QED
  BY ONLY <1>1, <1>4, <1>5, <1>7, <1>9, <1>10, <1>11, SrvGoesOnDown, SdoInv

\* A segment of a block, or the end of waiting for one.
LEMMA DownStored ==
  ASSUME NEW s, s.st = "DOWNLOAD_BLK_SUBBLOCK_REQ", NEW r, BlockStored(r, s), NEW k, NEW j,
         NEW x, NEW y, Down(s, x, k, y, j), NEW u, Fewer(u, r.rx, x, s.rx)
  PROVE  Down(r, u, k, y, j)
<1>1. /\ r.idx = s.idx /\ r.od = s.od /\ r.pos = s.pos /\ r.len = s.len /\ r.crc = s.crc
      /\ r.st \in {"DOWNLOAD_BLK_SUBBLOCK_REQ", "DOWNLOAD_BLK_SUBBLOCK_RSP"}
  BY DEF BlockStored
<1>2. s.st \in DownBlock /\ s.st \notin Gone /\ s.st # "DOWNLOAD_SEGMENT_REQ" /\ s.st \notin CliAsks
      /\ r.st \in DownBlock /\ r.st \in Old /\ r.st # "DOWNLOAD_SEGMENT_REQ"
      /\ r.st # "DOWNLOAD_BLK_END_RSP"
  BY ONLY <1>1, s.st = "DOWNLOAD_BLK_SUBBLOCK_REQ" DEF DownBlock, Gone, Old, SrvWaits, CliAsks
<1>3. SrvDown(s) /\ CliHas(k, j)
  BY DEF Down
<1>4. SrvDown(r)
  <2>1. Sizes(r) /\ (Cover(s) => Cover(r))
    BY ONLY <1>1, <1>3 DEF SrvDown, Sizes, Cover
  <2> QED
    BY ONLY <1>1, <1>2, <1>3, <2>1 DEF SrvDown
<1>5. k.st \in CliAsks => Waiting(r, u, k, y, j)
  <2> SUFFICES ASSUME k.st \in CliAsks
               PROVE  Waiting(r, u, k, y, j)
    OBVIOUS
  <2>1. Waiting(s, x, k, y, j)
    BY DEF Down
  <2>2. ~Answering(s, k, j)
    BY ONLY <1>2, k.st \in CliAsks DEF Answering
  <2>3. /\ Turn(s, x, k, y) /\ (\A f \in Held(x, s.rx) : Asked(f, s, k, j))
        /\ Mute(y, k.rx) \/ Answers(s, k, j)
    BY ONLY <2>1, <2>2 DEF Waiting
  <2>4. Turn(r, u, k, y)
    BY ONLY <2>3, Fewer(u, r.rx, x, s.rx) DEF Turn, Fewer
  <2>5. \A f \in Held(u, r.rx) : Asked(f, r, k, j)
    BY ONLY <1>2, <2>3, Fewer(u, r.rx, x, s.rx) DEF Fewer, Asked
  <2>6. Answers(s, k, j) => Answers(r, k, j)
    BY ONLY <1>1, <1>2 DEF Answers
  <2> QED
    BY ONLY <1>2, <2>3, <2>4, <2>5, <2>6 DEF Waiting
<1>6. k.st \in CliReady => Ready(r, u, k, y, j)
  BY ONLY <1>2, Down(s, x, k, y, j), Fewer(u, r.rx, x, s.rx) DEF Down, Ready, Fewer
<1>7. k.st \in CliBlock => Blocks(r, u, k, y, j)
  <2> SUFFICES ASSUME k.st \in CliBlock
               PROVE  Blocks(r, u, k, y, j)
    OBVIOUS
  <2>1. Blocks(s, x, k, y, j)
    BY DEF Down
  <2> QED
    BY ONLY <1>1, <1>2, <2>1, Fewer(u, r.rx, x, s.rx) DEF Blocks, Fewer
<1>8. ~(k.ret = "ok" /\ j.op = "download")
  BY ONLY <1>2, Down(s, x, k, y, j) DEF Down, Arrived
<1> QED
  BY ONLY <1>3, <1>4, <1>5, <1>6, <1>7, <1>8 DEF Down

LEMMA ArriveSrvBlockTimeout ==
  ASSUME SdoInv, ArriveInv, SrvBlockTimeout
  PROVE  ArriveInv'
<1> DEFINE c == [srv EXCEPT !.half = 1, !.st = "DOWNLOAD_BLK_SUBBLOCK_RSP"]
<1>1. srv.st = "DOWNLOAD_BLK_SUBBLOCK_REQ" /\ SrvMove(c)
  BY DEF SrvBlockTimeout
<1>2. /\ SrvBase(srv) /\ srv \in SrvRecord /\ AtPlace(srv) /\ srv.rd = 0
         /\ Len(srv.buf) <= srv.tran
  BY <1>1 DEF SdoInv, SrvOK, SrvBase, SrvAt, DownBlock
<1>3. "DOWNLOAD_BLK_SUBBLOCK_RSP" \in DownBlock /\ "DOWNLOAD_BLK_SUBBLOCK_RSP" \in States
      /\ 1 \in Bit
  BY StatesAre DEF DownBlock, Bit
<1>4. c \in SrvRecord
  BY ONLY <1>2, <1>3 DEF SrvRecord
<1>5. /\ c.st = "DOWNLOAD_BLK_SUBBLOCK_RSP" /\ c.buf = srv.buf /\ c.tran = srv.tran
      /\ c.rd = srv.rd /\ c.rx = srv.rx /\ c.out = srv.out /\ c.crc = srv.crc
      /\ c.idx = srv.idx /\ c.nod = srv.nod /\ c.pos = srv.pos /\ c.len = srv.len /\ c.od = srv.od
  BY ONLY <1>2 DEF SrvRecord
<1> HIDE DEF c
<1>6. SrvBase(c) /\ AtPlace(c)
  BY ONLY <1>2, <1>4, <1>5 DEF SrvBase, AtPlace
<1>7. SrvOK(c)
  BY ONLY <1>2, <1>3, <1>5, <1>6, SrvAtIs DEF SrvOK
<1>8. BlockStored(c, srv)
  BY ONLY <1>5 DEF BlockStored
<1>9. Fewer(toSrv, c.rx, toSrv, srv.rx)
  BY <1>5, TypesAre, FewerFrames
<1>10. Down(srv, toSrv, cli, toCli, job) /\ c.out = <<>> /\ cli.out = <<>>
  BY ONLY <1>5, ArriveInv DEF ArriveInv
<1>11. Down(c, toSrv, cli, toCli, job)
  BY ONLY <1>1, <1>8, <1>9, <1>10, DownStored
<1> QED
  BY ONLY <1>1, <1>7, <1>10, <1>11, SdoInv, SrvMoveDown

LEMMA ArriveSrvReceive ==
  ASSUME SdoInv, ArriveInv, CO_SDO_receive
  PROVE  ArriveInv'
<1> DEFINE f == Head(toSrv)
           idle == [srv EXCEPT !.st = "IDLE"]
           stored == [StoreBlockSegment(srv, f) EXCEPT !.half = 0]
           heard == [srv EXCEPT !.rx = f]
           u == Tail(toSrv)
<1>1. /\ toSrv # <<>> /\ toSrv' = u /\ cli' = cli /\ toCli' = toCli /\ job' = job
      /\ \/ srv' = srv \/ srv' = idle
         \/ srv.rx = None /\ srv' = heard
         \/ srv.st = "DOWNLOAD_BLK_SUBBLOCK_REQ" /\ srv' = stored
  <2>1. srv' = CASE f.c = "abort" -> idle
              [] f.c # "abort" /\ srv.rx # None -> srv
              [] f.c = "blkEndOk" /\ srv.rx = None /\ srv.st = "UPLOAD_BLK_END_CRSP" -> idle
              [] f.c # "abort" /\ srv.rx = None /\ srv.st = "DOWNLOAD_BLK_SUBBLOCK_REQ" ->
                   IF BlockRoom(srv) THEN stored ELSE srv
              [] f.c # "abort" /\ srv.rx = None /\ srv.st = "DOWNLOAD_BLK_SUBBLOCK_RSP" -> srv
              [] OTHER -> heard
    BY DEF CO_SDO_receive
  <2> HIDE DEF f, idle, stored, heard
  <2>2. \/ srv' = srv \/ srv' = idle \/ (srv.rx = None /\ srv' = heard)
        \/ srv.st = "DOWNLOAD_BLK_SUBBLOCK_REQ" /\ srv' = stored
    <3>1. CASE f.c = "abort"
      <4>1. srv' = idle
        BY ONLY <2>1, <3>1
      <4> QED
        BY ONLY <4>1
    <3>2. CASE f.c # "abort" /\ srv.rx # None
      <4>1. srv' = srv
        BY ONLY <2>1, <3>2
      <4> QED
        BY ONLY <4>1
    <3>3. CASE f.c # "abort" /\ srv.rx = None
      <4>1. \/ srv' = srv \/ srv' = idle \/ srv' = heard
            \/ srv.st = "DOWNLOAD_BLK_SUBBLOCK_REQ" /\ srv' = stored
        BY ONLY <2>1
      <4> QED
        BY ONLY <3>3, <4>1
    <3> QED
      BY ONLY <3>1, <3>2, <3>3
  <2> QED
    BY <2>2 DEF CO_SDO_receive
<1>2. f \in Frames /\ toSrv \in Seq(Frames)
  BY <1>1, HeadTailProperties DEF SdoInv
<1>3. Down(srv, toSrv, cli, toCli, job) /\ srv.out = <<>> /\ cli.out = <<>>
  BY DEF ArriveInv
<1>4. /\ Fewer(u, srv.rx, toSrv, srv.rx) /\ Fewer(u, None, toSrv, srv.rx)
      /\ srv.rx = None => Fewer(u, f, toSrv, srv.rx)
      /\ Fewer(toCli, cli.rx, toCli, cli.rx)
  BY <1>1, TypesAre, FewerFrames
<1>5. Louder(toCli, toCli, cli.rx)
  BY TypesAre, NoiseIs, AbortIsNoise
<1> HIDE DEF f, u
<1>6. Down(srv, u, cli, toCli, job)
  BY ONLY <1>3, <1>4, SameAre, DownFewer
<1>7. Down(idle, u, cli, toCli, job) /\ idle.out = <<>>
  <2>1. idle.st \in Gone /\ idle.od = srv.od /\ idle.idx = srv.idx /\ idle.rx = srv.rx /\ idle.out = <<>>
    BY <1>3, TypesAre DEF SrvFields, Gone
  <2> HIDE DEF idle
  <2> QED
    BY ONLY <1>3, <1>4, <1>5, <2>1, DownReset
<1>8. srv.rx = None => Down(heard, u, cli, toCli, job) /\ heard.out = <<>>
  <2>1. SameSrv(heard, srv) /\ heard.rx = f /\ heard.out = <<>>
    BY <1>3, TypesAre DEF SrvFields, SameSrv
  <2> HIDE DEF heard
  <2> QED
    BY ONLY <1>3, <1>4, <2>1, SameAre, DownFewer
<1>9. srv.st = "DOWNLOAD_BLK_SUBBLOCK_REQ" => Down(stored, u, cli, toCli, job) /\ stored.out = <<>>
  <2> SUFFICES ASSUME srv.st = "DOWNLOAD_BLK_SUBBLOCK_REQ"
               PROVE  Down(stored, u, cli, toCli, job) /\ stored.out = <<>>
    OBVIOUS
  <2>1. BlockStored(stored, srv)
    BY <1>2, TypesAre, StoreBlockSegmentDoes
  <2> HIDE DEF stored
  <2>2. stored.out = <<>> /\ Fewer(u, stored.rx, toSrv, srv.rx)
    BY ONLY <1>3, <1>4, <2>1 DEF BlockStored
  <2> QED
    BY ONLY <1>3, <2>1, <2>2, DownStored, srv.st = "DOWNLOAD_BLK_SUBBLOCK_REQ"
<1> HIDE DEF idle, heard, stored
<1> QED
  BY ONLY <1>1, <1>3, <1>6, <1>7, <1>8, <1>9 DEF ArriveInv

CliFields == {"st", "idx", "ind", "tran", "fin", "t", "fifo", "alt", "seq", "blk", "nod", "crc",
              "lastSeg", "rx", "half", "out", "more", "got", "ret"}

LEMMA CliFieldsAre == \A k \in CliRecord : DOMAIN k = CliFields
BY DEF CliRecord, CliFields

\* A client that gives up claims nothing.
LEMMA CliGone ==
  ASSUME NEW s, NEW x, NEW k, NEW y, NEW j, Down(s, x, k, y, j), k.st # "IDLE",
         NEW q, q.st \in Gone, q.ret # "ok", NEW u, NEW v
  PROVE  Down(s, u, q, v, j)
<1>1. SrvDown(s) /\ j \in Jobs
  BY DEF Down, CliHas
<1>2. CliHas(q, j)
  BY ONLY <1>1, q.st \in Gone, q.ret # "ok"
     DEF CliHas, Gone, CliUp, UpAsked, UpSegment, UpBlock, CliDown, DownRequest, DownStart, DownSegment,
         DownBlock, DownSending
<1>3. q.st \notin CliAsks /\ q.st \notin CliReady /\ q.st \notin CliBlock
  BY ONLY q.st \in Gone DEF Gone, CliAsks, CliReady, CliBlock, DownRequest, DownSending
<1> QED
  BY ONLY <1>1, <1>2, <1>3, q.ret # "ok" DEF Down

\* Nor does an upload say anything of downloads.
LEMMA CliUpDown ==
  ASSUME NEW s, NEW x, NEW k, NEW y, NEW j, Down(s, x, k, y, j), k.st \in CliUp,
         NEW q, q.st \in CliUp \cup Gone, q.ret = "ok" => q.st = "IDLE", NEW u, NEW v
  PROVE  Down(s, u, q, v, j)
<1>1. SrvDown(s) /\ j \in Jobs /\ j.op = "upload"
  BY DEF Down, CliHas, CliUp, UpAsked, UpSegment, UpBlock
<1>2. q.st \notin CliDown
  BY ONLY q.st \in CliUp \cup Gone
     DEF Gone, CliUp, UpAsked, UpSegment, UpBlock, CliDown, DownRequest, DownStart, DownSegment, DownBlock
<1>3. q.st \notin CliAsks /\ q.st \notin CliReady /\ q.st \notin CliBlock
  BY ONLY <1>2 DEF CliDown, CliAsks, CliReady, CliBlock, DownRequest, DownStart, DownSegment, DownBlock, DownSending
<1>4. CliHas(q, j)
  BY ONLY <1>1, <1>2, q.ret = "ok" => q.st = "IDLE"
     DEF CliHas, CliDown, DownRequest, DownStart, DownSegment, DownBlock, DownSending
<1> QED
  BY ONLY <1>1, <1>3, <1>4 DEF Down

\* What an upload's step leaves as it was: unless it ends, what it returns.
Returns(r, k) == DOMAIN r = CliFields /\ (r.ret = k.ret \/ r.st = "IDLE")

LEMMA EndReturns ==
  ASSUME NEW k, DOMAIN k = CliFields, NEW ret
  PROVE  /\ Returns(k, k) /\ Returns(Stop(k), k) /\ Returns(End(k, ret), k)
         /\ \A g : Returns(Send(k, g), k) /\ Send(k, g).st = k.st
         /\ \A c : Returns([k EXCEPT !.rx = c], k) /\ [k EXCEPT !.rx = c].st = k.st
BY DEF Returns, CliFields, Stop, End, Send

LEMMA UploadInitiatedReturns ==
  ASSUME NEW k, DOMAIN k = CliFields
  PROVE  Returns(UploadInitiated(k), k) /\ Returns(BlockUploadInitiated(k), k)
<1> DEFINE d == [k EXCEPT !.fifo = @ \o Front_(k.rx.data, k.rx.ind), !.tran = k.rx.ind]
           ind == IF k.rx.ind > 0 THEN k.rx.ind ELSE k.ind
           b == [k EXCEPT !.ind = IF k.rx.ind > 0 THEN k.rx.ind ELSE @, !.t = 0, !.st = "UPLOAD_SEGMENT_REQ"]
           c == [k EXCEPT !.ind = IF k.rx.ind > 0 THEN k.rx.ind ELSE @, !.st = "UPLOAD_BLK_INITIATE_REQ2"]
<1>1. DOMAIN d = CliFields /\ DOMAIN b = CliFields /\ b.ret = k.ret /\ DOMAIN c = CliFields /\ c.ret = k.ret
  BY DEF CliFields
<1>2. UploadInitiated(k) = IF k.rx.exp = 1 THEN End(d, "ok") ELSE b
  BY DEF UploadInitiated
<1>3. BlockUploadInitiated(k) = CASE k.rx.c = "uploadOk" -> UploadInitiated(k)
                                  [] k.rx.c = "blkUploadOk" -> c
                                  [] OTHER -> Stop(k)
  BY DEF BlockUploadInitiated
<1> HIDE DEF d, b, c
<1>4. DOMAIN End(d, "ok") = CliFields /\ End(d, "ok").st = "IDLE"
  BY ONLY <1>1 DEF End, CliFields
<1>5. Returns(UploadInitiated(k), k)
  BY ONLY <1>1, <1>2, <1>4 DEF Returns
<1>6. Returns(c, k) /\ Returns(Stop(k), k)
  BY <1>1, EndReturns DEF Returns
<1>7. BlockUploadInitiated(k) \in {UploadInitiated(k), c, Stop(k)}
  BY ONLY <1>3
<1> QED
  BY ONLY <1>5, <1>6, <1>7

LEMMA UploadedSegmentReturns ==
  ASSUME NEW k, DOMAIN k = CliFields
  PROVE  Returns(UploadedSegment(k), k)
<1> DEFINE n == Low(Len(k.rx.data), Room(k.fifo))
           a == [k EXCEPT !.t = 1 - @, !.fifo = @ \o Front_(k.rx.data, n), !.tran = @ + n]
           b == [a EXCEPT !.st = "UPLOAD_SEGMENT_REQ"]
           r == UploadedSegment(k)
<1>1. r \in {Stop(k), Stop(a), b, End(a, "ok")}
  <2>1. r = IF ~ToggleOk(k) THEN Stop(k)
            ELSE IF n < Len(k.rx.data) \/ (a.ind > 0 /\ a.tran > a.ind) THEN Stop(a)
            ELSE IF k.rx.last = 0 THEN b
            ELSE IF a.ind > 0 /\ a.tran < a.ind THEN Stop(a) ELSE End(a, "ok")
    BY DEF UploadedSegment
  <2> HIDE DEF a, b, r, n
  <2> QED
    BY ONLY <2>1
<1>2. DOMAIN a = CliFields /\ a.ret = k.ret
  BY DEF CliFields
<1> HIDE DEF a, r
<1>3. Returns(Stop(k), k) /\ Returns(Stop(a), a) /\ Returns(End(a, "ok"), a)
  BY <1>2, EndReturns
<1>4. Returns(b, a)
  BY ONLY <1>2 DEF CliFields, Returns
<1>5. \A q : Returns(q, a) => Returns(q, k)
  BY ONLY <1>2 DEF Returns
<1> HIDE DEF b
<1> QED
  BY ONLY <1>1, <1>3, <1>4, <1>5 DEF r

LEMMA BlockUploadedReturns ==
  ASSUME NEW k, DOMAIN k = CliFields
  PROVE  Returns(BlockUploaded(k), k)
<1> DEFINE d == Front_(k.lastSeg, Seg - k.rx.ind)
           n == Low(Len(d), Room(k.fifo))
           a == [k EXCEPT !.fifo = @ \o Front_(d, n), !.crc = @ \o Front_(d, n), !.tran = @ + Len(d)]
           b == [a EXCEPT !.st = "UPLOAD_BLK_END_CRSP"]
           r == BlockUploaded(k)
<1>1. r \in {Stop(k), Stop(a), b}
  <2>1. r = IF k.rx.c # "blkEnd" THEN Stop(k)
      ELSE IF (a.ind > 0 /\ a.tran # a.ind) \/ CrcWrong([crc |-> a.crc, buf |-> <<>>], 2, k.rx.crc)
      THEN Stop(a) ELSE b
    BY DEF BlockUploaded
  <2> HIDE DEF a, b, r, n, d
  <2> QED
    BY ONLY <2>1
<1>2. DOMAIN a = CliFields /\ a.ret = k.ret
  BY DEF CliFields
<1> HIDE DEF a, r
<1>3. Returns(Stop(k), k) /\ Returns(Stop(a), a)
  BY <1>2, EndReturns
<1>4. Returns(b, a)
  BY ONLY <1>2 DEF CliFields, Returns
<1>5. \A q : Returns(q, a) => Returns(q, k)
  BY ONLY <1>2 DEF Returns
<1> HIDE DEF b
<1> QED
  BY ONLY <1>1, <1>3, <1>4, <1>5 DEF r

LEMMA CliTakenUploads ==
  ASSUME NEW k, k.st \in CliUp, NEW mine
  PROVE  CliTaken(k, mine) \in {End(k, "abort"), Stop(k), UploadInitiated(k), UploadedSegment(k),
                                BlockUploadInitiated(k), k, BlockUploaded(k)}
<1> DEFINE a == End(k, "abort")
           b == Stop(k)
           c == UploadInitiated(k)
           d == UploadedSegment(k)
           e == BlockUploadInitiated(k)
           f == BlockUploaded(k)
           r == CliTaken(k, mine)
<1>1. CASE k.rx.c = "abort"
  <2>1. r = a
    BY <1>1, Zenon DEF CliTaken
  <2> QED
    BY ONLY <2>1
<1>2. CASE k.rx.c # "abort"
  <2>1. k.st \in {"UPLOAD_INITIATE_RSP", "UPLOAD_SEGMENT_RSP", "UPLOAD_BLK_INITIATE_RSP",
                  "UPLOAD_BLK_SUBBLOCK_SREQ", "UPLOAD_BLK_END_SREQ"}
        \/ k.st \in {"UPLOAD_INITIATE_REQ", "UPLOAD_BLK_INITIATE_REQ", "UPLOAD_SEGMENT_REQ",
                  "UPLOAD_BLK_INITIATE_REQ2", "UPLOAD_BLK_SUBBLOCK_CRSP", "UPLOAD_BLK_END_CRSP"}
    BY DEF CliUp, UpAsked, UpSegment, UpBlock
  <2>2. k.st = "UPLOAD_INITIATE_RSP" => r = IF k.rx.c # "uploadOk" \/ ~mine THEN b ELSE c
    BY <1>2 DEF CliTaken
  <2>3. k.st = "UPLOAD_SEGMENT_RSP" => r = d
    BY <1>2 DEF CliTaken
  <2>4. k.st = "UPLOAD_BLK_INITIATE_RSP" => r = IF mine THEN e ELSE b
    BY <1>2 DEF CliTaken
  <2>5. k.st = "UPLOAD_BLK_SUBBLOCK_SREQ" => r = k
    BY <1>2 DEF CliTaken
  <2>6. k.st = "UPLOAD_BLK_END_SREQ" => r = f
    BY <1>2 DEF CliTaken
  <2>7. k.st \in {"UPLOAD_INITIATE_REQ", "UPLOAD_BLK_INITIATE_REQ", "UPLOAD_SEGMENT_REQ",
                  "UPLOAD_BLK_INITIATE_REQ2", "UPLOAD_BLK_SUBBLOCK_CRSP", "UPLOAD_BLK_END_CRSP"} => r = b
    BY <1>2 DEF CliTaken
  <2> HIDE DEF a, b, c, d, e, f, r
  <2> QED
    BY ONLY <2>1, <2>2, <2>3, <2>4, <2>5, <2>6, <2>7 DEF a, b, c, d, e, f, r
<1> QED
  BY ONLY <1>1, <1>2

LEMMA CliTakeReturns ==
  ASSUME NEW k, DOMAIN k = CliFields, k.st \in CliUp
  PROVE  Returns(CliTake(k), k)
<1> DEFINE r == CliTaken(k, k.rx.idx = k.idx)
<1>1. Returns(r, k)
  <2>1. r \in {End(k, "abort"), Stop(k), UploadInitiated(k), UploadedSegment(k),
               BlockUploadInitiated(k), k, BlockUploaded(k)}
    BY CliTakenUploads
  <2> HIDE DEF r
  <2> QED
    BY <2>1, EndReturns, UploadInitiatedReturns, UploadedSegmentReturns, BlockUploadedReturns
<1>2. CliTake(k) = [r EXCEPT !.rx = None]
  BY DEF CliTake
<1> HIDE DEF r
<1> QED
  BY ONLY <1>1, <1>2 DEF Returns, CliFields

LEMMA AnswerUploadBlockReturns ==
  ASSUME NEW k, DOMAIN k = CliFields
  PROVE  Returns(AnswerUploadBlock(k), k)
<1> DEFINE n == FifoBlock(k)
           f == [Frame("subBlock") EXCEPT !.seq = k.seq, !.blk = k.blk]
           g == [Frame("subBlock") EXCEPT !.seq = k.seq, !.blk = n]
           a == [k EXCEPT !.st = "UPLOAD_BLK_END_SREQ"]
           b == [k EXCEPT !.blk = n, !.seq = 0, !.rx = None, !.st = "UPLOAD_BLK_SUBBLOCK_SREQ"]
           r == AnswerUploadBlock(k)
<1>1. r = IF k.fin = 1 THEN Send(a, f) ELSE IF k.ind > 0 /\ k.tran > k.ind THEN Stop(k)
          ELSE IF n < Cap /\ k.fifo # <<>> THEN k ELSE Send(b, g)
  BY DEF AnswerUploadBlock
<1>2. DOMAIN a = CliFields /\ a.ret = k.ret /\ DOMAIN b = CliFields /\ b.ret = k.ret
  BY DEF CliFields
<1> HIDE DEF a, b, f, g, r, n
<1>3. r \in {Send(a, f), Stop(k), k, Send(b, g)}
  BY ONLY <1>1
<1>4. Returns(Send(a, f), a) /\ Returns(Send(b, g), b) /\ Returns(Stop(k), k) /\ Returns(k, k)
  BY <1>2, EndReturns
<1> QED
  BY ONLY <1>2, <1>3, <1>4 DEF Returns, r

LEMMA CliSendUploadReturns ==
  ASSUME NEW k, DOMAIN k = CliFields
  PROVE  Returns(CliSendUpload(k), k)
<1> DEFINE n == FifoBlock(k)
           a == [k EXCEPT !.st = "UPLOAD_INITIATE_RSP"]
           b == [k EXCEPT !.st = "UPLOAD_SEGMENT_RSP"]
           c == [k EXCEPT !.blk = n, !.st = "UPLOAD_BLK_INITIATE_RSP"]
           d == [k EXCEPT !.seq = 0, !.crc = <<>>, !.rx = None, !.half = 0, !.st = "UPLOAD_BLK_SUBBLOCK_SREQ"]
           e == End(k, "ok")
           fa == [Frame("upload") EXCEPT !.idx = k.idx]
           fb == [Frame("next") EXCEPT !.t = k.t]
           fc == [Frame("blkUpload") EXCEPT !.idx = k.idx, !.blk = n]
           r == CliSendUpload(k)
<1>1. r \in {Send(a, fa), k, Send(b, fb), Stop(k), Send(c, fc), Send(d, Frame("blkStart")),
             AnswerUploadBlock(k), Send(e, Frame("blkEndOk"))}
  <2>1. r = CASE k.st = "UPLOAD_INITIATE_REQ" -> Send(a, fa)
    [] k.st = "UPLOAD_SEGMENT_REQ" -> IF Room(k.fifo) < Seg THEN k ELSE Send(b, fb)
    [] k.st = "UPLOAD_BLK_INITIATE_REQ" -> IF n = 0 THEN Stop(k) ELSE Send(c, fc)
    [] k.st = "UPLOAD_BLK_INITIATE_REQ2" -> Send(d, Frame("blkStart"))
    [] k.st = "UPLOAD_BLK_SUBBLOCK_CRSP" -> AnswerUploadBlock(k)
    [] k.st = "UPLOAD_BLK_END_CRSP" -> Send(e, Frame("blkEndOk"))
    [] OTHER -> k
    BY DEF CliSendUpload
  <2> HIDE DEF a, b, c, d, e, fa, fb, fc, r, n
  <2> QED
    BY ONLY <2>1
<1>2. /\ DOMAIN a = CliFields /\ a.ret = k.ret /\ DOMAIN b = CliFields /\ b.ret = k.ret
      /\ DOMAIN c = CliFields /\ c.ret = k.ret /\ DOMAIN d = CliFields /\ d.ret = k.ret
  BY DEF CliFields
<1>3. DOMAIN e = CliFields /\ e.st = "IDLE"
  BY DEF CliFields, End
<1> HIDE DEF a, b, c, d, e, fa, fb, fc, r, n
<1>4. /\ Returns(Send(a, fa), a) /\ Returns(Send(b, fb), b) /\ Returns(Send(c, fc), c)
      /\ Returns(Send(d, Frame("blkStart")), d) /\ Returns(Stop(k), k) /\ Returns(k, k)
      /\ Returns(Send(e, Frame("blkEndOk")), e) /\ Send(e, Frame("blkEndOk")).st = "IDLE"
  BY <1>2, <1>3, EndReturns
<1>5. Returns(AnswerUploadBlock(k), k)
  BY AnswerUploadBlockReturns
<1> QED
  BY ONLY <1>1, <1>2, <1>4, <1>5 DEF Returns, r

\* An upload's step, whatever frames there are.
LEMMA CliUploads ==
  ASSUME NEW s, NEW x, NEW k, NEW y, NEW j, Down(s, x, k, y, j), k.st \in CliUp, CliOK(k),
         NEW q, CliStep(k, q), Returns(q, k), NEW u, NEW v
  PROVE  Down(s, u, q, v, j)
<1>1. q.st \in States /\ q.st \notin CliDown
  <2>1. CliUp \cap CliDown = {} /\ CliOK(q) /\ (q.st \in CliDown => k.st \in CliDown)
    BY CliStatesAre DEF CliStep
  <2>2. q.st \in States
    BY ONLY <2>1 DEF CliOK, CliBase, CliRecord
  <2> QED
    BY ONLY <2>1, <2>2, k.st \in CliUp
<1>2. q.st \in CliUp \cup Gone
  BY ONLY <1>1 DEF States, Others, CliDown, CliUp, UpAsked, UpSegment, UpBlock, UpRequest, UpStart,
                   DownRequest, DownStart, DownSegment, DownBlock, Gone
<1>3. k.ret # "ok"
  BY DEF Down, CliHas, CliUp, UpAsked, UpSegment, UpBlock
<1>4. q.ret = "ok" => q.st = "IDLE"
  BY <1>3 DEF Returns
<1> QED
  BY <1>2, <1>4, CliUpDown

\* The states apart from each other.
LEMMA CliPhases ==
  /\ \A st : st \in CliAsks \cup CliReady \cup CliBlock <=> st \in CliDown
  /\ \A st \in CliAsks : st \notin CliReady \cup CliBlock
  /\ \A st \in CliReady : st \notin CliAsks \cup CliBlock
  /\ \A st \in CliBlock : st \notin CliReady \cup CliAsks
  /\ "IDLE" \notin CliDown /\ "ABORT" \notin CliDown
  /\ \A st \in CliDown : st \notin CliUp
BY DEF CliAsks, CliReady, CliBlock, CliDown, DownRequest, DownStart, DownSegment, DownBlock, DownSending,
       CliUp, UpAsked, UpSegment, UpBlock

\* An answer that counts is what the client was waiting for.
Heard(s, x, k, y, j) ==
  /\ Quiet(x, s.rx) /\ Mute(y, None) /\ s.st \in Old /\ Answers(s, k, j)

LEMMA AnswerHeard ==
  ASSUME NEW s, NEW x, NEW k, NEW y, NEW j, Waiting(s, x, k, y, j), k.rx # None, k.rx.c \notin Noise
  PROVE  Heard(s, x, k, y, j)
<1>1. ~Mute(y, k.rx) /\ (Single(y, k.rx) => Mute(y, None))
  BY HeldFrame
<1> QED
  BY ONLY <1>1, Waiting(s, x, k, y, j) DEF Waiting, Turn, Heard

\* The last answer: what was downloaded is there.
LEMMA EndsWell ==
  ASSUME NEW s, NEW x, NEW k, NEW y, NEW j, Down(s, x, k, y, j), k.st # "IDLE",
         Arrived(s, x, k, y, j), NEW q, q.st = "IDLE"
  PROVE  Down(s, x, q, y, j)
<1>1. SrvDown(s) /\ j \in Jobs
  BY DEF Down, CliHas
<1>2. CliHas(q, j)
  BY ONLY <1>1, q.st = "IDLE"
     DEF CliHas, CliUp, UpAsked, UpSegment, UpBlock, CliDown, DownRequest, DownStart, DownSegment,
         DownBlock, DownSending
<1>3. q.st \notin CliAsks /\ q.st \notin CliReady /\ q.st \notin CliBlock
  BY ONLY q.st = "IDLE" DEF CliAsks, CliReady, CliBlock, DownRequest, DownSending
<1>4. Arrived(s, x, q, y, j)
  BY ONLY Arrived(s, x, k, y, j) DEF Arrived
<1> QED
  BY ONLY <1>1, <1>2, <1>3, <1>4 DEF Down

LEMMA HeardEnds ==
  ASSUME NEW s, NEW x, NEW k, NEW y, NEW j, Heard(s, x, k, y, j), k.fin = 1,
         k.st \in {"DOWNLOAD_INITIATE_RSP", "DOWNLOAD_SEGMENT_RSP"}
  PROVE  Arrived(s, x, k, y, j)
<1>1. Written(s, j) /\ s.st \in Gone /\ Held(x, s.rx) = {}
  BY NoFrames DEF Heard, Answers
<1> QED
  BY ONLY <1>1 DEF Arrived

\* The client goes on with the next segment.
LEMMA HeardGoesOn ==
  ASSUME NEW s, SrvDown(s), NEW x, NEW k, NEW y, NEW j, Heard(s, x, k, y, j), CliHas(k, j), k.fin = 0,
         k.ret # "ok", k.t \in Bit,
         k.st \in {"DOWNLOAD_INITIATE_RSP", "DOWNLOAD_SEGMENT_RSP"},
         NEW q, q.st = "DOWNLOAD_SEGMENT_REQ", q.idx = k.idx, q.tran = k.tran, q.fin = k.fin,
         q.fifo = k.fifo, q.more = k.more, q.ret = k.ret, q.rx = None,
         q.t = IF k.st = "DOWNLOAD_INITIATE_RSP" THEN 0 ELSE 1 - k.t
  PROVE  Down(s, x, q, y, j)
<1>1. /\ j \in Jobs /\ j.op = "download" /\ k.idx = j.obj /\ Left(k, j)
      /\ k.st \in DownStart => k.tran = 0
  BY ONLY CliHas(k, j), k.fin = 0, k.st \in {"DOWNLOAD_INITIATE_RSP", "DOWNLOAD_SEGMENT_RSP"}
     DEF CliHas, CliDown, DownRequest, DownStart, DownSegment
<1>2. Left(q, j)
  BY ONLY <1>1, q.tran = k.tran, q.fifo = k.fifo, q.more = k.more, q.fin = k.fin DEF Left
<1>3. CliHas(q, j)
  BY ONLY <1>1, <1>2, q.st = "DOWNLOAD_SEGMENT_REQ", q.idx = k.idx, q.fin = k.fin, k.fin = 0,
     q.ret = k.ret, k.ret # "ok"
     DEF CliHas, CliUp, UpAsked, UpSegment, UpBlock, DownRequest, DownStart, DownSegment, DownSending
<1>4. s.st = "DOWNLOAD_SEGMENT_REQ" => Sync(s, j, q.tran) /\ s.t = q.t
  <2>1. k.st = "DOWNLOAD_INITIATE_RSP" => k.tran = 0
    BY ONLY <1>1 DEF DownStart
  <2>2. s.st = "DOWNLOAD_SEGMENT_REQ" /\ k.st = "DOWNLOAD_INITIATE_RSP" => Sync(s, j, 0) /\ s.t = 0
    BY ONLY Heard(s, x, k, y, j), k.fin = 0 DEF Heard, Answers
  <2>3. s.st = "DOWNLOAD_SEGMENT_REQ" /\ k.st = "DOWNLOAD_SEGMENT_RSP" => Sync(s, j, k.tran) /\ s.t = 1 - k.t
    BY ONLY Heard(s, x, k, y, j), k.fin = 0 DEF Heard, Answers
  <2> QED
    BY ONLY <2>1, <2>2, <2>3, k.st \in {"DOWNLOAD_INITIATE_RSP", "DOWNLOAD_SEGMENT_RSP"}, q.tran = k.tran,
         q.t = IF k.st = "DOWNLOAD_INITIATE_RSP" THEN 0 ELSE 1 - k.t
<1>5. Ready(s, x, q, y, j)
  BY ONLY <1>4, Heard(s, x, k, y, j), q.rx = None DEF Heard, Ready
<1>6. q.st \notin CliAsks /\ q.st \notin CliBlock
  BY ONLY q.st = "DOWNLOAD_SEGMENT_REQ" DEF CliAsks, CliBlock, DownSending
<1> QED
  BY ONLY SrvDown(s), <1>3, <1>5, <1>6, q.ret = k.ret, k.ret # "ok" DEF Down

\* or with the first block.
LEMMA HeardBlocks ==
  ASSUME NEW s, SrvDown(s), NEW x, NEW k, NEW y, NEW j, Heard(s, x, k, y, j), CliHas(k, j),
         k.ret # "ok", k.st = "DOWNLOAD_BLK_INITIATE_RSP", k.fifo \in Data, k.more \in Data,
         NEW q, q.st = "DOWNLOAD_BLK_SUBBLOCK_REQ", q.idx = k.idx, q.fin = k.fin, q.crc = <<>>,
         q.fifo = k.fifo, q.more = k.more, q.ret = k.ret, q.rx = None
  PROVE  Down(s, x, q, y, j)
<1>1. /\ j \in Jobs /\ j.op = "download" /\ k.idx = j.obj /\ Left(k, j) /\ k.fin = 0 /\ k.tran = 0
  BY ONLY CliHas(k, j), k.st = "DOWNLOAD_BLK_INITIATE_RSP"
     DEF CliHas, CliDown, DownRequest, DownStart, DownSegment
<1>2. j.data \in Data
  BY <1>1, JobIs
<1>3. k.fifo \o k.more = j.data
  <2>1. Rest(j.data, 0) = j.data
    BY ONLY <1>2, WholeIs
  <2> QED
    BY ONLY <1>1, <2>1 DEF Left
<1>4. Taken(q, j)
  <2>1. <<>> \o j.data = j.data
    BY ONLY <1>2, CatNone
  <2>2. q.crc \o (q.fifo \o q.more) = j.data
    BY ONLY <1>3, <2>1, q.crc = <<>>, q.fifo = k.fifo, q.more = k.more, Zenon
  <2>3. q.fin # 1
    BY ONLY <1>1, q.fin = k.fin
  <2> QED
    BY ONLY <2>2, <2>3 DEF Taken
<1>5. CliHas(q, j)
  BY ONLY <1>1, <1>4, q.st = "DOWNLOAD_BLK_SUBBLOCK_REQ", q.idx = k.idx, q.fin = k.fin,
     q.ret = k.ret, k.ret # "ok"
     DEF CliHas, CliUp, UpAsked, UpSegment, UpBlock, DownRequest, DownStart, DownSegment, DownSending
<1>6. s.idx = j.obj /\ s.st \in DownBlock \cup Gone /\ s.st # "DOWNLOAD_BLK_END_RSP"
  BY ONLY Heard(s, x, k, y, j), k.st = "DOWNLOAD_BLK_INITIATE_RSP" DEF Heard, Answers, DownBlock, Gone
<1>7. Held(x, s.rx) = {} /\ \A g \in Held(y, q.rx) : g.c # "blkEndOk"
  <2>1. Held(x, s.rx) = {} /\ Mute(y, None)
    BY NoFrames DEF Heard
  <2> QED
    BY ONLY <2>1, q.rx = None DEF Mute, Noise
<1>8. Blocks(s, x, q, y, j)
  BY ONLY <1>6, <1>7 DEF Blocks
<1>9. q.st \notin CliAsks /\ q.st \notin CliReady
  BY ONLY q.st = "DOWNLOAD_BLK_SUBBLOCK_REQ" DEF CliAsks, CliReady, DownRequest
<1> QED
  BY ONLY SrvDown(s), <1>5, <1>8, <1>9, q.ret = k.ret, k.ret # "ok" DEF Down

\* What the server took of a block leaves the fifo and is counted in the CRC.
SubBlockTook(r, k, j) ==
  /\ r.idx = k.idx /\ r.ret = k.ret
  /\ \/ r.st = "ABORT"
     \/ /\ r.st = "DOWNLOAD_BLK_END_REQ" /\ r.crc = j.data
     \/ /\ r.st = "DOWNLOAD_BLK_SUBBLOCK_REQ" /\ r.fin = 0 /\ Taken(r, j)

LEMMA SubBlockDownloadedTook ==
  ASSUME NEW k, CliOK(k), k.rx \in Frames, k.st \in DownSending, NEW j, Taken(k, j)
  PROVE  SubBlockTook(SubBlockDownloaded(k), k, j)
<1> DEFINE again == k.rx.seq < k.seq
           lost == (k.seq - k.rx.seq) * Seg - k.nod
           taken == IF again THEN Low(k.rx.seq * Seg, Len(k.fifo)) ELSE k.alt
           c == k.crc \o Front_(k.fifo, taken)
           f == Rest(k.fifo, taken)
           fin == IF again THEN 0 ELSE k.fin
           a == [k EXCEPT !.tran = IF again THEN @ - lost ELSE @,
                          !.fin = IF again THEN 0 ELSE @,
                          !.crc = @ \o Front_(k.fifo, taken),
                          !.fifo = Rest(@, taken), !.alt = 0]
           end == [a EXCEPT !.st = "DOWNLOAD_BLK_END_REQ"]
           on == [a EXCEPT !.blk = k.rx.blk, !.seq = 0, !.st = "DOWNLOAD_BLK_SUBBLOCK_REQ"]
           r == SubBlockDownloaded(k)
<1>1. r = IF k.rx.c # "subBlock" \/ k.rx.seq > k.seq THEN Stop(k) ELSE IF a.fin = 1 THEN end ELSE on
  BY DEF SubBlockDownloaded
<1>2. CliBase(k) /\ DOMAIN k = CliFields /\ k.alt <= Len(k.fifo)
  BY CliFieldsAre DEF CliOK, CliBase, CliAt
<1>3. k.fifo \in Data /\ k.more \in Data /\ k.crc \in Data /\ k.fin \in Bit /\ Len(k.fifo) \in Nat
      /\ k.alt \in Nat /\ k.seq \in Nat
  BY <1>2, CliIs
<1>4. /\ DOMAIN a = CliFields /\ a.fin = fin /\ a.crc = c /\ a.fifo = f /\ a.more = k.more
      /\ a.idx = k.idx /\ a.ret = k.ret
  BY ONLY <1>2 DEF CliFields
<1>5. taken \in Nat /\ taken <= Len(k.fifo)
  <2>1. k.rx.seq * Seg \in Nat
    BY SdoAssumption DEF Frames, FrameRecord
  <2>2. Low(k.rx.seq * Seg, Len(k.fifo)) \in Nat /\ Low(k.rx.seq * Seg, Len(k.fifo)) <= Len(k.fifo)
    BY ONLY <1>3, <2>1, LowIs
  <2> QED
    BY ONLY <1>2, <1>3, <2>2
<1> HIDE DEF taken, a, again, r
<1>6. Front_(k.fifo, taken) \in Data /\ f \in Data /\ Front_(k.fifo, taken) \o f = k.fifo
  BY ONLY <1>3, <1>5, FrontIs, RestIs, FrontAndRest
<1>7. c \o (f \o k.more) = k.crc \o (k.fifo \o k.more)
  <2> DEFINE p == Front_(k.fifo, taken)
  <2> HIDE DEF f
  <2>1. p \in Data /\ f \in Data /\ p \o f = k.fifo
    BY ONLY <1>6
  <2> HIDE DEF p
  <2>2. f \o k.more \in Data
    BY ONLY <1>3, <2>1, CatIs
  <2>3. (k.crc \o p) \o (f \o k.more) = k.crc \o (p \o (f \o k.more))
    BY ONLY <1>3, <2>1, <2>2, CatAssoc
  <2>4. (p \o f) \o k.more = p \o (f \o k.more)
    BY ONLY <1>3, <2>1, CatAssoc, ZenonT(40)
  <2>5. (k.crc \o p) \o (f \o k.more) = k.crc \o (k.fifo \o k.more)
    BY ONLY <2>1, <2>3, <2>4, Zenon
  <2> QED
    BY ONLY <2>5 DEF p
<1>8. c \o (f \o k.more) = j.data
  BY ONLY <1>7, Taken(k, j) DEF Taken
<1>9. fin = 1 => c = j.data
  <2> SUFFICES ASSUME fin = 1
               PROVE  c = j.data
    OBVIOUS
  <2>1. ~again /\ k.fin = 1 /\ taken = k.alt
    BY ONLY fin = 1 DEF taken
  <2>2. k.more = <<>> /\ k.alt = Len(k.fifo)
    BY ONLY <2>1, Taken(k, j) DEF Taken
  <2>3. f = <<>>
    BY ONLY <1>3, <2>1, <2>2, WholeIs
  <2>4. c \in Data
    BY ONLY <1>3, <1>6, CatIs
  <2> HIDE DEF c, f
  <2>5. c \o (<<>> \o <<>>) = c
    BY ONLY <2>4, CatNone
  <2> QED
    BY ONLY <1>8, <2>2, <2>3, <2>5
<1>10. fin \in Bit
  BY ONLY <1>3 DEF Bit
<1> HIDE DEF c, f, fin
<1>11. /\ end.st = "DOWNLOAD_BLK_END_REQ" /\ end.crc = c /\ end.idx = k.idx /\ end.ret = k.ret
       /\ on.st = "DOWNLOAD_BLK_SUBBLOCK_REQ" /\ on.fin = fin /\ on.crc = c /\ on.fifo = f
       /\ on.more = k.more /\ on.idx = k.idx /\ on.ret = k.ret
  BY ONLY <1>4 DEF CliFields
<1>12. Stop(k).st = "ABORT" /\ Stop(k).idx = k.idx /\ Stop(k).ret = k.ret
  BY ONLY <1>2 DEF CliFields, Stop
<1> HIDE DEF end, on
<1>13. r = Stop(k) \/ (fin = 1 /\ r = end) \/ (fin # 1 /\ r = on)
  BY ONLY <1>1, <1>4
<1>14. fin # 1 => fin = 0
  BY ONLY <1>10 DEF Bit
<1>15. fin # 1 => Taken(on, j)
  BY ONLY <1>8, <1>11 DEF Taken
<1>16. SubBlockTook(r, k, j)
  <2>1. CASE r = Stop(k)
    BY ONLY <1>12, <2>1 DEF SubBlockTook
  <2>2. CASE fin = 1 /\ r = end
    BY ONLY <1>9, <1>11, <2>2 DEF SubBlockTook
  <2>3. CASE fin # 1 /\ r = on
    BY ONLY <1>11, <1>14, <1>15, <2>3 DEF SubBlockTook
  <2> QED
    BY ONLY <1>13, <2>1, <2>2, <2>3
<1> QED
  BY ONLY <1>16 DEF r

\* The client goes on with the next block or with the end of the last.
LEMMA BlocksGoOn ==
  ASSUME NEW s, NEW x, NEW k, NEW y, NEW j, Down(s, x, k, y, j), k.st \in DownSending,
         NEW r, SubBlockTook(r, k, j), NEW q, SameCli(q, r), q.rx = None
  PROVE  Down(s, x, q, y, j)
<1>1. SrvDown(s) /\ Blocks(s, x, k, y, j) /\ CliHas(k, j)
  BY DEF Down, CliBlock
<1>2. j \in Jobs /\ j.op = "download" /\ k.idx = j.obj /\ k.ret # "ok"
  BY ONLY <1>1, k.st \in DownSending DEF CliHas, CliDown, DownBlock, DownSending
<1>3. r.idx = k.idx /\ r.ret = k.ret
  BY DEF SubBlockTook
<1>4. q.idx = j.obj /\ q.ret # "ok" /\ q.st = r.st
  BY <1>2, <1>3 DEF SameCli
<1>5. CASE q.st = "ABORT"
  <2>1. q.st \in Gone /\ k.st # "IDLE"
    BY <1>5 DEF Gone, DownSending
  <2> QED
    BY <1>4, <2>1, CliGone
<1>6. CASE q.st # "ABORT"
  <2>1. \/ q.st = "DOWNLOAD_BLK_END_REQ" /\ q.crc = j.data
        \/ q.st = "DOWNLOAD_BLK_SUBBLOCK_REQ" /\ q.fin = 0 /\ Taken(q, j)
    <3>1. \/ r.st = "DOWNLOAD_BLK_END_REQ" /\ r.crc = j.data
          \/ r.st = "DOWNLOAD_BLK_SUBBLOCK_REQ" /\ r.fin = 0 /\ Taken(r, j)
      BY ONLY <1>4, <1>6, SubBlockTook(r, k, j) DEF SubBlockTook
    <3>2. Taken(r, j) => Taken(q, j)
      BY ONLY SameCli(q, r) DEF SameCli, Taken
    <3> QED
      BY ONLY <3>1, <3>2, SameCli(q, r) DEF SameCli
  <2>2. CliHas(q, j)
    BY ONLY <1>2, <1>4, <2>1
       DEF CliHas, CliUp, UpAsked, UpSegment, UpBlock, DownRequest, DownStart, DownSegment, DownSending
  <2>3. Held(y, q.rx) \subseteq Held(y, k.rx)
    BY HeldLess
  <2>4. k.st # "DOWNLOAD_BLK_END_RSP"
    BY ONLY k.st \in DownSending DEF DownSending
  <2>5. Blocks(s, x, q, y, j)
    BY ONLY <1>1, <2>3, <2>4 DEF Blocks
  <2>6. q.st \notin CliAsks /\ q.st \notin CliReady
    BY ONLY <2>1 DEF CliAsks, CliReady, DownRequest
  <2> QED
    BY ONLY <1>1, <1>4, <2>2, <2>5, <2>6 DEF Down
<1> QED
  BY ONLY <1>5, <1>6

\* What becomes of a frame received by a client that downloads.
TookAnswer(r, k) ==
  \/ r = End(k, "abort") \/ r = Stop(k)
  \/ k.st = "DOWNLOAD_INITIATE_RSP" /\ k.rx.c = "downloadOk"
       /\ r = IF k.fin = 1 THEN End(k, "ok") ELSE [k EXCEPT !.t = 0, !.st = "DOWNLOAD_SEGMENT_REQ"]
  \/ k.st = "DOWNLOAD_SEGMENT_RSP" /\ k.rx.c = "segmentOk"
       /\ r = IF k.fin = 1 THEN End([k EXCEPT !.t = 1 - @], "ok")
              ELSE [k EXCEPT !.t = 1 - @, !.st = "DOWNLOAD_SEGMENT_REQ"]
  \/ k.st = "DOWNLOAD_BLK_INITIATE_RSP" /\ k.rx.c = "blkDownloadOk"
       /\ r = [k EXCEPT !.crc = <<>>, !.blk = k.rx.blk, !.seq = 0, !.alt = 0,
                        !.st = "DOWNLOAD_BLK_SUBBLOCK_REQ"]
  \/ k.st \in DownSending /\ r = SubBlockDownloaded(k)
  \/ k.st = "DOWNLOAD_BLK_END_RSP" /\ k.rx.c = "blkEndOk" /\ r = End(k, "ok")

LEMMA CliTakenDownloads ==
  ASSUME NEW k, k.st \in CliDown \cup {"ABORT"}, NEW mine
  PROVE  TookAnswer(CliTaken(k, mine), k)
<1> DEFINE a == End(k, "abort")
           b == Stop(k)
           c == IF k.fin = 1 THEN End(k, "ok") ELSE [k EXCEPT !.t = 0, !.st = "DOWNLOAD_SEGMENT_REQ"]
           d == IF k.fin = 1 THEN End([k EXCEPT !.t = 1 - @], "ok")
                ELSE [k EXCEPT !.t = 1 - @, !.st = "DOWNLOAD_SEGMENT_REQ"]
           e == [k EXCEPT !.crc = <<>>, !.blk = k.rx.blk, !.seq = 0, !.alt = 0,
                          !.st = "DOWNLOAD_BLK_SUBBLOCK_REQ"]
           f == SubBlockDownloaded(k)
           g == End(k, "ok")
           r == CliTaken(k, mine)
<1>1. CASE k.rx.c = "abort"
  <2>1. r = a
    BY <1>1, Zenon DEF CliTaken
  <2> QED
    BY ONLY <2>1 DEF TookAnswer
<1>2. CASE k.rx.c # "abort"
  <2>1. k.st \in {"DOWNLOAD_INITIATE_RSP", "DOWNLOAD_SEGMENT_RSP", "DOWNLOAD_BLK_INITIATE_RSP",
                  "DOWNLOAD_BLK_SUBBLOCK_REQ", "DOWNLOAD_BLK_SUBBLOCK_RSP", "DOWNLOAD_BLK_END_RSP"}
        \/ k.st \in {"DOWNLOAD_INITIATE_REQ", "DOWNLOAD_BLK_INITIATE_REQ", "DOWNLOAD_SEGMENT_REQ",
                  "DOWNLOAD_BLK_END_REQ", "ABORT"}
    BY DEF CliDown, DownRequest, DownStart, DownSegment, DownBlock
  <2>2. k.st = "DOWNLOAD_INITIATE_RSP" => r = IF k.rx.c # "downloadOk" \/ ~mine THEN b ELSE c
    BY <1>2 DEF CliTaken
  <2>3. k.st = "DOWNLOAD_SEGMENT_RSP" => r = IF k.rx.c # "segmentOk" \/ k.rx.t # k.t THEN b ELSE d
    BY <1>2 DEF CliTaken
  <2>4. k.st = "DOWNLOAD_BLK_INITIATE_RSP" => r = IF k.rx.c # "blkDownloadOk" \/ ~mine THEN b ELSE e
    BY <1>2 DEF CliTaken
  <2>5. k.st \in {"DOWNLOAD_BLK_SUBBLOCK_REQ", "DOWNLOAD_BLK_SUBBLOCK_RSP"} => r = f
    BY <1>2 DEF CliTaken
  <2>6. k.st = "DOWNLOAD_BLK_END_RSP" => r = IF k.rx.c = "blkEndOk" THEN g ELSE b
    BY <1>2 DEF CliTaken
  <2>7. k.st \in {"DOWNLOAD_INITIATE_REQ", "DOWNLOAD_BLK_INITIATE_REQ", "DOWNLOAD_SEGMENT_REQ",
                  "DOWNLOAD_BLK_END_REQ", "ABORT"} => r = b
    BY <1>2 DEF CliTaken
  <2>8. TookAnswer(r, k) <=>
         \/ r = a \/ r = b
         \/ k.st = "DOWNLOAD_INITIATE_RSP" /\ k.rx.c = "downloadOk" /\ r = c
         \/ k.st = "DOWNLOAD_SEGMENT_RSP" /\ k.rx.c = "segmentOk" /\ r = d
         \/ k.st = "DOWNLOAD_BLK_INITIATE_RSP" /\ k.rx.c = "blkDownloadOk" /\ r = e
         \/ k.st \in {"DOWNLOAD_BLK_SUBBLOCK_REQ", "DOWNLOAD_BLK_SUBBLOCK_RSP"} /\ r = f
         \/ k.st = "DOWNLOAD_BLK_END_RSP" /\ k.rx.c = "blkEndOk" /\ r = g
    BY ONLY Zenon DEF TookAnswer, DownSending
  <2> HIDE DEF a, b, c, d, e, f, g, r
  <2>9. TookAnswer(r, k)
    BY ONLY <2>1, <2>2, <2>3, <2>4, <2>5, <2>6, <2>7, <2>8
  <2> QED
    BY ONLY <2>9 DEF r
<1> QED
  BY ONLY <1>1, <1>2

LEMMA EndIs ==
  ASSUME NEW k, DOMAIN k = CliFields, NEW ret
  PROVE  /\ End(k, ret).st = "IDLE" /\ End(k, ret).ret = ret
         /\ Stop(k).st = "ABORT" /\ Stop(k).ret = k.ret
         /\ DOMAIN End(k, ret) = CliFields /\ DOMAIN Stop(k) = CliFields
         /\ SendAbort(Stop(k)).st = "IDLE" /\ SendAbort(Stop(k)).ret = k.ret
         /\ DOMAIN SendAbort(Stop(k)) = CliFields
BY DEF CliFields, End, Stop, Send, SendAbort

LEMMA RxTaken ==
  ASSUME NEW r, DOMAIN r = CliFields
  PROVE  LET q == [r EXCEPT !.rx = None] IN
         SameCli(q, r) /\ q.rx = None /\ q.ret = r.ret /\ DOMAIN q = CliFields
BY DEF CliFields, SameCli

LEMMA CliTakesDownloads ==
  ASSUME NEW k, CliOK(k), k.rx \in Frames, k.rx # None, k.st \in CliDown \cup {"ABORT"},
         NEW s, NEW x, NEW y, NEW j, Down(s, x, k, y, j)
  PROVE  Down(s, x, CliTake(k), y, j)
<1> DEFINE r == CliTaken(k, k.rx.idx = k.idx)
           q == [r EXCEPT !.rx = None]
<1>1. TookAnswer(r, k)
  BY CliTakenDownloads
<1>2. CliTake(k) = q
  BY DEF CliTake
<1>3. k \in CliRecord /\ DOMAIN k = CliFields /\ k.t \in Bit /\ k.fin \in Bit /\ k.fifo \in Data /\ k.more \in Data
  BY CliIs, CliFieldsAre DEF CliOK
<1>4. SrvDown(s) /\ CliHas(k, j) /\ k.st # "IDLE" /\ k.ret # "ok"
  <2>1. k.st # "IDLE"
    BY CliPhases
  <2> QED
    BY ONLY <2>1, Down(s, x, k, y, j) DEF Down, CliHas
<1> SUFFICES Down(s, x, q, y, j)
  BY <1>2
<1> HIDE DEF r
<1>5. CASE r = End(k, "abort") \/ r = Stop(k)
  <2>1. r.st \in Gone /\ r.ret # "ok" /\ DOMAIN r = CliFields
    BY ONLY <1>3, <1>4, <1>5, EndIs DEF Gone
  <2>2. q.st \in Gone /\ q.ret # "ok"
    BY ONLY <2>1 DEF CliFields
  <2> HIDE DEF q
  <2> QED
    BY <1>4, <2>2, CliGone
<1>6. ASSUME NEW t, NEW end, end = k \/ end = [k EXCEPT !.t = t],
             r = IF k.fin = 1 THEN End(end, "ok") ELSE [k EXCEPT !.t = t, !.st = "DOWNLOAD_SEGMENT_REQ"],
             k.st \in {"DOWNLOAD_INITIATE_RSP", "DOWNLOAD_SEGMENT_RSP"}, k.rx.c \notin Noise,
             t = IF k.st = "DOWNLOAD_INITIATE_RSP" THEN 0 ELSE 1 - k.t
      PROVE  Down(s, x, q, y, j)
  <2>1. Heard(s, x, k, y, j)
    <3>1. k.st \in CliAsks
      BY ONLY <1>6 DEF CliAsks
    <3> QED
      BY ONLY <1>6, <3>1, AnswerHeard, k.rx # None, Down(s, x, k, y, j) DEF Down
  <2>2. CASE k.fin = 1
    <3>1. r = End(end, "ok") /\ DOMAIN end = CliFields
      BY ONLY <1>3, <1>6, <2>2
    <3>2. q.st = "IDLE"
      BY ONLY <3>1 DEF CliFields, End
    <3>3. Arrived(s, x, k, y, j)
      BY ONLY <1>6, <2>1, <2>2, HeardEnds
    <3> HIDE DEF q
    <3> QED
      BY ONLY <1>4, <3>2, <3>3, EndsWell, Down(s, x, k, y, j)
  <2>3. CASE k.fin = 0
    <3>1. r = [k EXCEPT !.t = t, !.st = "DOWNLOAD_SEGMENT_REQ"]
      BY ONLY <1>6, <2>3
    <3>2. /\ q.st = "DOWNLOAD_SEGMENT_REQ" /\ q.idx = k.idx /\ q.tran = k.tran /\ q.fin = k.fin
          /\ q.fifo = k.fifo /\ q.more = k.more /\ q.ret = k.ret /\ q.rx = None /\ q.t = t
      BY ONLY <1>3, <3>1 DEF CliFields
    <3> HIDE DEF q
    <3> QED
      BY ONLY <1>3, <1>4, <1>6, <2>1, <2>3, <3>2, HeardGoesOn
  <2> QED
    BY ONLY <1>3, <2>2, <2>3 DEF Bit
<1>7. CASE k.st = "DOWNLOAD_INITIATE_RSP" /\ k.rx.c = "downloadOk"
         /\ r = IF k.fin = 1 THEN End(k, "ok") ELSE [k EXCEPT !.t = 0, !.st = "DOWNLOAD_SEGMENT_REQ"]
  <2>1. k.rx.c \notin Noise
    BY ONLY <1>7 DEF Noise
  <2> QED
    BY ONLY <1>6, <1>7, <2>1
<1>8. CASE k.st = "DOWNLOAD_SEGMENT_RSP" /\ k.rx.c = "segmentOk"
         /\ r = IF k.fin = 1 THEN End([k EXCEPT !.t = 1 - @], "ok")
                ELSE [k EXCEPT !.t = 1 - @, !.st = "DOWNLOAD_SEGMENT_REQ"]
  <2>1. k.rx.c \notin Noise
    BY ONLY <1>8 DEF Noise
  <2>2. r = IF k.fin = 1 THEN End([k EXCEPT !.t = 1 - k.t], "ok")
             ELSE [k EXCEPT !.t = 1 - k.t, !.st = "DOWNLOAD_SEGMENT_REQ"]
    BY ONLY <1>3, <1>8 DEF CliFields
  <2> QED
    BY ONLY <1>6, <1>8, <2>1, <2>2
<1>9. CASE k.st = "DOWNLOAD_BLK_INITIATE_RSP" /\ k.rx.c = "blkDownloadOk"
       /\ r = [k EXCEPT !.crc = <<>>, !.blk = k.rx.blk, !.seq = 0, !.alt = 0,
                        !.st = "DOWNLOAD_BLK_SUBBLOCK_REQ"]
  <2>1. k.rx.c \notin Noise /\ k.st \in CliAsks
    BY ONLY <1>9 DEF Noise, CliAsks
  <2>2. Heard(s, x, k, y, j)
    BY ONLY <2>1, AnswerHeard, k.rx # None, Down(s, x, k, y, j) DEF Down
  <2>3. /\ q.st = "DOWNLOAD_BLK_SUBBLOCK_REQ" /\ q.idx = k.idx /\ q.fin = k.fin /\ q.crc = <<>>
        /\ q.fifo = k.fifo /\ q.more = k.more /\ q.ret = k.ret /\ q.rx = None
    BY ONLY <1>3, <1>9 DEF CliFields
  <2> HIDE DEF q
  <2> QED
    BY ONLY <1>3, <1>4, <1>9, <2>2, <2>3, HeardBlocks
<1>10. CASE k.st \in DownSending /\ r = SubBlockDownloaded(k)
  <2>1. Taken(k, j)
    BY ONLY <1>4, <1>10 DEF CliHas
  <2>2. SubBlockTook(r, k, j)
    BY ONLY <1>10, <2>1, SubBlockDownloadedTook, CliOK(k), k.rx \in Frames
  <2>3. DOMAIN r = CliFields
    <3>1. CliStep(k, SubBlockDownloaded(k))
      BY <1>10, SubBlockDownloadedOK
    <3> QED
      BY ONLY <1>10, <3>1, CliFieldsAre DEF CliStep, CliOK, CliBase
  <2>4. SameCli(q, r) /\ q.rx = None
    BY ONLY <2>3, RxTaken
  <2> HIDE DEF q
  <2> QED
    BY ONLY <1>10, <2>2, <2>4, BlocksGoOn, Down(s, x, k, y, j)
<1>11. CASE k.st = "DOWNLOAD_BLK_END_RSP" /\ k.rx.c = "blkEndOk" /\ r = End(k, "ok")
  <2>1. Blocks(s, x, k, y, j)
    BY ONLY <1>11, Down(s, x, k, y, j) DEF Down, CliBlock
  <2>2. k.rx \in Held(y, k.rx)
    BY HeldFrame
  <2>3. Arrived(s, x, k, y, j)
    BY ONLY <1>11, <2>1, <2>2 DEF Blocks, Arrived
  <2>4. q.st = "IDLE"
    BY ONLY <1>3, <1>11 DEF CliFields, End
  <2> HIDE DEF q
  <2> QED
    BY ONLY <1>4, <2>3, <2>4, EndsWell, Down(s, x, k, y, j)
<1> HIDE DEF q
<1> QED
  BY ONLY <1>1, <1>5, <1>7, <1>8, <1>9, <1>10, <1>11 DEF TookAnswer

LEMMA CliTakesDown ==
  ASSUME NEW k, CliOK(k), k.rx \in Frames, k.rx # None, k.st # "IDLE",
         NEW s, NEW x, NEW y, NEW j, Down(s, x, k, y, j)
  PROVE  Down(s, x, CliTake(k), y, j)
<1>1. k.st \in CliUp \cup CliDown \cup {"ABORT"} /\ DOMAIN k = CliFields
  <2>1. k \in CliRecord
    BY DEF CliOK, CliBase
  <2>2. k.st \in States /\ DOMAIN k = CliFields
    BY ONLY <2>1, CliFieldsAre DEF CliRecord
  <2> QED
    BY ONLY <2>2, k.st # "IDLE"
       DEF States, Others, CliDown, CliUp, UpAsked, UpSegment, UpBlock, UpRequest, UpStart,
                   DownRequest, DownStart, DownSegment, DownBlock
<1>2. CASE k.st \in CliUp
  <2>1. Returns(CliTake(k), k) /\ CliStep(k, CliTake(k))
    BY <1>1, <1>2, CliTakeReturns, CliTakeOK
  <2> QED
    BY <1>2, <2>1, CliUploads
<1>3. CASE k.st \in CliDown \cup {"ABORT"}
  BY <1>3, CliTakesDownloads
<1> QED
  BY ONLY <1>1, <1>2, <1>3

LEMMA MuteIsSingle ==
  ASSUME NEW ch, NEW r, Mute(ch, r)
  PROVE  Single(ch, r)
BY DEF Mute, Single, Held

\* A client that was ready has asked.
LEMMA AsksDown ==
  ASSUME NEW s, s.rx \in Frames \cup {None}, NEW x \in Seq(Frames), NEW k, NEW y, NEW j,
         Down(s, x, k, y, j), k.st \in CliReady,
         NEW q, q.st \in CliAsks, q.rx = k.rx, q.ret # "ok", CliHas(q, j),
         NEW g \in Frames, Asked(g, s, q, j)
  PROVE  Down(s, x \o <<g>>, q, y, j)
<1>1. SrvDown(s) /\ Ready(s, x, k, y, j)
  BY DEF Down
<1>2. Quiet(x, s.rx) /\ Mute(y, q.rx) /\ s.st \in Old
  BY <1>1 DEF Ready
<1>3. Alone(x \o <<g>>, s.rx) /\ Single(y, q.rx)
  BY ONLY <1>2, OneMore, MuteIsSingle, x \in Seq(Frames), s.rx \in Frames \cup {None}, g \in Frames
<1>4. Held(x \o <<g>>, s.rx) = {g}
  <2>1. Held(x \o <<g>>, s.rx) = Held(x, s.rx) \cup {g}
    BY OneMore
  <2>2. Held(x, s.rx) = {}
    BY ONLY <1>2, NoFrames
  <2> QED
    BY ONLY <2>1, <2>2
<1>5. Waiting(s, x \o <<g>>, q, y, j)
  BY ONLY <1>2, <1>3, <1>4, Asked(g, s, q, j) DEF Waiting, Turn
<1>6. q.st \notin CliReady \cup CliBlock
  BY CliPhases
<1> QED
  BY ONLY <1>1, <1>5, <1>6, q.ret # "ok", CliHas(q, j) DEF Down

\* A client in the middle of a block says something.
LEMMA BlocksSay ==
  ASSUME NEW s, s.rx \in Frames \cup {None}, NEW x \in Seq(Frames), NEW k, NEW y, NEW j,
         Down(s, x, k, y, j), k.st \in CliBlock \ {"DOWNLOAD_BLK_END_RSP"},
         NEW q, q.st \in CliBlock, q.rx = k.rx, q.ret # "ok", CliHas(q, j),
         NEW g \in Frames, g.c \notin Requests,
         g.c = "blkEnd" => q.st = "DOWNLOAD_BLK_END_RSP" /\ g.crc = j.data
  PROVE  Down(s, x \o <<g>>, q, y, j)
<1>1. SrvDown(s) /\ Blocks(s, x, k, y, j)
  BY DEF Down
<1>2. Held(x \o <<g>>, s.rx) = Held(x, s.rx) \cup {g}
  BY OneMore
<1>3. k.st # "DOWNLOAD_BLK_END_RSP"
  OBVIOUS
<1>4. Blocks(s, x \o <<g>>, q, y, j)
  <2>1. s.idx = j.obj /\ s.st \in DownBlock \cup Gone \cup {"DOWNLOAD_BLK_END_RSP"}
    BY <1>1 DEF Blocks
  <2>2. \A f \in Held(x \o <<g>>, s.rx) :
           /\ f.c \notin Requests
           /\ f.c = "blkEnd" => q.st = "DOWNLOAD_BLK_END_RSP" /\ f.crc = j.data
    BY <1>1, <1>2, <1>3 DEF Blocks
  <2>3. s.st = "DOWNLOAD_BLK_END_RSP" => q.st = "DOWNLOAD_BLK_END_RSP" /\ Written(s, j)
    BY <1>1, <1>3 DEF Blocks
  <2>4. \A f \in Held(y, q.rx) :
          f.c = "blkEndOk" => q.st = "DOWNLOAD_BLK_END_RSP" /\ Written(s, j) /\ s.st \in Gone
    BY <1>1, <1>3 DEF Blocks
  <2> QED
    BY ONLY <2>1, <2>2, <2>3, <2>4 DEF Blocks
<1>5. q.st \notin CliReady \cup CliAsks
  BY CliPhases
<1> QED
  BY ONLY <1>1, <1>4, <1>5, q.ret # "ok", CliHas(q, j) DEF Down

\* What the frames of a download say.
LEMMA DownloadSays ==
  ASSUME NEW idx, NEW ind, NEW data
  PROVE  /\ LET g == [[Frame("download") EXCEPT !.idx = idx] EXCEPT !.ind = ind] IN
            g.c = "download" /\ g.idx = idx /\ g.exp = 0
         /\ LET g == [[Frame("download") EXCEPT !.idx = idx] EXCEPT !.exp = 1, !.ind = ind,
                                                                    !.data = data] IN
            g.c = "download" /\ g.idx = idx /\ g.exp = 1 /\ g.ind = ind /\ g.data = data
         /\ LET g == [Frame("blkDownload") EXCEPT !.idx = idx, !.ind = ind] IN
            g.c = "blkDownload" /\ g.idx = idx
         /\ LET g == [Frame("blkEnd") EXCEPT !.ind = ind, !.crc = data] IN
            g.c = "blkEnd" /\ g.crc = data
BY DEF Frame, blank

LEMMA SegmentSays ==
  ASSUME NEW t, NEW last, NEW data
  PROVE  /\ LET g == [Frame("segment") EXCEPT !.t = t, !.last = last, !.data = data] IN
            g.c = "segment" /\ g.t = t /\ g.last = last /\ g.data = data
         /\ LET g == [Frame("block") EXCEPT !.seq = t, !.last = last, !.data = data] IN
            g.c = "block"
BY DEF Frame, blank

LEMMA SentIs ==
  ASSUME NEW k, DOMAIN k = CliFields, NEW g
  PROVE  LET q == Send(k, g) IN
         SameCli(q, k) /\ q.rx = k.rx /\ q.ret = k.ret /\ q.out = <<g>> /\ DOMAIN q = CliFields
BY DEF CliFields, SameCli, Send

\* What a client that downloads has, by where it is.
LEMMA CliHasIs ==
  ASSUME NEW q, NEW j \in Jobs, j.op = "download", q.idx = j.obj, q.ret # "ok"
  PROVE  /\ q.st \in DownStart /\ Left(q, j) /\ (q.fin = 0 => q.tran = 0)
              /\ (q.st = "DOWNLOAD_BLK_INITIATE_RSP" => q.fin = 0) => CliHas(q, j)
         /\ q.st = "DOWNLOAD_SEGMENT_RSP" /\ Left(q, j) => CliHas(q, j)
         /\ q.st \in DownSending /\ Taken(q, j)
              /\ (q.st = "DOWNLOAD_BLK_SUBBLOCK_REQ" => q.fin = 0) => CliHas(q, j)
         /\ q.st = "DOWNLOAD_BLK_END_RSP" /\ q.crc = j.data => CliHas(q, j)
<1> USE DEF CliHas, CliUp, CliDown, DownRequest, DownStart, DownSegment, DownBlock, DownSending,
            UpAsked, UpSegment, UpBlock
<1>1. q.st \in DownStart /\ Left(q, j) /\ (q.fin = 0 => q.tran = 0)
        /\ (q.st = "DOWNLOAD_BLK_INITIATE_RSP" => q.fin = 0) => CliHas(q, j)
  OBVIOUS
<1>2. q.st = "DOWNLOAD_SEGMENT_RSP" /\ Left(q, j) => CliHas(q, j)
  OBVIOUS
<1>3. q.st \in DownSending /\ Taken(q, j)
        /\ (q.st = "DOWNLOAD_BLK_SUBBLOCK_REQ" => q.fin = 0) => CliHas(q, j)
  OBVIOUS
<1>4. q.st = "DOWNLOAD_BLK_END_RSP" /\ q.crc = j.data => CliHas(q, j)
  OBVIOUS
<1> QED
  BY ONLY <1>1, <1>2, <1>3, <1>4

\* The step gives up, or leaves the transfer on its way.
LEMMA GivesEnds ==
  ASSUME NEW s, NEW x, NEW k, NEW y, NEW j, Down(s, x, k, y, j), k.st # "IDLE",
         NEW r, DOMAIN r = CliFields, r.st \in Gone, r.ret # "ok", NEW u
  PROVE  Down(s, u, SendAbort(r), y, j)
<1>1. SendAbort(r).st \in Gone /\ SendAbort(r).ret = r.ret
  BY DEF SendAbort, Send, Gone, CliFields
<1> QED
  BY <1>1, CliGone

LEMMA GoesOnIs ==
  ASSUME NEW r, r.st # "ABORT"
  PROVE  SendAbort(r) = r
BY DEF SendAbort

\* A request with its data, if it is short enough.
LEMMA ExpeditedIsAll ==
  ASSUME NEW k, CliOK(k), k.st = "DOWNLOAD_INITIATE_REQ", NEW j \in Jobs, CliHas(k, j),
         Len(k.fifo) <= Exped
  PROVE  k.more = <<>> /\ k.fifo = j.data
<1>1. k.fifo \in Data /\ Len(k.fifo) \in Nat /\ k.more \in Data
  BY CliIs DEF CliOK
<1>2. Left(k, j) /\ k.tran = 0 /\ (k.more = <<>> \/ Len(k.fifo) = Fifo)
  BY DEF CliHas, DownRequest
<1>3. k.more = <<>>
  <2>1. Exped \in Nat /\ Seg \in Nat /\ Fifo \in Nat /\ Exped < Seg /\ Seg <= Fifo
    BY SdoAssumption
  <2> QED
    BY ONLY <1>1, <1>2, <2>1, Len(k.fifo) <= Exped
<1>4. k.fifo \o k.more = k.fifo
  BY ONLY <1>1, <1>3, CatNone
<1>5. Rest(j.data, 0) = j.data
  BY JobIs, WholeIs
<1> QED
  BY ONLY <1>2, <1>3, <1>4, <1>5 DEF Left

LEMMA RequestsDownload ==
  ASSUME NEW k, CliOK(k), k.st = "DOWNLOAD_INITIATE_REQ",
         NEW s, s.rx \in Frames \cup {None}, NEW x \in Seq(Frames), NEW y, NEW j,
         Down(s, x, k, y, j)
  PROVE  LET e == SendAbort(RequestDownload(k)) IN Down(s, x \o e.out, e, y, j)
<1> DEFINE n == Len(k.fifo)
           long == ~((k.ind = 0 /\ n <= Exped) \/ (k.ind > 0 /\ k.ind <= Exped))
           bad == n = 0 \/ (k.ind > 0 /\ k.ind # n)
           ind == IF k.ind > 0 THEN n ELSE 0
           data == k.fifo \o Zeros(Exped - n)
           on == [k EXCEPT !.st = "DOWNLOAD_INITIATE_RSP"]
           all == [k EXCEPT !.fifo = <<>>, !.tran = n, !.fin = 1, !.st = "DOWNLOAD_INITIATE_RSP"]
           plain == [[Frame("download") EXCEPT !.idx = k.idx] EXCEPT !.ind = k.ind]
           exped == [[Frame("download") EXCEPT !.idx = k.idx] EXCEPT !.exp = 1, !.ind = ind,
                                                                     !.data = data]
           r == RequestDownload(k)
           e == SendAbort(r)
<1>1. r = IF long THEN Send(on, plain) ELSE IF bad THEN End(k, "abort") ELSE Send(all, exped)
  BY DEF RequestDownload
<1>2. /\ DOMAIN k = CliFields /\ k.fifo \in Data /\ n \in Nat /\ k.more \in Data /\ k.ind \in Nat
      /\ k.idx \in Obj \cup {None}
  BY CliIs, CliFieldsAre DEF CliOK
<1>3. CliHas(k, j) /\ k.ret # "ok" /\ j \in Jobs
  BY DEF Down, CliHas
<1>4. /\ j.op = "download" /\ k.idx = j.obj /\ Left(k, j) /\ k.tran = 0 /\ k.fin = 0
      /\ k.ind = j.ind
  BY <1>3 DEF CliHas, DownRequest, CliDown
<1>5. k.st \in CliReady /\ k.st # "IDLE"
  BY DEF CliReady, DownRequest
<1>6. j.data \in Data /\ Len(j.data) \in Nat /\ Exped \in Nat
  BY <1>3, JobIs, LenIs, SdoAssumption
<1>7. "DOWNLOAD_INITIATE_RSP" \in DownStart /\ "DOWNLOAD_INITIATE_RSP" \in CliAsks
  BY DEF DownStart, CliAsks
<1> SUFFICES Down(s, x \o e.out, e, y, j)
  OBVIOUS
<1> HIDE DEF r
<1>8. CliStep(k, r)
  <2>1. CliStep(k, RequestDownload(k))
    BY RequestDownloadOK
  <2> QED
    BY ONLY <2>1 DEF r
<1>9. r \in CliRecord /\ r.out \in Seq(Frames)
  BY ONLY <1>8 DEF CliStep, CliOK, CliBase, CliRecord
<1>10. CASE long
  <2>1. r = Send(on, plain)
    BY ONLY <1>1, <1>10
  <2>2. /\ on.st = "DOWNLOAD_INITIATE_RSP" /\ on.idx = k.idx /\ on.fin = k.fin /\ on.tran = k.tran
        /\ on.fifo = k.fifo /\ on.more = k.more /\ on.ret = k.ret /\ on.rx = k.rx
        /\ DOMAIN on = CliFields
    BY ONLY <1>2 DEF CliFields
  <2>3. plain.c = "download" /\ plain.idx = k.idx /\ plain.exp = 0
    BY ONLY DownloadSays
  <2> HIDE DEF on, plain, long
  <2>4. SameCli(r, on) /\ r.rx = on.rx /\ r.ret = on.ret /\ r.out = <<plain>>
    BY ONLY <2>1, <2>2, SentIs
  <2>5. CliHas(r, j)
    <3>1. /\ r.st = "DOWNLOAD_INITIATE_RSP" /\ r.idx = j.obj /\ r.fin = 0 /\ r.tran = k.tran
          /\ r.fifo = k.fifo /\ r.more = k.more /\ r.ret # "ok"
      BY ONLY <1>3, <1>4, <2>2, <2>4 DEF SameCli
    <3>2. Left(r, j)
      BY ONLY <1>4, <3>1 DEF Left
    <3> QED
      BY ONLY <1>3, <1>4, <1>7, <3>1, <3>2, CliHasIs
  <2>6. Asked(plain, s, r, j)
    BY ONLY <1>4, <2>2, <2>3, <2>4 DEF Asked, SameCli
  <2>7. plain \in Frames
    BY ONLY <1>9, <2>4, <<plain>>[1] = plain, Len(<<plain>>) = 1, ElementOfSeq, 1 \in 1..1
  <2>8. e = r
    BY ONLY <2>2, <2>4, GoesOnIs DEF SameCli
  <2>9. Down(s, x \o <<plain>>, r, y, j)
    BY ONLY <1>3, <1>5, <1>7, <2>2, <2>4, <2>5, <2>6, <2>7, AsksDown, Down(s, x, k, y, j),
            s.rx \in Frames \cup {None}, x \in Seq(Frames) DEF SameCli
  <2> HIDE DEF e
  <2> QED
    BY ONLY <2>4, <2>8, <2>9
<1>11. CASE ~long /\ bad
  <2>1. r = End(k, "abort")
    BY ONLY <1>1, <1>11
  <2>2. r.st \in Gone /\ r.ret # "ok" /\ DOMAIN r = CliFields
    BY ONLY <1>2, <2>1, EndIs DEF Gone
  <2> QED
    BY ONLY <1>5, <2>2, GivesEnds, Down(s, x, k, y, j)
<1>12. CASE ~long /\ ~bad
  <2>1. r = Send(all, exped)
    BY ONLY <1>1, <1>12
  <2>2. n <= Exped /\ n # 0 /\ (ind = n \/ (ind = 0 /\ k.ind = 0))
    BY ONLY <1>2, <1>6, <1>12
  <2>3. k.more = <<>> /\ k.fifo = j.data
    BY ONLY <1>3, <2>2, ExpeditedIsAll, CliOK(k), k.st = "DOWNLOAD_INITIATE_REQ"
  <2>4. /\ all.st = "DOWNLOAD_INITIATE_RSP" /\ all.idx = k.idx /\ all.fin = 1 /\ all.tran = n
        /\ all.fifo = <<>> /\ all.more = k.more /\ all.ret = k.ret /\ all.rx = k.rx
        /\ DOMAIN all = CliFields
    BY ONLY <1>2 DEF CliFields
  <2>5. /\ exped.c = "download" /\ exped.idx = k.idx /\ exped.exp = 1 /\ exped.ind = ind
        /\ exped.data = data
    <3> HIDE DEF data, ind
    <3> QED
      BY ONLY DownloadSays
  <2>6. j.data # <<>> /\ Len(j.data) <= Exped /\ data = j.data \o Zeros(Exped - Len(j.data))
        /\ (ind = Len(j.data) \/ (ind = 0 /\ j.ind = 0)) /\ n = Len(j.data)
    <3>1. Len(<<>>) = 0
      OBVIOUS
    <3> QED
      BY ONLY <1>4, <2>2, <2>3, <3>1
  <2> HIDE DEF all, exped, long, bad, data, ind, n
  <2>7. SameCli(r, all) /\ r.rx = all.rx /\ r.ret = all.ret /\ r.out = <<exped>>
    BY ONLY <2>1, <2>4, SentIs
  <2>8. CliHas(r, j)
    <3>1. /\ r.st = "DOWNLOAD_INITIATE_RSP" /\ r.idx = j.obj /\ r.fin = 1 /\ r.tran = n
          /\ r.fifo = <<>> /\ r.more = <<>> /\ r.ret # "ok"
      BY ONLY <1>3, <1>4, <2>3, <2>4, <2>7 DEF SameCli
    <3>2. Rest(j.data, Len(j.data)) = <<>> /\ <<>> \o <<>> = <<>>
      BY <1>6, WholeIs, CatNone
    <3>3. Left(r, j)
      BY ONLY <1>6, <2>6, <3>1, <3>2 DEF Left
    <3> QED
      BY ONLY <1>3, <1>4, <1>7, <3>1, <3>3, CliHasIs
  <2>9. Asked(exped, s, r, j)
    <3>1. r.st = "DOWNLOAD_INITIATE_RSP" /\ r.fin = 1
      BY ONLY <2>4, <2>7 DEF SameCli
    <3> QED
      BY ONLY <1>4, <2>5, <2>6, <3>1 DEF Asked
  <2>10. exped \in Frames
    BY ONLY <1>9, <2>7, <<exped>>[1] = exped, Len(<<exped>>) = 1, ElementOfSeq, 1 \in 1..1
  <2>11. e = r
    BY ONLY <2>4, <2>7, GoesOnIs DEF SameCli
  <2>12. Down(s, x \o <<exped>>, r, y, j)
    BY ONLY <1>3, <1>5, <1>7, <2>4, <2>7, <2>8, <2>9, <2>10, AsksDown, Down(s, x, k, y, j),
            s.rx \in Frames \cup {None}, x \in Seq(Frames) DEF SameCli
  <2> HIDE DEF e
  <2> QED
    BY ONLY <2>7, <2>11, <2>12
<1> QED
  BY ONLY <1>10, <1>11, <1>12

\* The next segment is the next part of the data.
NextPart(fifo, more, d, tran, n) ==
  /\ tran + n \in Nat /\ tran + n <= Len(d)
  /\ Front_(fifo, n) = Part(d, tran, tran + n)
  /\ Rest(fifo, n) \o more = Rest(d, tran + n)
  /\ Rest(fifo, n) = <<>> /\ more = <<>> => tran + n = Len(d)

LEMMA SegmentIsNext ==
  ASSUME NEW fifo \in Data, NEW more \in Data, NEW d \in Data, NEW tran \in Nat, tran <= Len(d),
         fifo \o more = Rest(d, tran), NEW n \in Nat, n <= Len(fifo)
  PROVE  NextPart(fifo, more, d, tran, n)
<1>1. Len(d) \in Nat /\ Len(fifo) \in Nat /\ Len(more) \in Nat
  BY LenIs
<1>2. Len(fifo) + Len(more) = Len(d) - tran
  <2>1. Len(fifo \o more) = Len(fifo) + Len(more)
    BY CatIs
  <2>2. Len(Rest(d, tran)) = Len(d) - tran
    BY RestIs
  <2> QED
    BY ONLY <2>1, <2>2, fifo \o more = Rest(d, tran)
<1>3. tran + n \in Nat /\ tran + n <= Len(d)
  BY ONLY <1>1, <1>2, n \in Nat, n <= Len(fifo), tran \in Nat
<1>4. Front_(fifo, n) = Part(d, tran, tran + n)
  <2>1. Front_(fifo \o more, n) = Front_(fifo, n)
    BY FrontOfCat
  <2>2. Front_(Rest(d, tran), n) = Part(d, tran, tran + n)
    BY <1>3, FrontOfRest
  <2> QED
    BY ONLY <2>1, <2>2, fifo \o more = Rest(d, tran)
<1> DEFINE a == Front_(fifo, n)
           b == Rest(fifo, n)
<1>5. a \in Data /\ Len(a) = n /\ b \in Data /\ Len(b) = Len(fifo) - n /\ a \o b = fifo
  BY FrontIs, RestIs, FrontAndRest
<1> HIDE DEF a, b
<1>6. b \o more = Rest(d, tran + n)
  <2>1. b \o more \in Data
    BY ONLY <1>5, CatIs, more \in Data
  <2>2. (a \o b) \o more = a \o (b \o more)
    <3>1. a \in Data /\ b \in Data
      BY ONLY <1>5
    <3> QED
      BY ONLY <3>1, CatAssoc, more \in Data, ZenonT(40)
  <2>3. Rest(a \o (b \o more), n) = b \o more
    BY ONLY <1>5, <2>1, CatParts
  <2>4. Rest(Rest(d, tran), n) = Rest(d, tran + n)
    BY <1>3, RestOfRest
  <2> QED
    BY ONLY <1>5, <2>2, <2>3, <2>4, fifo \o more = Rest(d, tran)
<1>7. b = <<>> /\ more = <<>> => tran + n = Len(d)
  <2>1. Len(<<>>) = 0
    OBVIOUS
  <2> QED
    BY ONLY <1>1, <1>2, <1>5, <2>1, n \in Nat, tran \in Nat
<1> QED
  BY ONLY <1>3, <1>4, <1>6, <1>7 DEF a, b, NextPart

LEMMA RequestsSegment ==
  ASSUME NEW k, CliOK(k), k.st = "DOWNLOAD_SEGMENT_REQ",
         NEW s, s.rx \in Frames \cup {None}, NEW x \in Seq(Frames), NEW y, NEW j,
         Down(s, x, k, y, j)
  PROVE  LET e == SendAbort(RequestSegment(k)) IN Down(s, x \o e.out, e, y, j)
<1> DEFINE n == Low(Len(k.fifo), Seg)
           fifo == Rest(k.fifo, n)
           tran == k.tran + n
           data == Front_(k.fifo, n)
           a == [k EXCEPT !.fifo = Rest(@, n), !.tran = @ + n]
           last == a.fifo = <<>> /\ ~Partial(k)
           fin == IF last THEN 1 ELSE 0
           wrong == k.ind > 0 /\ (a.tran > k.ind \/ (last /\ a.tran < k.ind))
           on == [a EXCEPT !.fin = IF last THEN 1 ELSE @, !.st = "DOWNLOAD_SEGMENT_RSP"]
           f == [Frame("segment") EXCEPT !.t = k.t, !.last = fin, !.data = data]
           r == RequestSegment(k)
           e == SendAbort(r)
<1>1. r = IF wrong THEN Stop(k) ELSE Send(on, f)
  BY DEF RequestSegment
<1>2. /\ DOMAIN k = CliFields /\ k.fifo \in Data /\ Len(k.fifo) \in Nat /\ k.more \in Data
      /\ k.t \in Bit /\ k.fin \in Bit
  BY CliIs, CliFieldsAre, LenIs DEF CliOK
<1>3. CliHas(k, j) /\ k.ret # "ok" /\ j \in Jobs /\ Ready(s, x, k, y, j)
  BY DEF Down, CliHas, CliReady
<1>4. j.op = "download" /\ k.idx = j.obj /\ Left(k, j) /\ k.fin = 0
  BY <1>3 DEF CliHas, DownSegment, CliDown
<1>5. k.st \in CliReady /\ k.st # "IDLE" /\ "DOWNLOAD_SEGMENT_RSP" \in CliAsks
  BY DEF CliReady, CliAsks
<1>6. n \in Nat /\ n <= Len(k.fifo)
  BY ONLY <1>2, SdoAssumption, LowIs
<1>7. j.data \in Data
  BY <1>3, JobIs
<1> SUFFICES Down(s, x \o e.out, e, y, j)
  OBVIOUS
<1> HIDE DEF n, r
<1>8. CliStep(k, r)
  <2>1. CliStep(k, RequestSegment(k))
    BY RequestSegmentOK
  <2> QED
    BY ONLY <2>1 DEF r
<1>9. r \in CliRecord /\ r.out \in Seq(Frames)
  BY ONLY <1>8 DEF CliStep, CliOK, CliBase, CliRecord
<1>10. /\ k.tran \in Nat /\ tran \in Nat /\ tran <= Len(j.data)
       /\ data = Part(j.data, k.tran, tran)
       /\ fifo \o k.more = Rest(j.data, tran)
       /\ (fifo = <<>> /\ k.more = <<>> => tran = Len(j.data))
  <2>1. k.tran \in Nat /\ k.tran <= Len(j.data) /\ k.fifo \o k.more = Rest(j.data, k.tran)
    BY ONLY <1>4 DEF Left
  <2> DEFINE m == k.tran
             g == k.fifo
             h == k.more
             d == j.data
  <2>2. m \in Nat /\ m <= Len(d) /\ g \o h = Rest(d, m) /\ n \in Nat /\ n <= Len(g)
        /\ g \in Data /\ h \in Data /\ d \in Data
    BY ONLY <1>2, <1>6, <1>7, <2>1
  <2> HIDE DEF m, g, h, d
  <2>3. NextPart(g, h, d, m, n)
    BY ONLY <2>2, SegmentIsNext
  <2> QED
    BY ONLY <2>2, <2>3 DEF m, g, h, d, NextPart
<1>11. a = [k EXCEPT !.fifo = fifo, !.tran = tran]
  BY ONLY <1>2 DEF CliFields
<1> HIDE DEF fifo, tran, data, a
<1>12. /\ a.st = k.st /\ a.idx = k.idx /\ a.fin = k.fin /\ a.fifo = fifo /\ a.tran = tran
       /\ a.more = k.more /\ a.ret = k.ret /\ a.rx = k.rx /\ a.t = k.t /\ DOMAIN a = CliFields
  BY ONLY <1>2, <1>11 DEF CliFields
<1>13. last <=> fifo = <<>> /\ k.more = <<>>
  BY ONLY <1>12 DEF Partial
<1> HIDE DEF last
<1>14. CASE wrong
  <2>1. r = Stop(k)
    BY ONLY <1>1, <1>14
  <2>2. r.st \in Gone /\ r.ret # "ok" /\ DOMAIN r = CliFields
    BY ONLY <1>2, <1>3, <2>1, EndIs DEF Gone
  <2> QED
    BY ONLY <1>5, <2>2, GivesEnds, Down(s, x, k, y, j)
<1>15. CASE ~wrong
  <2>1. r = Send(on, f)
    BY ONLY <1>1, <1>15
  <2>2. /\ on.st = "DOWNLOAD_SEGMENT_RSP" /\ on.idx = k.idx /\ on.fin = fin /\ on.tran = tran
        /\ on.fifo = fifo /\ on.more = k.more /\ on.ret = k.ret /\ on.rx = k.rx /\ on.t = k.t
        /\ DOMAIN on = CliFields
    BY ONLY <1>4, <1>12 DEF CliFields
  <2>3. f.c = "segment" /\ f.t = k.t /\ f.last = fin /\ f.data = data
    <3> HIDE DEF fin
    <3> QED
      BY ONLY SegmentSays
  <2>4. fin \in Bit /\ (fin = 1 => tran = Len(j.data))
    BY ONLY <1>10, <1>13 DEF Bit
  <2> HIDE DEF on, f, fin
  <2>5. SameCli(r, on) /\ r.rx = on.rx /\ r.ret = on.ret /\ r.out = <<f>>
    BY ONLY <2>1, <2>2, SentIs
  <2>6. /\ r.st = "DOWNLOAD_SEGMENT_RSP" /\ r.idx = j.obj /\ r.fin = fin /\ r.tran = tran
        /\ r.fifo = fifo /\ r.more = k.more /\ r.ret # "ok" /\ r.t = k.t /\ r.rx = k.rx
    BY ONLY <1>3, <1>4, <2>2, <2>5 DEF SameCli
  <2>7. CliHas(r, j)
    <3>1. Left(r, j)
      BY ONLY <1>10, <2>4, <2>6 DEF Left
    <3> QED
      BY ONLY <1>3, <1>4, <2>6, <3>1, CliHasIs
  <2>8. Asked(f, s, r, j)
    <3>1. s.st = "DOWNLOAD_SEGMENT_REQ" => Sync(s, j, k.tran) /\ s.t = r.t
      BY ONLY <1>3, <2>6, k.st = "DOWNLOAD_SEGMENT_REQ" DEF Ready
    <3>2. k.tran \in 0..r.tran /\ f.data = Part(j.data, k.tran, r.tran)
      <4>1. k.tran <= tran
        BY ONLY <1>6, <1>10 DEF tran
      <4> QED
        BY ONLY <1>10, <2>3, <2>6, <4>1
    <3> QED
      BY ONLY <2>3, <2>6, <3>1, <3>2 DEF Asked
  <2>9. f \in Frames
    BY ONLY <1>9, <2>5, <<f>>[1] = f, Len(<<f>>) = 1, ElementOfSeq, 1 \in 1..1
  <2>10. e = r
    BY ONLY <2>6, GoesOnIs
  <2>11. Down(s, x \o <<f>>, r, y, j)
    BY ONLY <1>5, <2>6, <2>7, <2>8, <2>9, AsksDown, Down(s, x, k, y, j),
            s.rx \in Frames \cup {None}, x \in Seq(Frames)
  <2> HIDE DEF e
  <2> QED
    BY ONLY <2>5, <2>10, <2>11
<1> QED
  BY ONLY <1>14, <1>15

LEMMA RequestsBlocks ==
  ASSUME NEW k, CliOK(k), k.st = "DOWNLOAD_BLK_INITIATE_REQ",
         NEW s, s.rx \in Frames \cup {None}, NEW x \in Seq(Frames), NEW y, NEW j,
         Down(s, x, k, y, j)
  PROVE  LET e == SendAbort(CliSend(k)) IN Down(s, x \o e.out, e, y, j)
<1> DEFINE on == [k EXCEPT !.st = "DOWNLOAD_BLK_INITIATE_RSP"]
           f == [Frame("blkDownload") EXCEPT !.idx = k.idx, !.ind = k.ind]
           r == CliSend(k)
           e == SendAbort(r)
<1>1. r = Send(on, f)
  BY DEF CliSend
<1>2. DOMAIN k = CliFields
  BY CliIs, CliFieldsAre DEF CliOK
<1>3. CliHas(k, j) /\ k.ret # "ok" /\ j \in Jobs
  BY DEF Down, CliHas
<1>4. j.op = "download" /\ k.idx = j.obj /\ Left(k, j) /\ k.fin = 0 /\ k.tran = 0
  BY <1>3 DEF CliHas, DownRequest, CliDown
<1>5. k.st \in CliReady /\ "DOWNLOAD_BLK_INITIATE_RSP" \in CliAsks
      /\ "DOWNLOAD_BLK_INITIATE_RSP" \in DownStart
  BY DEF CliReady, CliAsks, DownRequest, DownStart
<1> SUFFICES Down(s, x \o e.out, e, y, j)
  OBVIOUS
<1> HIDE DEF r
<1>6. f.c = "blkDownload" /\ f.idx = k.idx
  BY ONLY DownloadSays
<1>7. /\ on.st = "DOWNLOAD_BLK_INITIATE_RSP" /\ on.idx = k.idx /\ on.fin = k.fin
      /\ on.tran = k.tran /\ on.fifo = k.fifo /\ on.more = k.more /\ on.ret = k.ret
      /\ on.rx = k.rx /\ DOMAIN on = CliFields
  BY ONLY <1>2 DEF CliFields
<1> HIDE DEF f, on
<1>8. SameCli(r, on) /\ r.rx = on.rx /\ r.ret = on.ret /\ r.out = <<f>>
  BY ONLY <1>1, <1>7, SentIs
<1>9. /\ r.st = "DOWNLOAD_BLK_INITIATE_RSP" /\ r.idx = j.obj /\ r.fin = 0 /\ r.tran = k.tran
      /\ r.fifo = k.fifo /\ r.more = k.more /\ r.ret # "ok" /\ r.rx = k.rx
  BY ONLY <1>3, <1>4, <1>7, <1>8 DEF SameCli
<1>10. f \in Frames
  <2>1. CliStep(k, r)
    <3>1. CliStep(k, CliSend(k))
      BY CliSendOK
    <3> QED
      BY ONLY <3>1 DEF r
  <2>2. r.out \in Seq(Frames)
    BY ONLY <2>1 DEF CliStep, CliOK, CliBase, CliRecord
  <2> QED
    BY ONLY <1>8, <2>2, <<f>>[1] = f, Len(<<f>>) = 1, ElementOfSeq, 1 \in 1..1
<1>11. CliHas(r, j)
  <2>1. Left(r, j)
    BY ONLY <1>4, <1>9 DEF Left
  <2> QED
    BY ONLY <1>3, <1>4, <1>5, <1>9, <2>1, CliHasIs
<1>12. Asked(f, s, r, j)
  BY ONLY <1>4, <1>6, <1>9 DEF Asked
<1>13. e = r
  BY ONLY <1>9, GoesOnIs
<1>14. Down(s, x \o <<f>>, r, y, j)
  BY ONLY <1>5, <1>9, <1>10, <1>11, <1>12, AsksDown, Down(s, x, k, y, j),
          s.rx \in Frames \cup {None}, x \in Seq(Frames)
<1> HIDE DEF e
<1> QED
  BY ONLY <1>8, <1>13, <1>14

LEMMA RequestsBlockSegment ==
  ASSUME NEW k, CliOK(k), k.out = <<>>, k.st = "DOWNLOAD_BLK_SUBBLOCK_REQ",
         NEW s, s.rx \in Frames \cup {None}, NEW x \in Seq(Frames), NEW y, NEW j,
         Down(s, x, k, y, j)
  PROVE  LET e == SendAbort(RequestBlockSegment(k)) IN Down(s, x \o e.out, e, y, j)
<1> DEFINE left == Len(k.fifo) - k.alt
           n == Low(left, Seg)
           a == [k EXCEPT !.seq = @ + 1, !.alt = @ + n, !.nod = Seg - n, !.tran = @ + n]
           last == n = left /\ ~Partial(k)
           fin == IF last THEN 1 ELSE a.fin
           st == IF last \/ a.seq >= a.blk THEN "DOWNLOAD_BLK_SUBBLOCK_RSP" ELSE a.st
           on == [a EXCEPT !.fin = IF last THEN 1 ELSE @,
                           !.st = IF last \/ a.seq >= a.blk THEN "DOWNLOAD_BLK_SUBBLOCK_RSP" ELSE @]
           bit == IF last THEN 1 ELSE 0
           data == Pad(SubSeq(k.fifo, k.alt + 1, k.alt + n))
           f == [Frame("block") EXCEPT !.seq = a.seq, !.last = bit, !.data = data]
           r == RequestBlockSegment(k)
           e == SendAbort(r)
<1>1. r \in {k, Stop(a), Send(on, f)}
  BY DEF RequestBlockSegment
<1>2. /\ DOMAIN k = CliFields /\ k.fifo \in Data /\ Len(k.fifo) \in Nat /\ k.alt \in Nat
      /\ k.fin \in Bit
  BY CliIs, CliFieldsAre, LenIs DEF CliOK
<1>3. CliHas(k, j) /\ k.ret # "ok" /\ j \in Jobs
  BY DEF Down, CliHas
<1>4. j.op = "download" /\ k.idx = j.obj /\ Taken(k, j) /\ k.fin = 0
  BY <1>3 DEF CliHas, DownSending, CliDown, DownBlock
<1>5. k.st \in CliBlock \ {"DOWNLOAD_BLK_END_RSP"} /\ k.st # "IDLE"
      /\ DownSending \subseteq CliBlock
  BY DEF CliBlock, DownSending
<1> SUFFICES Down(s, x \o e.out, e, y, j)
  OBVIOUS
<1> HIDE DEF r
<1>6. CliStep(k, r)
  <2>1. CliStep(k, RequestBlockSegment(k))
    BY RequestBlockSegmentOK
  <2> QED
    BY ONLY <2>1 DEF r
<1>7. r \in CliRecord /\ r.out \in Seq(Frames)
  BY ONLY <1>6 DEF CliStep, CliOK, CliBase, CliRecord
<1> HIDE DEF n
<1>8. a = [k EXCEPT !.seq = k.seq + 1, !.alt = k.alt + n, !.nod = Seg - n, !.tran = k.tran + n]
  BY ONLY <1>2 DEF CliFields
<1> HIDE DEF a
<1>9. /\ a.st = k.st /\ a.idx = k.idx /\ a.fin = k.fin /\ a.fifo = k.fifo /\ a.crc = k.crc
      /\ a.alt = k.alt + n /\ a.more = k.more /\ a.ret = k.ret /\ a.rx = k.rx
      /\ DOMAIN a = CliFields
  BY ONLY <1>2, <1>8 DEF CliFields
<1>10. last => k.more = <<>> /\ k.alt + n = Len(k.fifo)
  BY ONLY <1>2 DEF Partial
<1> HIDE DEF last
<1>11. CASE r = k
  <2>1. e = k
    BY ONLY <1>11, GoesOnIs, k.st = "DOWNLOAD_BLK_SUBBLOCK_REQ"
  <2>2. x \o <<>> = x
    BY EmptyCat
  <2> HIDE DEF e
  <2> QED
    BY ONLY <2>1, <2>2, Down(s, x, k, y, j), k.out = <<>>
<1>12. CASE r = Stop(a)
  <2>1. r.st \in Gone /\ r.ret # "ok" /\ DOMAIN r = CliFields
    BY ONLY <1>3, <1>9, <1>12, EndIs DEF Gone
  <2> QED
    BY ONLY <1>5, <2>1, GivesEnds, Down(s, x, k, y, j)
<1>13. CASE r = Send(on, f)
  <2>1. /\ on.st = st /\ on.idx = k.idx /\ on.fin = fin /\ on.fifo = k.fifo /\ on.crc = k.crc
        /\ on.alt = k.alt + n /\ on.more = k.more /\ on.ret = k.ret /\ on.rx = k.rx
        /\ DOMAIN on = CliFields
    BY ONLY <1>9 DEF CliFields
  <2>2. f.c = "block"
    <3> HIDE DEF bit, data
    <3> QED
      BY ONLY SegmentSays
  <2>3. st \in DownSending /\ (st = "DOWNLOAD_BLK_SUBBLOCK_REQ" => fin = 0)
        /\ (fin = 1 => k.more = <<>> /\ k.alt + n = Len(k.fifo))
    <3>1. last => st = "DOWNLOAD_BLK_SUBBLOCK_RSP" /\ fin = 1
      OBVIOUS
    <3>2. ~last => fin = 0 /\ st \in DownSending
      BY ONLY <1>4, <1>9, k.st = "DOWNLOAD_BLK_SUBBLOCK_REQ" DEF DownSending
    <3> HIDE DEF st, fin
    <3> QED
      BY ONLY <1>10, <3>1, <3>2 DEF DownSending
  <2> HIDE DEF on, f, fin, st
  <2>4. SameCli(r, on) /\ r.rx = on.rx /\ r.ret = on.ret /\ r.out = <<f>>
    BY ONLY <1>13, <2>1, SentIs
  <2>5. /\ r.st = st /\ r.idx = j.obj /\ r.fin = fin /\ r.fifo = k.fifo /\ r.more = k.more
        /\ r.crc = k.crc /\ r.alt = k.alt + n /\ r.ret # "ok" /\ r.rx = k.rx
    BY ONLY <1>3, <1>4, <2>1, <2>4 DEF SameCli
  <2>6. CliHas(r, j)
    <3>1. Taken(r, j)
      BY ONLY <1>4, <2>3, <2>5 DEF Taken
    <3> QED
      BY ONLY <1>3, <1>4, <2>3, <2>5, <3>1, CliHasIs
  <2>7. f \in Frames
    BY ONLY <1>7, <2>4, <<f>>[1] = f, Len(<<f>>) = 1, ElementOfSeq, 1 \in 1..1
  <2>8. e = r
    <3>1. st # "ABORT"
      BY ONLY <2>3 DEF DownSending
    <3> QED
      BY ONLY <2>5, <3>1, GoesOnIs
  <2>9. f.c \notin Requests /\ f.c # "blkEnd"
    BY ONLY <2>2 DEF Requests
  <2>10. Down(s, x \o <<f>>, r, y, j)
    BY ONLY <1>5, <2>3, <2>5, <2>6, <2>7, <2>9, BlocksSay, Down(s, x, k, y, j),
            s.rx \in Frames \cup {None}, x \in Seq(Frames)
  <2> HIDE DEF e
  <2> QED
    BY ONLY <2>4, <2>8, <2>10
<1> QED
  BY ONLY <1>1, <1>11, <1>12, <1>13

LEMMA RequestsEnd ==
  ASSUME NEW k, CliOK(k), k.st = "DOWNLOAD_BLK_END_REQ",
         NEW s, s.rx \in Frames \cup {None}, NEW x \in Seq(Frames), NEW y, NEW j,
         Down(s, x, k, y, j)
  PROVE  LET e == SendAbort(CliSend(k)) IN Down(s, x \o e.out, e, y, j)
<1> DEFINE on == [k EXCEPT !.st = "DOWNLOAD_BLK_END_RSP"]
           f == [Frame("blkEnd") EXCEPT !.ind = k.nod, !.crc = k.crc]
           r == CliSend(k)
           e == SendAbort(r)
<1>1. r = Send(on, f)
  BY DEF CliSend
<1>2. DOMAIN k = CliFields
  BY CliIs, CliFieldsAre DEF CliOK
<1>3. CliHas(k, j) /\ k.ret # "ok" /\ j \in Jobs
  BY DEF Down, CliHas
<1>4. j.op = "download" /\ k.idx = j.obj /\ k.crc = j.data
  BY <1>3 DEF CliHas, DownBlock, CliDown
<1>5. k.st \in CliBlock \ {"DOWNLOAD_BLK_END_RSP"} /\ "DOWNLOAD_BLK_END_RSP" \in CliBlock
  BY DEF CliBlock
<1> SUFFICES Down(s, x \o e.out, e, y, j)
  OBVIOUS
<1> HIDE DEF r
<1>6. f.c = "blkEnd" /\ f.crc = k.crc
  BY ONLY DownloadSays
<1>7. /\ on.st = "DOWNLOAD_BLK_END_RSP" /\ on.idx = k.idx /\ on.crc = k.crc /\ on.ret = k.ret
      /\ on.rx = k.rx /\ DOMAIN on = CliFields
  BY ONLY <1>2 DEF CliFields
<1> HIDE DEF f, on
<1>8. SameCli(r, on) /\ r.rx = on.rx /\ r.ret = on.ret /\ r.out = <<f>>
  BY ONLY <1>1, <1>7, SentIs
<1>9. /\ r.st = "DOWNLOAD_BLK_END_RSP" /\ r.idx = j.obj /\ r.crc = j.data
      /\ r.ret # "ok" /\ r.rx = k.rx
  BY ONLY <1>3, <1>4, <1>7, <1>8 DEF SameCli
<1>10. f \in Frames
  <2>1. CliStep(k, r)
    <3>1. CliStep(k, CliSend(k))
      BY CliSendOK
    <3> QED
      BY ONLY <3>1 DEF r
  <2>2. r.out \in Seq(Frames)
    BY ONLY <2>1 DEF CliStep, CliOK, CliBase, CliRecord
  <2> QED
    BY ONLY <1>8, <2>2, <<f>>[1] = f, Len(<<f>>) = 1, ElementOfSeq, 1 \in 1..1
<1>11. CliHas(r, j)
  BY ONLY <1>3, <1>4, <1>9, CliHasIs
<1>12. f.c \notin Requests
  BY ONLY <1>6 DEF Requests
<1>13. e = r
  BY ONLY <1>9, GoesOnIs
<1>14. Down(s, x \o <<f>>, r, y, j)
  BY ONLY <1>4, <1>5, <1>6, <1>9, <1>10, <1>11, <1>12, BlocksSay, Down(s, x, k, y, j),
          s.rx \in Frames \cup {None}, x \in Seq(Frames)
<1> HIDE DEF e
<1> QED
  BY ONLY <1>8, <1>13, <1>14

\* Whatever the client sends.
LEMMA CliGivesDown ==
  ASSUME NEW k, CliOK(k), k.out = <<>>,
         NEW s, s.rx \in Frames \cup {None}, NEW x \in Seq(Frames), NEW y, NEW j,
         Down(s, x, k, y, j)
  PROVE  LET e == SendAbort(CliSend(k)) IN Down(s, x \o e.out, e, y, j)
<1> DEFINE r == CliSend(k)
           e == SendAbort(r)
<1>1. DOMAIN k = CliFields /\ k.st \in States
  BY CliIs, CliFieldsAre DEF CliOK
<1>2. k.ret = "ok" => k.st = "IDLE"
  BY DEF Down, CliHas
<1>3. CASE k.st \in {"DOWNLOAD_INITIATE_REQ", "DOWNLOAD_SEGMENT_REQ", "DOWNLOAD_BLK_INITIATE_REQ",
                     "DOWNLOAD_BLK_SUBBLOCK_REQ", "DOWNLOAD_BLK_END_REQ"}
  <2>1. CASE k.st = "DOWNLOAD_INITIATE_REQ"
    <3>1. r = RequestDownload(k)
      BY <2>1 DEF CliSend
    <3> HIDE DEF r
    <3> QED
      BY <2>1, <3>1, RequestsDownload DEF r
  <2>2. CASE k.st = "DOWNLOAD_SEGMENT_REQ"
    <3>1. r = RequestSegment(k)
      BY <2>2 DEF CliSend
    <3> HIDE DEF r
    <3> QED
      BY <2>2, <3>1, RequestsSegment DEF r
  <2>3. CASE k.st = "DOWNLOAD_BLK_SUBBLOCK_REQ"
    <3>1. r = RequestBlockSegment(k)
      BY <2>3 DEF CliSend
    <3> HIDE DEF r
    <3> QED
      BY <2>3, <3>1, RequestsBlockSegment DEF r
  <2> QED
    BY <1>3, <2>1, <2>2, <2>3, RequestsBlocks, RequestsEnd
<1>4. CASE k.st \notin {"DOWNLOAD_INITIATE_REQ", "DOWNLOAD_SEGMENT_REQ", "DOWNLOAD_BLK_INITIATE_REQ",
                        "DOWNLOAD_BLK_SUBBLOCK_REQ", "DOWNLOAD_BLK_END_REQ"}
  <2>1. r = CliSendUpload(k)
    BY <1>4 DEF CliSend
  <2>2. CASE k.st \in CliUp
    <3>1. CliStep(k, e)
      <4>1. CliStep(k, r)
        BY CliSendOK
      <4>2. CliStep(r, e)
        BY <4>1, CliSendAbortOK DEF CliStep
      <4> QED
        BY ONLY <4>1, <4>2, CliSteps
    <3>2. Returns(e, k)
      <4>1. Returns(r, k)
        BY <1>1, <2>1, CliSendUploadReturns
      <4> HIDE DEF r
      <4> QED
        BY ONLY <4>1 DEF Returns, SendAbort, Send, CliFields
    <3> QED
      BY <2>2, <3>1, <3>2, CliUploads
  <2>3. CASE k.st \notin CliUp
    <3>1. r = k
      BY ONLY <2>1, <2>3 DEF CliSendUpload, CliUp, UpAsked, UpSegment, UpBlock
    <3>2. CASE k.st = "ABORT"
      BY <1>1, <1>2, <3>1, <3>2, GivesEnds DEF Gone
    <3>3. CASE k.st # "ABORT"
      <4>1. e = k
        BY <3>1, <3>3, GoesOnIs
      <4>2. x \o <<>> = x
        BY EmptyCat
      <4> HIDE DEF e
      <4>3. Down(s, x \o e.out, e, y, j)
        BY ONLY <4>1, <4>2, Down(s, x, k, y, j), k.out = <<>>
      <4> QED
        BY ONLY <4>3 DEF e
    <3> QED
      BY <3>2, <3>3
  <2> QED
    BY <2>2, <2>3
<1> QED
  BY <1>3, <1>4

\* Nothing is sent where a frame is taken.
LEMMA SameOut ==
  ASSUME NEW k, DOMAIN k = CliFields
  PROVE  /\ \A ret : End(k, ret).out = k.out
         /\ Stop(k).out = k.out
         /\ UploadInitiated(k).out = k.out
         /\ BlockUploadInitiated(k).out = k.out
         /\ UploadedSegment(k).out = k.out
         /\ BlockUploaded(k).out = k.out
         /\ SubBlockDownloaded(k).out = k.out
<1>1. ASSUME NEW q, DOMAIN q = CliFields, q.out = k.out
      PROVE  /\ \A ret : End(q, ret).out = k.out
             /\ Stop(q).out = k.out
  BY <1>1 DEF CliFields, End, Stop
<1>2. UploadInitiated(k).out = k.out
  <2> DEFINE a == [k EXCEPT !.fifo = @ \o Front_(k.rx.data, k.rx.ind), !.tran = k.rx.ind]
             b == [k EXCEPT !.ind = IF k.rx.ind > 0 THEN k.rx.ind ELSE @, !.t = 0, !.st = "UPLOAD_SEGMENT_REQ"]
  <2>1. UploadInitiated(k) \in {End(a, "ok"), b}
    BY DEF UploadInitiated
  <2>2. DOMAIN a = CliFields /\ a.out = k.out /\ b.out = k.out
    BY DEF CliFields
  <2> HIDE DEF a, b
  <2> QED
    BY <1>1, <2>1, <2>2
<1>3. BlockUploadInitiated(k).out = k.out
  <2> DEFINE b == [k EXCEPT !.ind = IF k.rx.ind > 0 THEN k.rx.ind ELSE @, !.st = "UPLOAD_BLK_INITIATE_REQ2"]
  <2>1. BlockUploadInitiated(k) \in {UploadInitiated(k), b, Stop(k)}
    BY DEF BlockUploadInitiated
  <2>2. b.out = k.out
    BY DEF CliFields
  <2> HIDE DEF b
  <2> QED
    BY <1>1, <1>2, <2>1, <2>2
<1>4. UploadedSegment(k).out = k.out
  <2> DEFINE n == Low(Len(k.rx.data), Room(k.fifo))
             a == [k EXCEPT !.t = 1 - @, !.fifo = @ \o Front_(k.rx.data, n), !.tran = @ + n]
             b == [a EXCEPT !.st = "UPLOAD_SEGMENT_REQ"]
  <2>1. UploadedSegment(k) \in {Stop(k), Stop(a), b, End(a, "ok")}
    BY DEF UploadedSegment
  <2>2. DOMAIN a = CliFields /\ a.out = k.out
    BY DEF CliFields
  <2> HIDE DEF a
  <2>3. b.out = k.out
    BY <2>2 DEF CliFields
  <2> HIDE DEF b
  <2> QED
    BY <1>1, <2>1, <2>2, <2>3
<1>5. BlockUploaded(k).out = k.out
  <2> DEFINE d == Front_(k.lastSeg, Seg - k.rx.ind)
             n == Low(Len(d), Room(k.fifo))
             a == [k EXCEPT !.fifo = @ \o Front_(d, n), !.crc = @ \o Front_(d, n), !.tran = @ + Len(d)]
             b == [a EXCEPT !.st = "UPLOAD_BLK_END_CRSP"]
  <2>1. BlockUploaded(k) \in {Stop(k), Stop(a), b}
    BY DEF BlockUploaded
  <2>2. DOMAIN a = CliFields /\ a.out = k.out
    BY DEF CliFields
  <2> HIDE DEF a
  <2>3. b.out = k.out
    BY <2>2 DEF CliFields
  <2> HIDE DEF b
  <2> QED
    BY <1>1, <2>1, <2>2, <2>3
<1>6. SubBlockDownloaded(k).out = k.out
  <2> DEFINE lost == (k.seq - k.rx.seq) * Seg - k.nod
             again == k.rx.seq < k.seq
             taken == IF again THEN Low(k.rx.seq * Seg, Len(k.fifo)) ELSE k.alt
             a == [k EXCEPT !.tran = IF again THEN @ - lost ELSE @,
                            !.fin = IF again THEN 0 ELSE @,
                            !.crc = @ \o Front_(k.fifo, taken),
                            !.fifo = Rest(@, taken), !.alt = 0]
             b == [a EXCEPT !.st = "DOWNLOAD_BLK_END_REQ"]
             c == [a EXCEPT !.blk = k.rx.blk, !.seq = 0, !.st = "DOWNLOAD_BLK_SUBBLOCK_REQ"]
  <2>1. SubBlockDownloaded(k) \in {Stop(k), b, c}
    BY DEF SubBlockDownloaded
  <2>2. DOMAIN a = CliFields /\ a.out = k.out
    BY DEF CliFields
  <2> HIDE DEF a
  <2>3. b.out = k.out /\ c.out = k.out
    BY <2>2 DEF CliFields
  <2> HIDE DEF b, c
  <2> QED
    BY <1>1, <2>1, <2>2, <2>3
<1> QED
  BY <1>1, <1>2, <1>3, <1>4, <1>5, <1>6

LEMMA TakenSameOut ==
  ASSUME NEW k, CliOK(k), k.rx \in Frames, k.st # "IDLE"
  PROVE  CliTake(k).out = k.out
<1> DEFINE r == CliTaken(k, k.rx.idx = k.idx)
           q == [r EXCEPT !.rx = None]
<1>1. k \in CliRecord /\ DOMAIN k = CliFields /\ k.st \in States
  BY CliIs, CliFieldsAre DEF CliOK
<1>2. k.st \in CliUp \cup CliDown \cup {"ABORT"}
  BY ONLY <1>1, k.st # "IDLE"
     DEF States, Others, CliDown, CliUp, UpAsked, UpSegment, UpBlock, UpRequest, UpStart,
         DownRequest, DownStart, DownSegment, DownBlock
<1>3. DOMAIN r = CliFields
  <2>1. CliStep(k, r)
    BY CliTakenOK
  <2> QED
    BY ONLY <2>1, CliFieldsAre DEF CliStep, CliOK, CliBase
<1>4. r.out = k.out
  <2>1. CASE k.st \in CliUp
    <3>1. r \in {End(k, "abort"), Stop(k), UploadInitiated(k), UploadedSegment(k),
                 BlockUploadInitiated(k), k, BlockUploaded(k)}
      BY <2>1, CliTakenUploads
    <3> HIDE DEF r
    <3> QED
      BY ONLY <1>1, <3>1, SameOut
  <2>2. CASE k.st \in CliDown \cup {"ABORT"}
    <3>1. TookAnswer(r, k)
      BY <2>2, CliTakenDownloads
    <3> HIDE DEF r
    <3> DEFINE a == [k EXCEPT !.t = 1 - @]
               b == [k EXCEPT !.t = 1 - @, !.st = "DOWNLOAD_SEGMENT_REQ"]
               c == [k EXCEPT !.t = 0, !.st = "DOWNLOAD_SEGMENT_REQ"]
               d == [k EXCEPT !.crc = <<>>, !.blk = k.rx.blk, !.seq = 0, !.alt = 0,
                        !.st = "DOWNLOAD_BLK_SUBBLOCK_REQ"]
    <3>2. r \in {End(k, "abort"), Stop(k), End(k, "ok"), c, End(a, "ok"), b, d, SubBlockDownloaded(k)}
      BY ONLY <3>1 DEF TookAnswer
    <3>3. DOMAIN a = CliFields /\ a.out = k.out /\ b.out = k.out /\ c.out = k.out /\ d.out = k.out
      BY ONLY <1>1 DEF CliFields
    <3> HIDE DEF a, b, c, d
    <3> QED
      BY ONLY <1>1, <3>2, <3>3, SameOut
  <2> QED
    BY ONLY <1>2, <2>1, <2>2
<1> HIDE DEF r
<1>5. q.out = r.out
  BY ONLY <1>3 DEF CliFields
<1> HIDE DEF q
<1>6. CliTake(k) = q
  BY DEF CliTake, q, r
<1> QED
  BY ONLY <1>4, <1>5, <1>6

\* The client's step ends.
LEMMA CliGoesOnDown ==
  ASSUME SdoInv, srv.out = <<>>, NEW e, CliOK(e),
         Down(srv, toSrv \o e.out, e, toCli, job), CliGoesOn(e)
  PROVE  ArriveInv'
<1> DEFINE ret == IF e.out = <<abort>> THEN "abort" ELSE e.ret
           q == [e EXCEPT !.out = <<>>, !.ret = ret]
           u == toSrv \o e.out
<1>1. DOMAIN e = CliFields /\ e.rx \in Frames \cup {None} /\ e.out \in Seq(Frames)
  BY CliIs, CliFieldsAre DEF CliOK
<1>2. cli' = q /\ toSrv' = u /\ srv' = srv /\ toCli' = toCli /\ job' = job
  <2>1. cli' = [e EXCEPT !.out = <<>>, !.ret = IF e.out = <<abort>> THEN "abort" ELSE @]
    BY DEF CliGoesOn
  <2>2. cli' = q
    BY ONLY <1>1, <2>1 DEF CliFields
  <2> QED
    BY <2>2 DEF CliGoesOn
<1>3. ret = "ok" => e.ret = "ok"
  OBVIOUS
<1> HIDE DEF ret
<1>4. SameCli(q, e) /\ q.out = <<>> /\ q.rx = e.rx
  BY ONLY <1>1, <1>3 DEF SameCli, CliFields
<1>5. u \in Seq(Frames)
  BY <1>1, TypesAre, ConcatProperties
<1>6. Down(srv, u, e, toCli, job)
  OBVIOUS
<1> HIDE DEF q, u
<1>7. Fewer(u, srv.rx, u, srv.rx) /\ Fewer(toCli, e.rx, toCli, e.rx)
  BY <1>1, <1>5, TypesAre, FewerFrames
<1>8. Down(srv, u, q, toCli, job)
  BY ONLY <1>4, <1>6, <1>7, SameAre, DownFewer
<1> QED
  BY ONLY <1>2, <1>4, <1>8, srv.out = <<>> DEF ArriveInv

LEMMA CliMoveDown ==
  ASSUME SdoInv, srv.out = <<>>, NEW k, CliOK(k), k.out = <<>>,
         Down(srv, toSrv, k, toCli, job), CliMove(k)
  PROVE  ArriveInv'
<1> DEFINE e == SendAbort(CliSend(k))
<1>1. CliOK(e)
  <2>1. CliOK(CliSend(k))
    BY CliSendOK DEF CliStep
  <2> QED
    BY <2>1, CliSendAbortOK DEF CliStep
<1>2. Down(srv, toSrv \o e.out, e, toCli, job)
  BY CliGivesDown, TypesAre
<1>3. Down(srv, toSrv \o k.out, k, toCli, job)
  BY TypesAre, EmptyCat
<1>4. CliGoesOn(e) \/ CliGoesOn(k)
  BY DEF CliMove
<1> HIDE DEF e
<1> QED
  BY <1>1, <1>2, <1>3, <1>4, CliGoesOnDown

LEMMA ArriveCliProcess ==
  ASSUME SdoInv, ArriveInv, CO_SDOclient_process
  PROVE  ArriveInv'
<1> DEFINE k == IF cli.rx = None THEN cli ELSE CliTake(cli)
<1>1. CliMove(k) /\ cli.st # "IDLE"
  BY DEF CO_SDOclient_process
<1>2. CliOK(k) /\ k.out = <<>> /\ Down(srv, toSrv, k, toCli, job)
  <2>1. CASE cli.rx = None
    BY <2>1, TypesAre DEF ArriveInv
  <2>2. CASE cli.rx # None
    <3>1. cli.rx \in Frames /\ CliOK(cli)
      BY <2>2, TypesAre
    <3>2. CliOK(CliTake(cli))
      BY ONLY <3>1, CliTakeOK DEF CliStep
    <3>3. CliTake(cli).out = cli.out
      BY ONLY <1>1, <3>1, TakenSameOut
    <3>4. Down(srv, toSrv, CliTake(cli), toCli, job)
      BY ONLY <1>1, <2>2, <3>1, CliTakesDown, ArriveInv DEF ArriveInv
    <3> QED
      BY ONLY <2>2, <3>2, <3>3, <3>4, ArriveInv DEF ArriveInv
  <2> QED
    BY ONLY <2>1, <2>2
<1> HIDE DEF k
<1> QED
  BY ONLY <1>1, <1>2, CliMoveDown, SdoInv, ArriveInv DEF ArriveInv

LEMMA ArriveCliTimeout ==
  ASSUME SdoInv, ArriveInv, CliTimeout
  PROVE  ArriveInv'
<1> DEFINE c == Stop(cli)
           e == SendAbort(c)
<1>1. (CliGoesOn(c) \/ CliGoesOn(e)) /\ cli.st # "IDLE"
  BY DEF CliTimeout, CliGivesUp
<1>2. CliOK(c) /\ CliOK(e)
  <2>1. CliOK(c)
    BY TypesAre, CliEnds DEF CliOK
  <2> QED
    BY <2>1, CliSendAbortOK DEF CliStep
<1>3. DOMAIN cli = CliFields
  BY TypesAre, CliFieldsAre
<1>4. Down(srv, toSrv, cli, toCli, job) /\ srv.out = <<>>
  BY DEF ArriveInv
<1>5. cli.ret # "ok"
  BY <1>1, <1>4 DEF Down, CliHas
<1>6. c.st \in Gone /\ c.ret # "ok" /\ e.st \in Gone /\ e.ret # "ok"
  BY ONLY <1>3, <1>5, EndIs DEF Gone
<1> HIDE DEF c, e
<1>7. Down(srv, toSrv \o c.out, c, toCli, job) /\ Down(srv, toSrv \o e.out, e, toCli, job)
  BY ONLY <1>1, <1>4, <1>6, CliGone
<1> QED
  BY ONLY <1>1, <1>2, <1>4, <1>7, CliGoesOnDown, SdoInv

LEMMA ArriveCliBlockTimeout ==
  ASSUME SdoInv, ArriveInv, CliBlockTimeout
  PROVE  ArriveInv'
<1> DEFINE c == [cli EXCEPT !.half = 1, !.st = "UPLOAD_BLK_SUBBLOCK_CRSP"]
<1>1. cli.st = "UPLOAD_BLK_SUBBLOCK_SREQ" /\ CliMove(c)
  BY DEF CliBlockTimeout
<1>2. /\ CliOK(cli) /\ CliBase(cli) /\ cli \in CliRecord /\ cli.more = <<>>
      /\ (cli.fin = 1 => Len(cli.lastSeg) = Seg) /\ DOMAIN cli = CliFields /\ cli.st \in CliUp
  BY <1>1, CliFieldsAre DEF SdoInv, CliOK, CliBase, CliAt, CliUp, UpBlock
<1>3. "UPLOAD_BLK_SUBBLOCK_CRSP" \in UpBlock /\ "UPLOAD_BLK_SUBBLOCK_CRSP" \in States
      /\ "UPLOAD_BLK_SUBBLOCK_CRSP" \notin CliDown /\ 1 \in Bit
  BY CliStatesAre DEF CliUp, UpBlock, Bit
<1>4. c \in CliRecord
  BY ONLY <1>2, <1>3 DEF CliRecord
<1>5. /\ c.st = "UPLOAD_BLK_SUBBLOCK_CRSP" /\ c.fifo = cli.fifo /\ c.nod = cli.nod
      /\ c.more = cli.more /\ c.fin = cli.fin /\ c.lastSeg = cli.lastSeg /\ c.out = cli.out
      /\ c.ret = cli.ret /\ DOMAIN c = CliFields
  BY ONLY <1>2 DEF CliFields
<1> HIDE DEF c
<1>6. CliBase(c)
  BY ONLY <1>2, <1>4, <1>5 DEF CliBase
<1>7. c.fin = 1 => Len(c.lastSeg) = Seg
  BY ONLY <1>2, <1>5
<1>8. CliAt(c)
  BY ONLY <1>2, <1>3, <1>5, <1>7, CliAtIs
<1>9. CliStep(cli, c) /\ Returns(c, cli) /\ CliOK(c)
  BY ONLY <1>3, <1>5, <1>6, <1>8 DEF CliOK, CliStep, Returns
<1>10. Down(srv, toSrv, c, toCli, job)
  BY ONLY <1>2, <1>9, CliUploads, ArriveInv DEF ArriveInv
<1> QED
  BY ONLY <1>1, <1>5, <1>9, <1>10, CliMoveDown, SdoInv, ArriveInv DEF ArriveInv

\* A frame received, or an abort in the place of the one held.
LEMMA AbortHeard ==
  ASSUME NEW ch \in Seq(Frames), ch # <<>>, NEW r \in Frames \cup {None},
         r = None \/ Head(ch).c = "abort"
  PROVE  Fewer(Tail(ch), Head(ch), ch, r)
<1>1. CASE r = None
  BY <1>1, FewerFrames
<1>2. CASE r # None
  <2>1. Head(ch).c \in Noise
    BY <1>2 DEF Noise
  <2>2. Fewer(Tail(ch), r, ch, r) /\ Fewer(Tail(ch), None, ch, r)
    BY FewerFrames
  <2>3. Head(ch) \in Held(ch, r)
    <3>1. Head(ch) = ch[1] /\ 1 \in 1..Len(ch)
      BY HeadTailProperties, LenProperties, EmptySeq
    <3> QED
      BY ONLY <3>1 DEF Held
  <2>4. Held(Tail(ch), Head(ch)) \subseteq Held(ch, r)
    BY ONLY <2>2, <2>3 DEF Fewer, Held
  <2>5. Single(ch, r) => Single(Tail(ch), Head(ch))
    <3>1. Single(Tail(ch), None) => Single(Tail(ch), Head(ch))
      BY ONLY <2>1 DEF Single
    <3> QED
      BY ONLY <2>2, <3>1 DEF Fewer
  <2>6. Mute(ch, r) => Mute(Tail(ch), Head(ch))
    BY ONLY <2>4 DEF Mute
  <2>7. ~Quiet(ch, r) /\ ~Alone(ch, r)
    BY ONLY <1>2, ch # <<>> DEF Quiet, Alone
  <2> QED
    BY ONLY <2>4, <2>5, <2>6, <2>7 DEF Fewer
<1> QED
  BY <1>1, <1>2

LEMMA UploadedBlockSegmentReturns ==
  ASSUME NEW k, DOMAIN k = CliFields, NEW f
  PROVE  LET q == [UploadedBlockSegment(k, f) EXCEPT !.half = 0] IN
         DOMAIN q = CliFields /\ q.ret = k.ret /\ q.out = k.out
<1> DEFINE d == Front_(f.data, Low(Seg, Room(k.fifo)))
           a == [k EXCEPT !.seq = f.seq, !.lastSeg = f.data, !.fin = 1, !.rx = None,
                      !.st = "UPLOAD_BLK_SUBBLOCK_CRSP"]
           b == [k EXCEPT !.seq = f.seq, !.fifo = @ \o d, !.crc = @ \o d, !.tran = @ + Seg,
                      !.st = IF f.seq = k.blk THEN "UPLOAD_BLK_SUBBLOCK_CRSP" ELSE @,
                      !.rx = IF f.seq = k.blk THEN None ELSE @]
           c == [k EXCEPT !.st = "UPLOAD_BLK_SUBBLOCK_CRSP", !.rx = None]
           r == UploadedBlockSegment(k, f)
<1>1. r \in {a, b, c, k}
  BY DEF UploadedBlockSegment
<1>2. /\ DOMAIN a = CliFields /\ a.ret = k.ret /\ a.out = k.out
      /\ DOMAIN b = CliFields /\ b.ret = k.ret /\ b.out = k.out
      /\ DOMAIN c = CliFields /\ c.ret = k.ret /\ c.out = k.out
  BY DEF CliFields
<1> HIDE DEF a, b, c, r
<1>3. DOMAIN r = CliFields /\ r.ret = k.ret /\ r.out = k.out
  BY <1>1, <1>2
<1>4. LET q == [r EXCEPT !.half = 0] IN DOMAIN q = CliFields /\ q.ret = k.ret /\ q.out = k.out
  BY ONLY <1>3 DEF CliFields
<1> QED
  BY ONLY <1>4 DEF r

LEMMA ArriveCliReceive ==
  ASSUME SdoInv, ArriveInv, CO_SDOclient_receive
  PROVE  ArriveInv'
<1> DEFINE f == Head(toCli)
           got == UploadedBlockSegment(cli, f)
           stored == [got EXCEPT !.half = 0]
           heard == [cli EXCEPT !.rx = f]
           v == Tail(toCli)
<1>1. /\ toCli # <<>> /\ toCli' = v /\ srv' = srv /\ toSrv' = toSrv /\ job' = job
      /\ \/ cli' = cli
         \/ (cli.rx = None \/ f.c = "abort") /\ cli' = heard
         \/ cli.st = "UPLOAD_BLK_SUBBLOCK_SREQ" /\ cli' = stored
  BY DEF CO_SDOclient_receive
<1>2. f \in Frames /\ toCli \in Seq(Frames) /\ CliOK(cli) /\ DOMAIN cli = CliFields
  BY <1>1, HeadTailProperties, TypesAre, CliFieldsAre
<1>3. Down(srv, toSrv, cli, toCli, job) /\ srv.out = <<>> /\ cli.out = <<>>
  BY DEF ArriveInv
<1>4. /\ Fewer(v, cli.rx, toCli, cli.rx)
      /\ cli.rx = None \/ f.c = "abort" => Fewer(v, f, toCli, cli.rx)
      /\ Fewer(toSrv, srv.rx, toSrv, srv.rx)
  BY <1>1, TypesAre, FewerFrames, AbortHeard
<1>5. cli.st = "UPLOAD_BLK_SUBBLOCK_SREQ" => Down(srv, toSrv, stored, v, job) /\ stored.out = <<>>
  <2> SUFFICES ASSUME cli.st = "UPLOAD_BLK_SUBBLOCK_SREQ"
               PROVE  Down(srv, toSrv, stored, v, job) /\ stored.out = <<>>
    OBVIOUS
  <2> HIDE DEF f, v
  <2>1. CliStep(cli, got)
    BY ONLY <1>2, cli.st = "UPLOAD_BLK_SUBBLOCK_SREQ", UploadedBlockSegmentOK
  <2>2. DOMAIN stored = CliFields /\ stored.ret = cli.ret /\ stored.out = cli.out
    BY ONLY <1>2, UploadedBlockSegmentReturns
  <2> HIDE DEF got
  <2>3. CliStep(got, stored)
    <3>1. CliOK(got)
      BY ONLY <2>1 DEF CliStep
    <3> QED
      BY ONLY <3>1, AbortFrame, None \in Frames \cup {None}, CliSetIs, "ok" \in {"none", "ok", "abort", "closed"}
  <2> HIDE DEF stored
  <2>4. CliStep(cli, stored) /\ Returns(stored, cli) /\ cli.st \in CliUp
    <3>1. CliStep(cli, stored)
      BY ONLY <2>1, <2>3, CliSteps
    <3> QED
      BY ONLY <2>2, <3>1, cli.st = "UPLOAD_BLK_SUBBLOCK_SREQ" DEF Returns, CliUp, UpBlock
  <2> QED
    BY ONLY <1>2, <1>3, <2>2, <2>4, CliUploads
<1> HIDE DEF f, v
<1>6. Down(srv, toSrv, cli, v, job)
  BY ONLY <1>3, <1>4, SameAre, DownFewer
<1>7. cli.rx = None \/ f.c = "abort" => Down(srv, toSrv, heard, v, job) /\ heard.out = <<>>
  <2>1. SameCli(heard, cli) /\ heard.rx = f /\ heard.out = <<>>
    BY ONLY <1>2, <1>3 DEF CliFields, SameCli
  <2> HIDE DEF heard
  <2> QED
    BY ONLY <1>3, <1>4, <2>1, SameAre, DownFewer
<1> HIDE DEF heard, stored
<1> QED
  BY ONLY <1>1, <1>3, <1>5, <1>6, <1>7 DEF ArriveInv

\* The application puts into the fifo what there is room for, and loses nothing.
Filled(r, k) ==
  /\ r.fifo \o r.more = k.fifo \o k.more
  /\ r.more = <<>> \/ Len(r.fifo) = Fifo
  /\ r.st = k.st /\ r.idx = k.idx /\ r.ind = k.ind /\ r.tran = k.tran /\ r.fin = k.fin
  /\ r.t = k.t /\ r.crc = k.crc /\ r.alt = k.alt /\ r.ret = k.ret /\ r.rx = k.rx /\ r.out = k.out

LEMMA FillDoes ==
  ASSUME NEW k, CliBase(k)
  PROVE  Filled(Fill(k), k)
<1> DEFINE n == Low(Len(k.more), Room(k.fifo))
           a == Front_(k.more, n)
           more == Rest(k.more, n)
           fifo == k.fifo \o a
           e == [k EXCEPT !.fifo = @ \o Front_(k.more, Low(Len(k.more), Room(@))),
                          !.more = Rest(@, Low(Len(@), Room(k.fifo)))]
           r == Fill(k)
<1>1. /\ k \in CliRecord /\ k.more \in Data /\ k.fifo \in Data /\ Len(k.fifo) \in Nat
      /\ Len(k.fifo) <= Fifo /\ Fifo - Len(k.fifo) \in Nat /\ DOMAIN k = CliFields
  BY CliIs, CliFieldsAre
<1>2. Len(k.more) \in Nat /\ Room(k.fifo) = Fifo - Len(k.fifo) /\ Fifo \in Nat
  BY <1>1, LenIs, SdoAssumption DEF Room
<1>3. n \in Nat /\ n <= Len(k.more) /\ (n = Len(k.more) \/ n = Fifo - Len(k.fifo))
  <2>1. n \in Nat /\ n <= Len(k.more)
    BY ONLY <1>1, <1>2, LowIs
  <2>2. n = Len(k.more) \/ n = Room(k.fifo)
    BY ONLY Zenon DEF Low
  <2> QED
    BY ONLY <1>2, <2>1, <2>2
<1>4. r = [k EXCEPT !.fifo = fifo, !.more = more]
  <2>1. r = e
    BY DEF Fill
  <2>2. e = [k EXCEPT !.fifo = fifo, !.more = more]
    BY ONLY <1>1 DEF CliRecord
  <2> QED
    BY ONLY <2>1, <2>2
<1> HIDE DEF n, r
<1>5. a \in Data /\ Len(a) = n /\ more \in Data /\ a \o more = k.more
  BY ONLY <1>1, <1>3, FrontIs, RestIs, FrontAndRest
<1>6. more = <<>> \/ n = Fifo - Len(k.fifo)
  <2>1. n = Len(k.more) => more = <<>>
    BY ONLY <1>1, WholeIs
  <2> QED
    BY ONLY <1>3, <2>1
<1> HIDE DEF a, more
<1>7. Len(fifo) = Len(k.fifo) + n
  BY ONLY <1>1, <1>5, CatIs
<1>8. fifo \o more = k.fifo \o k.more
  <2>1. fifo \o more = k.fifo \o (a \o more)
    BY ONLY <1>1, <1>5, CatAssoc
  <2> QED
    BY ONLY <1>5, <2>1
<1> HIDE DEF fifo
<1>9. /\ r.fifo = fifo /\ r.more = more
      /\ r.st = k.st /\ r.idx = k.idx /\ r.ind = k.ind /\ r.tran = k.tran /\ r.fin = k.fin
      /\ r.t = k.t /\ r.crc = k.crc /\ r.alt = k.alt /\ r.ret = k.ret /\ r.rx = k.rx
      /\ r.out = k.out
  BY ONLY <1>1, <1>4 DEF CliFields
<1>10. r.more = <<>> \/ Len(r.fifo) = Fifo
  BY ONLY <1>1, <1>2, <1>3, <1>6, <1>7, <1>9
<1>11. Filled(r, k)
  BY ONLY <1>8, <1>9, <1>10 DEF Filled
<1> QED
  BY ONLY <1>11 DEF r

LEMMA FilledDown ==
  ASSUME NEW s, NEW x, NEW k, NEW y, NEW j, Down(s, x, k, y, j), k.more # <<>>,
         NEW q, Filled(q, k)
  PROVE  Down(s, x, q, y, j)
<1> USE DEF Filled
<1>1. SrvDown(s) /\ CliHas(k, j)
  BY DEF Down
<1>2. CliHas(q, j)
  <2>1. Left(k, j) => Left(q, j)
    BY DEF Left
  <2>2. Taken(k, j) => Taken(q, j)
    <3>1. Taken(k, j) => k.fin # 1
      BY DEF Taken
    <3> QED
      BY <3>1 DEF Taken
  <2> QED
    BY ONLY <1>1, <2>1, <2>2, Filled(q, k) DEF CliHas
<1>3. k.st \in CliAsks => Waiting(s, x, q, y, j)
  <2>1. \A f : Asked(f, s, k, j) => Asked(f, s, q, j)
    BY ONLY Filled(q, k) DEF Asked
  <2>2. Answering(s, k, j) => Answering(s, q, j)
    BY ONLY Filled(q, k) DEF Answering
  <2>3. Answers(s, k, j) => Answers(s, q, j)
    BY ONLY Filled(q, k) DEF Answers
  <2>4. k.st \in CliAsks => Waiting(s, x, k, y, j)
    BY DEF Down
  <2> QED
    BY ONLY <2>1, <2>2, <2>3, <2>4, Filled(q, k) DEF Waiting, Turn
<1>4. k.st \in CliReady => Ready(s, x, q, y, j)
  BY DEF Down, Ready
<1>5. k.st \in CliBlock => Blocks(s, x, q, y, j)
  BY DEF Down, Blocks
<1>6. k.ret = "ok" /\ j.op = "download" => Arrived(s, x, q, y, j)
  BY DEF Down, Arrived
<1> QED
  BY ONLY <1>1, <1>2, <1>3, <1>4, <1>5, <1>6, Filled(q, k) DEF Down

LEMMA ArriveRefill ==
  ASSUME SdoInv, ArriveInv, Refill
  PROVE  ArriveInv'
<1>1. /\ cli.more # <<>> /\ cli' = Fill(cli)
      /\ srv' = srv /\ toSrv' = toSrv /\ toCli' = toCli /\ job' = job
  BY DEF Refill, Partial
<1>2. Filled(Fill(cli), cli)
  BY TypesAre, FillDoes DEF CliOK
<1>3. Filled(cli', cli)
  BY ONLY <1>1, <1>2
<1>4. Down(srv, toSrv, cli', toCli, job)
  BY ONLY <1>1, <1>3, FilledDown, ArriveInv DEF ArriveInv
<1> QED
  BY ONLY <1>1, <1>3, <1>4, ArriveInv DEF ArriveInv, Filled

\* Emptying the fifo of an upload is nothing to a download.
LEMMA ArriveTakeOut ==
  ASSUME SdoInv, ArriveInv, TakeOut
  PROVE  ArriveInv'
<1> DEFINE r == [cli EXCEPT !.got = @ \o cli.fifo, !.fifo = <<>>]
<1>1. /\ job.op = "upload" /\ cli' = r
      /\ srv' = srv /\ toSrv' = toSrv /\ toCli' = toCli /\ job' = job
  BY DEF TakeOut
<1>2. r.st = cli.st /\ r.ret = cli.ret /\ r.out = cli.out
  BY TypesAre, CliFieldsAre DEF CliFields
<1> HIDE DEF r
<1>3. SrvDown(srv) /\ CliHas(cli, job)
  BY DEF ArriveInv, Down
<1>4. cli.st \notin CliDown
  BY ONLY <1>1, <1>3 DEF CliHas
<1>5. CliHas(r, job)
  BY ONLY <1>2, <1>3, <1>4
     DEF CliHas, CliDown, DownRequest, DownStart, DownSegment, DownBlock, DownSending
<1>6. r.st \notin CliAsks \cup CliReady \cup CliBlock
  BY ONLY <1>2, <1>4, CliPhases
<1>7. Down(srv, toSrv, r, toCli, job)
  BY ONLY <1>1, <1>3, <1>5, <1>6 DEF Down
<1> QED
  BY ONLY <1>1, <1>2, <1>7, ArriveInv DEF ArriveInv

LEMMA ArriveClose ==
  ASSUME SdoInv, ArriveInv, CO_SDOclientClose
  PROVE  ArriveInv'
<1> DEFINE r == End(cli, "closed")
<1>1. /\ cli.st # "IDLE" /\ cli' = r
      /\ srv' = srv /\ toSrv' = toSrv /\ toCli' = toCli /\ job' = job
  BY DEF CO_SDOclientClose
<1>2. DOMAIN cli = CliFields
  BY TypesAre, CliFieldsAre
<1>3. r.st \in Gone /\ r.ret # "ok" /\ r.out = cli.out
  BY ONLY <1>2, EndIs, SameOut DEF Gone
<1> HIDE DEF r
<1>4. Down(srv, toSrv, r, toCli, job)
  BY ONLY <1>1, <1>3, CliGone, ArriveInv DEF ArriveInv
<1> QED
  BY ONLY <1>1, <1>3, <1>4, ArriveInv DEF ArriveInv

LEMMA ArriveLose ==
  ASSUME SdoInv, ArriveInv, Lose
  PROVE  ArriveInv'
<1>1. /\ cli' = cli /\ srv' = srv /\ job' = job
      /\ \/ toSrv # <<>> /\ toSrv' = Tail(toSrv) /\ toCli' = toCli
         \/ toCli # <<>> /\ toCli' = Tail(toCli) /\ toSrv' = toSrv
  BY DEF Lose
<1>2. Fewer(toSrv', srv.rx, toSrv, srv.rx) /\ Fewer(toCli', cli.rx, toCli, cli.rx)
  BY <1>1, TypesAre, FewerFrames
<1>3. Down(srv, toSrv', cli, toCli', job)
  BY ONLY <1>2, SameAre, DownFewer, ArriveInv DEF ArriveInv
<1> QED
  BY ONLY <1>1, <1>3, ArriveInv DEF ArriveInv

\* A transfer that is started when nothing is left of the last one.
LEMMA InitiatedDown ==
  ASSUME NEW s, SrvDown(s), s.st \in SrvWaits, NEW x, NEW y, Quiet(x, s.rx), Mute(y, None),
         NEW j \in Jobs, NEW q, q.rx = None, q.ret = "none",
         \/ j.op = "upload" /\ q.st \in UpRequest
         \/ /\ j.op = "download" /\ q.st \in DownRequest
            /\ q.idx = j.obj /\ q.ind = j.ind /\ q.tran = 0 /\ q.fin = 0
            /\ q.fifo \o q.more = j.data /\ (q.more = <<>> \/ Len(q.fifo) = Fifo)
  PROVE  Down(s, x, q, y, j)
<1>1. CASE j.op = "upload" /\ q.st \in UpRequest
  <2>1. CliHas(q, j)
    BY <1>1 DEF CliHas, UpRequest, CliDown, DownRequest, DownStart, DownSegment, DownBlock, DownSending
  <2>2. q.st \notin CliAsks \cup CliReady \cup CliBlock
    BY ONLY <1>1 DEF UpRequest, CliAsks, CliReady, CliBlock, DownRequest, DownSending
  <2> QED
    BY ONLY <2>1, <2>2, SrvDown(s), q.ret = "none" DEF Down
<1>2. CASE /\ j.op = "download" /\ q.st \in DownRequest
           /\ q.idx = j.obj /\ q.ind = j.ind /\ q.tran = 0 /\ q.fin = 0
           /\ q.fifo \o q.more = j.data /\ (q.more = <<>> \/ Len(q.fifo) = Fifo)
  <2>1. Left(q, j)
    <3>1. Rest(j.data, 0) = j.data /\ Len(j.data) \in Nat
      BY JobIs, WholeIs, LenIs
    <3> QED
      BY ONLY <1>2, <3>1 DEF Left
  <2>2. CliHas(q, j)
    BY ONLY <1>2, <2>1, j \in Jobs, q.ret = "none"
       DEF CliHas, CliUp, UpAsked, UpSegment, UpBlock, CliDown, DownRequest, DownStart, DownSegment,
           DownBlock, DownSending
  <2>3. s.st \in Old
    BY DEF Old
  <2>4. q.st \in DownRequest
    BY ONLY <1>2
  <2>5. q.st # "DOWNLOAD_SEGMENT_REQ" /\ q.st \in CliReady /\ q.st \notin CliAsks \cup CliBlock
    BY ONLY <2>4 DEF CliAsks, CliReady, CliBlock, DownRequest, DownSending
  <2>6. Ready(s, x, q, y, j)
    BY ONLY <2>3, <2>5, Quiet(x, s.rx), Mute(y, None), q.rx = None DEF Ready
  <2> QED
    BY ONLY <2>2, <2>5, <2>6, SrvDown(s), q.ret = "none" DEF Down
<1> QED
  BY <1>1, <1>2

LEMMA ArriveInitiate ==
  ASSUME SdoInv, ArriveInv, Silence, NEW j \in Jobs, Initiate(j)
  PROVE  ArriveInv'
<1> DEFINE k == [cli EXCEPT !.idx = j.obj, !.ind = j.ind, !.tran = 0, !.fin = 0, !.fifo = <<>>,
                            !.got = <<>>, !.more = j.data, !.rx = None, !.ret = "none"]
           ust == IF j.blk = 1 THEN "UPLOAD_BLK_INITIATE_REQ" ELSE "UPLOAD_INITIATE_REQ"
           dst == IF j.blk = 1 /\ (j.ind = 0 \/ j.ind > Pst)
                  THEN "DOWNLOAD_BLK_INITIATE_REQ" ELSE "DOWNLOAD_INITIATE_REQ"
           up == [k EXCEPT !.st = ust]
           down == [k EXCEPT !.st = dst]
<1>1. /\ job' = j /\ srv' = srv /\ toSrv' = toSrv /\ toCli' = toCli
      /\ cli' = IF j.op = "upload" THEN up ELSE Fill(down)
  BY DEF Initiate
<1>2. /\ j.op \in {"upload", "download"} /\ j.obj \in Obj /\ j.ind \in Nat /\ j.data \in Data
      /\ Fifo \in Nat
  BY JobIs, SdoAssumption
<1>3. cli \in CliRecord /\ DOMAIN cli = CliFields /\ cli.nod <= Seg
  BY CliFieldsAre DEF SdoInv, CliOK, CliBase
<1>4. /\ <<>> \in Data /\ Len(<<>>) = 0 /\ 0 \in Int /\ 0 \in Bit /\ j.obj \in Obj \cup {None}
      /\ "none" \in {"none", "ok", "abort", "closed"} /\ None \in Frames \cup {None}
  BY <1>2 DEF Data, Bit
<1>5. k \in CliRecord
  BY ONLY <1>2, <1>3, <1>4 DEF CliRecord
<1>6. /\ k.fifo = <<>> /\ k.nod = cli.nod /\ k.more = j.data /\ k.fin = 0 /\ k.idx = j.obj
      /\ k.ind = j.ind /\ k.tran = 0 /\ k.rx = None /\ k.ret = "none" /\ k.out = cli.out
      /\ DOMAIN k = CliFields
  BY ONLY <1>3 DEF CliFields
<1> HIDE DEF k
<1>7. ust \in UpRequest /\ dst \in DownRequest /\ dst \in States
  <2>1. ust \in UpRequest /\ dst \in DownRequest
    BY DEF UpRequest, DownRequest
  <2> HIDE DEF ust, dst
  <2> QED
    BY ONLY <2>1, CliStatesAre DEF CliDown
<1> HIDE DEF ust, dst
<1>8. down \in CliRecord
  BY ONLY <1>5, <1>7 DEF CliRecord
<1>9. /\ up.st = ust /\ up.rx = None /\ up.ret = "none" /\ up.out = cli.out
      /\ down.st = dst /\ down.fifo = <<>> /\ down.nod = cli.nod /\ down.more = j.data
      /\ down.fin = 0 /\ down.idx = j.obj /\ down.ind = j.ind /\ down.tran = 0 /\ down.rx = None
      /\ down.ret = "none" /\ down.out = cli.out
  BY ONLY <1>6 DEF CliFields
<1> HIDE DEF up, down
<1>10. CliBase(down)
  BY ONLY <1>2, <1>3, <1>4, <1>8, <1>9 DEF CliBase
<1>11. SrvDown(srv) /\ srv.out = <<>> /\ cli.out = <<>>
  BY DEF ArriveInv, Down
<1>12. Quiet(toSrv, srv.rx) /\ Mute(toCli, None) /\ srv.st \in SrvWaits
  <2>1. Quiet(toSrv, srv.rx) /\ Quiet(toCli, None) /\ srv.st \in SrvWaits
    BY DEF Silence, Quiet
  <2> QED
    BY ONLY <2>1, NoFrames
<1>13. CASE j.op = "upload"
  <2>1. cli' = up
    BY ONLY <1>1, <1>13
  <2>2. Down(srv, toSrv, up, toCli, j)
    BY ONLY <1>7, <1>9, <1>11, <1>12, <1>13, InitiatedDown, j \in Jobs
  <2> QED
    BY ONLY <1>1, <1>9, <1>11, <2>1, <2>2 DEF ArriveInv
<1>14. CASE j.op = "download"
  <2> DEFINE r == Fill(down)
  <2>1. cli' = r
    BY ONLY <1>1, <1>14
  <2>2. Filled(r, down)
    BY ONLY <1>10, FillDoes
  <2> HIDE DEF r
  <2>3. <<>> \o j.data = j.data
    BY ONLY <1>2, CatNone
  <2>4. /\ r.st \in DownRequest /\ r.idx = j.obj /\ r.ind = j.ind /\ r.tran = 0 /\ r.fin = 0
        /\ r.fifo \o r.more = j.data /\ (r.more = <<>> \/ Len(r.fifo) = Fifo)
        /\ r.rx = None /\ r.ret = "none" /\ r.out = <<>>
    BY ONLY <1>7, <1>9, <1>11, <2>2, <2>3 DEF Filled
  <2>5. Down(srv, toSrv, r, toCli, j)
    BY ONLY <1>11, <1>12, <1>14, <2>4, InitiatedDown, j \in Jobs
  <2> QED
    BY ONLY <1>1, <1>11, <2>1, <2>4, <2>5 DEF ArriveInv
<1> QED
  BY ONLY <1>2, <1>13, <1>14

LEMMA ArriveInit ==
  ASSUME Init
  PROVE  ArriveInv
<1>1. /\ cli.st = "IDLE" /\ cli.ret = "none" /\ cli.out = <<>>
      /\ srv.st = "IDLE" /\ srv.out = <<>> /\ srv.od = First
  BY DEF Init
<1>2. SrvDown(srv)
  BY ONLY <1>1 DEF SrvDown, Sizes, DownBlock
<1>3. CliHas(cli, job)
  BY ONLY <1>1 DEF CliHas, CliUp, UpAsked, UpSegment, UpBlock, CliDown, DownRequest, DownStart,
     DownSegment, DownBlock, DownSending
<1>4. cli.st \notin CliAsks \cup CliReady \cup CliBlock
  BY ONLY <1>1, CliPhases
<1> QED
  BY ONLY <1>1, <1>2, <1>3, <1>4 DEF ArriveInv, Down

LEMMA ArriveStep ==
  ASSUME SdoInv, ArriveInv, JobOK(job), [OrderlyNext]_vars
  PROVE  ArriveInv'
<1>1. CASE Silence /\ \E j \in Jobs : Initiate(j)
  BY <1>1, ArriveInitiate
<1>2. CASE Node
  BY <1>2, ArriveSrvProcess, ArriveSrvReceive, ArriveCliProcess, ArriveCliReceive, ArriveRefill,
     ArriveTakeOut DEF Node
<1>3. CASE Clock
  BY <1>3, ArriveCliTimeout, ArriveSrvTimeout, ArriveCliBlockTimeout, ArriveSrvBlockTimeout DEF Clock
<1>4. CASE CO_SDOclientClose
  BY <1>4, ArriveClose
<1>5. CASE Lose
  BY <1>5, ArriveLose
<1>6. CASE UNCHANGED vars
  BY <1>6 DEF vars, ArriveInv
<1> QED
  BY <1>1, <1>2, <1>3, <1>4, <1>5, <1>6 DEF OrderlyNext

(***************************************************************************)
(* A download that CO_SDOclientDownload reports as done is what the object *)
(* holds, whatever the constants and whatever was lost on the way, timed   *)
(* out, was aborted or closed before, by segments or by blocks, of which   *)
(* any may have been sent again.  The transfers fit the protocol, start    *)
(* when nothing is left of the last one, and no frame is doubled.          *)
(***************************************************************************)
THEOREM DownloadsAreWhole ==
  ASSUME \A j \in Jobs : j.op = "download" => Fitting(j)
  PROVE  OrderlySpec => []DownloadsArrive
<1>1. Init => SdoInv /\ ArriveInv
  BY SdoInvInit, ArriveInit
<1>2. SdoInv /\ ArriveInv /\ [OrderlyNext]_vars => SdoInv' /\ ArriveInv'
  <2> SUFFICES ASSUME SdoInv, ArriveInv, [OrderlyNext]_vars
               PROVE  SdoInv' /\ ArriveInv'
    OBVIOUS
  <2>1. [Next]_vars
    BY DEF OrderlyNext, Next
  <2>2. JobOK(job)
    BY DEF JobOK
  <2> QED
    BY <2>1, <2>2, SdoInvStep, ArriveStep
<1>3. ArriveInv => DownloadsArrive
  BY DEF ArriveInv, Down, Arrived, Written, DownloadsArrive
<1> QED
  BY <1>1, <1>2, <1>3, PTL DEF OrderlySpec

-----------------------------------------------------------------------------

(***************************************************************************)
(* Uploads.  What the server has of an object's value: it has read the     *)
(* first Reach of it, sent the first tran, and what is between them is in  *)
(* its buffer.                                                             *)
(***************************************************************************)
Val(s) == Text(s.idx, s.od[s.idx])

Reach(s) == IF s.fin = 1 THEN Len(Val(s)) ELSE s.pos

\* More is to be read: of no text, for one is read at once.
Whole(s) == s.idx \notin Str /\ s.len = Len(s.od[s.idx])

Reads(s) == s.idx \in Obj /\ (s.fin = 0 => Whole(s))

Buffered(s) == s.tran <= Reach(s) /\ Rest(s.buf, s.rd) = Part(Val(s), s.tran, Reach(s))

AtStart(s) ==
  /\ s.tran = 0 /\ s.rd = 0
  /\ s.ind > 0 /\ s.ind <= Exped => s.fin = 1 /\ s.ind = Len(s.buf)

\* Ready for a first read, or for another one.
Begun(s) ==
  /\ Readable(s) /\ s.idx \in Obj
  /\ s.fin = 0 => /\ s.len = Len(s.od[s.idx])
                  /\ s.idx \in Str => s.pos = 0 /\ s.len <= Buf /\ Rest(s.buf, s.rd) = <<>>

LEMMA ValIs ==
  ASSUME NEW s \in SrvRecord, s.idx \in Obj
  PROVE  /\ s.od[s.idx] \in Data /\ Len(s.od[s.idx]) \in Nat
         /\ Val(s) \in Data /\ Len(Val(s)) \in Nat
         /\ s.idx \notin Str => Val(s) = s.od[s.idx]
         /\ s.idx \in Str => Val(s) = Front_(s.od[s.idx], TextLen(s.od[s.idx]))
<1> DEFINE d == s.od[s.idx]
<1>1. d \in Data
  BY DEF SrvRecord
<1> HIDE DEF d
<1>2. Front_(d, TextLen(d)) \in Data
  BY ONLY <1>1, TextLenIs, FrontIs
<1>3. Text(s.idx, d) \in Data
  BY <1>1, <1>2 DEF Text
<1> QED
  BY <1>1, <1>3, LenIs DEF Val, Text, d

\* The same object with the same value.
LEMMA SameVal ==
  ASSUME NEW r, NEW s, r.od = s.od, r.idx = s.idx
  PROVE  Val(r) = Val(s)
BY DEF Val

LEMMA ReachIs ==
  ASSUME NEW s, Readable(s), s.idx \in Obj, s.fin = 0 => s.len = Len(s.od[s.idx])
  PROVE  /\ Reach(s) \in Nat /\ s.tran \in Nat /\ s.pos \in Nat /\ s.fin \in Bit
         /\ s.fin = 0 => Reach(s) = s.pos /\ s.pos <= Len(s.od[s.idx])
         /\ s.fin = 0 /\ s.idx \notin Str => s.pos <= Len(Val(s))
         /\ Whole(s) \/ s.fin = 1 => Reach(s) <= Len(Val(s))
<1>1. /\ s \in SrvRecord /\ s.pos \in Nat /\ s.tran \in Nat /\ s.fin \in Bit
      /\ s.fin = 0 => s.pos <= s.len
  BY DEF Readable, SrvRecord, AtPlace
<1>2. /\ Val(s) \in Data /\ Len(Val(s)) \in Nat /\ Len(s.od[s.idx]) \in Nat
      /\ s.idx \notin Str => Val(s) = s.od[s.idx]
  BY <1>1, ValIs
<1> QED
  BY <1>1, <1>2 DEF Reach, Bit, Whole

\* What a read adds is the next part of the value.
Continued(r, s, sum) ==
  \/ r.st = "ABORT"
  \/ r = s /\ s.fin = 1
  \/ r = s /\ s.fin = 0 /\ Rest(s.buf, s.rd) # <<>>
  \/ \E n \in Data :
       /\ s.fin = 0 /\ r.rd = 0 /\ r.buf = Rest(s.buf, s.rd) \o n
       /\ s.pos <= Reach(r) /\ Reach(r) <= Len(Val(s)) /\ Reach(r) \in Nat
       /\ n = Part(Val(s), s.pos, Reach(r))
       /\ r.crc = IF sum THEN s.crc \o n ELSE s.crc
       /\ r.fin = 0 => Whole(r)

LEMMA ReadContinues ==
  ASSUME NEW s, Begun(s), NEW min \in Nat, min > 0, NEW sum \in BOOLEAN
  PROVE  Continued(readFromOd(s, min, sum), s, sum)
<1> DEFINE rest == Rest(s.buf, s.rd)
           obj == s.od[s.idx]
           room == Buf - Len(rest)
           left == s.len - s.pos
           n == Low(left, room)
           read == SubSeq(obj, s.pos + 1, s.pos + n)
           cut == s.idx \in Str /\ TextLen(read) < Len(read)
           new == IF cut THEN Front_(read, TextLen(read)) ELSE read
           part == (left > room /\ ~cut) \/ rest \o new = <<>>
           all == rest \o new
           fin == IF part THEN 0 ELSE 1
           pos == IF left > room THEN s.pos + room ELSE 0
           len == IF cut THEN s.tran + Len(new) ELSE s.len
           crc == IF sum THEN s.crc \o new ELSE s.crc
           full == [s EXCEPT !.buf = all, !.rd = 0, !.fin = fin, !.pos = pos, !.len = len, !.crc = crc]
           r == readFromOd(s, min, sum)
<1>1. /\ s \in SrvRecord /\ s.buf \in Data /\ s.rd \in Nat /\ s.pos \in Nat /\ s.len \in Nat
      /\ s.tran \in Nat /\ s.fin \in Bit /\ s.crc \in Data /\ s.rd <= Len(s.buf)
      /\ Len(s.buf) <= Buf /\ Len(s.buf) \in Nat /\ Buf \in Nat /\ s.idx \in Obj
  BY LenIs, SdoAssumption DEF Begun, Readable, SrvRecord
<1>2. /\ obj \in Data /\ Len(obj) \in Nat /\ Val(s) \in Data /\ Len(Val(s)) \in Nat
      /\ s.idx \notin Str => Val(s) = obj
      /\ s.idx \in Str => Val(s) = Front_(obj, TextLen(obj))
  BY ONLY <1>1, ValIs
<1>3. rest \in Data /\ Len(rest) = Len(s.buf) - s.rd /\ room \in Nat /\ Len(rest) \in Nat
      /\ (Len(rest) > 0 => rest # <<>>)
  <2>1. rest \in Data /\ Len(rest) = Len(s.buf) - s.rd
    BY ONLY <1>1, RestIs
  <2>2. Len(rest) > 0 => rest # <<>>
    BY ONLY CatNone, <2>1
  <2> HIDE DEF rest
  <2> QED
    BY ONLY <1>1, <2>1, <2>2
<1>4. r = IF s.fin = 1 \/ Len(rest) >= min THEN s
          ELSE IF part /\ Len(all) < min THEN Stop(s) ELSE full
  <2>1. full = [s EXCEPT !.buf = all, !.rd = 0, !.fin = fin,
                         !.pos = IF left > room THEN @ + room ELSE 0,
                         !.len = IF cut THEN s.tran + Len(new) ELSE @,
                         !.crc = IF sum THEN @ \o new ELSE @]
    BY ONLY <1>1 DEF SrvRecord
  <2> HIDE DEF full
  <2> QED
    BY ONLY <2>1, ZenonT(40) DEF readFromOd
<1>5. CASE s.fin = 1 \/ Len(rest) >= min
  <2> HIDE DEF rest, part, all, full
  <2>1. r = s
    BY ONLY <1>4, <1>5
  <2> HIDE DEF r
  <2>2. s.fin = 1 \/ (s.fin = 0 /\ rest # <<>>)
    BY ONLY <1>1, <1>3, <1>5, min \in Nat, min > 0 DEF Bit
  <2> QED
    BY ONLY <2>1, <2>2 DEF Continued, r, rest
<1>6. CASE s.fin = 0 /\ Len(rest) < min
  <2>1. /\ s.len = Len(obj) /\ s.pos <= s.len /\ left \in Nat
        /\ s.idx \in Str => s.pos = 0 /\ s.len <= Buf /\ rest = <<>>
    BY <1>1, <1>6 DEF Begun, Readable, AtPlace
  <2>2. n \in Nat /\ n <= left /\ n <= room /\ (n = left \/ n = room)
        /\ (left > room => n = room) /\ (~(left > room) => n = left)
    <3> HIDE DEF left, room
    <3> QED
      BY ONLY <1>3, <2>1, LowIs DEF Low
  <2> DEFINE m == s.pos + n
  <2>3. m \in Nat /\ s.pos <= m /\ m <= Len(obj) /\ (n = left => m = Len(obj))
    <3>1. left = s.len - s.pos
      OBVIOUS
    <3> HIDE DEF n, left, room, rest, obj
    <3>2. s.pos \in Nat /\ s.len \in Nat /\ s.len = Len(obj) /\ n \in Nat /\ n <= left
      BY ONLY <1>1, <2>1, <2>2
    <3> DEFINE q == s.pos
               z == Len(obj)
    <3>3. q \in Nat /\ z \in Nat /\ n \in Nat /\ left = z - q /\ n <= left
      BY ONLY <3>1, <3>2
    <3> HIDE DEF q, z
    <3>4. q + n \in Nat /\ q <= q + n /\ q + n <= z /\ (n = left => q + n = z)
      BY ONLY <3>3
    <3> QED
      BY ONLY <3>4 DEF q, z
  <2>4. read = Part(obj, s.pos, m)
    BY DEF Part
  <2>5. read \in Data /\ Len(read) = m - s.pos
    <3> HIDE DEF m, read, obj
    <3>1. Part(obj, s.pos, m) \in Data /\ Len(Part(obj, s.pos, m)) = m - s.pos
      <4>1. obj \in Data /\ s.pos \in Nat /\ m \in Nat /\ s.pos <= m /\ m <= Len(obj)
        BY ONLY <1>1, <1>2, <2>3
      <4> QED
        BY ONLY <4>1, PartIs
    <3> QED
      BY ONLY <2>4, <3>1
  <2> HIDE DEF read
  \* what is read is a part of the value
  <2>6. /\ new = Part(Val(s), s.pos, IF left > room THEN s.pos + room ELSE Len(Val(s)))
        /\ s.pos <= IF left > room THEN s.pos + room ELSE Len(Val(s))
        /\ (IF left > room THEN s.pos + room ELSE Len(Val(s))) <= Len(Val(s))
        /\ new \in Data
        /\ left > room => s.idx \notin Str
    <3>1. CASE s.idx \notin Str
      <4>1. new = Part(obj, s.pos, m) /\ Val(s) = obj
        BY ONLY <1>2, <2>4, <3>1
      <4>2. (IF left > room THEN s.pos + room ELSE Len(obj)) = m
        <5> HIDE DEF left, room, n
        <5> QED
          BY ONLY <2>2, <2>3
      <4> HIDE DEF new, left, room, m
      <4> QED
        BY ONLY <2>3, <2>4, <2>5, <3>1, <4>1, <4>2
    <3>2. CASE s.idx \in Str
      <4>1. s.pos = 0 /\ rest = <<>> /\ Len(obj) <= Buf /\ s.len = Len(obj)
        BY ONLY <2>1, <3>2
      <4>2. Len(rest) = 0
        BY ONLY <4>1, CatNone
      <4>3. ~(left > room) /\ m = Len(obj)
        <5>1. room = Buf /\ left = Len(obj)
          <6> HIDE DEF rest
          <6> QED
            BY ONLY <1>1, <1>2, <4>1, <4>2
        <5> HIDE DEF left, room, n
        <5>2. n = Len(obj)
          BY ONLY <1>1, <1>2, <2>2, <4>1, <5>1
        <5> QED
          BY ONLY <1>1, <1>2, <4>1, <5>1, <5>2
      <4>4. read = obj
        BY ONLY <1>2, <2>4, <4>1, <4>3, WholeIs
      <4>5. TextLen(obj) \in Nat /\ TextLen(obj) <= Len(obj)
        BY ONLY <1>2, TextLenIs
      <4>6. new = Val(s)
        <5>1. TextLen(obj) = Len(obj) => Front_(obj, TextLen(obj)) = obj
          BY ONLY <1>2, WholeIs
        <5> QED
          BY ONLY <1>2, <3>2, <4>4, <4>5, <5>1
      <4>7. Part(Val(s), 0, Len(Val(s))) = Val(s)
        BY ONLY <1>2, WholeIs
      <4> HIDE DEF new, left, room
      <4> QED
        BY ONLY <1>2, <4>1, <4>3, <4>6, <4>7
    <3> QED
      BY ONLY <3>1, <3>2
  <2>7. cut => s.idx \in Str
    BY DEF cut
  <2> HIDE DEF cut, new
  <2>8. CASE part /\ Len(all) < min
    <3>1. r = Stop(s)
      <4> HIDE DEF all, part, full, rest
      <4> QED
        BY ONLY <1>1, <1>3, <1>4, <1>6, <2>8, min \in Nat
    <3>2. Stop(s).st = "ABORT"
      BY ONLY <1>1, StopKeeps
    <3> QED
      BY ONLY <3>1, <3>2 DEF Continued, r
  <2>9. CASE ~(part /\ Len(all) < min)
    <3>1. r = full
      <4> HIDE DEF all, part, full, rest
      <4> QED
        BY ONLY <1>1, <1>3, <1>4, <1>6, <2>9, min \in Nat
    <3>2. part => left > room
      <4>1. all = <<>> => Len(all) < min
        BY ONLY CatNone, min \in Nat, min > 0
      <4> QED
        BY ONLY <2>9, <4>1 DEF part, all
    <3>3. left > room => part
      BY ONLY <2>6, <2>7 DEF part
    <3> HIDE DEF part, all, left, room, pos, len, crc, fin
    <3>4. /\ full.buf = all /\ full.rd = 0 /\ full.fin = fin /\ full.pos = pos /\ full.len = len
          /\ full.crc = crc /\ full.od = s.od /\ full.idx = s.idx
      BY ONLY <1>1 DEF SrvRecord
    <3> HIDE DEF full
    <3>5. Val(full) = Val(s)
      BY ONLY <3>4, SameVal
    <3>6. Reach(full) = IF left > room THEN s.pos + room ELSE Len(Val(s))
      <4>1. CASE left > room
        BY ONLY <3>3, <3>4, <4>1 DEF Reach, fin, pos
      <4>2. CASE ~(left > room)
        BY ONLY <3>2, <3>4, <3>5, <4>2 DEF Reach, fin
      <4> QED
        BY ONLY <4>1, <4>2
    <3>7. Reach(full) \in Nat
      BY ONLY <1>1, <1>2, <1>3, <3>6 DEF room
    <3>8. full.fin = 0 => Whole(full)
      <4> SUFFICES ASSUME full.fin = 0 PROVE Whole(full)
        OBVIOUS
      <4>1. left > room
        BY ONLY <3>2, <3>4, full.fin = 0 DEF fin
      <4>2. ~cut /\ s.idx \notin Str
        BY ONLY <2>6, <2>7, <4>1
      <4> QED
        BY ONLY <2>1, <3>4, <4>2 DEF Whole, len
    <3> QED
      BY ONLY <1>6, <2>6, <3>1, <3>4, <3>6, <3>7, <3>8 DEF Continued, r, all, crc, rest
  <2> QED
    BY ONLY <2>8, <2>9
<1> QED
  BY ONLY <1>1, <1>3, <1>5, <1>6, min \in Nat DEF Bit

\* The buffer and the CRC go on where they were.
ReadOn(r, s, sum) ==
  \/ r.st = "ABORT"
  \/ /\ Reads(r)
     /\ Buffered(s) => Buffered(r)
     /\ sum /\ s.crc = Front_(Val(s), Reach(s)) => r.crc = Front_(Val(r), Reach(r))

LEMMA ReadGoesOn ==
  ASSUME NEW s, Begun(s), NEW min \in Nat, min > 0, NEW sum \in BOOLEAN
  PROVE  ReadOn(readFromOd(s, min, sum), s, sum)
<1> DEFINE r == readFromOd(s, min, sum)
           rest == Rest(s.buf, s.rd)
           v == Val(s)
<1>1. Continued(r, s, sum)
  BY ReadContinues
<1>2. r.od = s.od /\ r.idx = s.idx /\ r.tran = s.tran /\ r \in SrvRecord /\ s \in SrvRecord
      /\ Readable(s) /\ s.idx \in Obj
  <2>1. Readable(s) /\ s.idx \in Obj
    BY DEF Begun
  <2>2. Read(r, s, min)
    BY ONLY <2>1, ReadIs, min \in Nat, sum \in BOOLEAN
  <2> HIDE DEF r
  <2> QED
    BY ONLY <2>1, <2>2 DEF Read, Readable
<1> HIDE DEF r
<1>3. v \in Data /\ Len(v) \in Nat /\ Val(r) = v
  BY ONLY <1>2, ValIs, SameVal
<1>4. r.buf \in Data
  BY ONLY <1>2 DEF SrvRecord
<1>5. s.fin = 0 => s.len = Len(s.od[s.idx]) /\ (s.idx \in Str => rest = <<>> /\ s.pos = 0)
  BY DEF Begun
<1>6. /\ Reach(s) \in Nat /\ s.tran \in Nat /\ s.pos \in Nat
      /\ s.fin = 0 => Reach(s) = s.pos
  BY ONLY <1>2, <1>5, ReachIs
<1>7. CASE r.st = "ABORT"
  BY ONLY <1>7 DEF ReadOn, r
<1>8. CASE r = s /\ (s.fin = 1 \/ (s.fin = 0 /\ rest # <<>>))
  <2>1. Reads(s)
    BY ONLY <1>2, <1>5, <1>8 DEF Reads, Whole
  <2> HIDE DEF rest, v
  <2> QED
    BY ONLY <1>8, <2>1 DEF ReadOn, r
<1>9. ASSUME NEW n \in Data,
             s.fin = 0, r.rd = 0, r.buf = rest \o n,
             s.pos <= Reach(r), Reach(r) <= Len(v), Reach(r) \in Nat,
             n = Part(v, s.pos, Reach(r)),
             r.crc = IF sum THEN s.crc \o n ELSE s.crc,
             r.fin = 0 => Whole(r)
      PROVE  ReadOn(r, s, sum)
  <2> DEFINE p == s.pos
             q == Reach(r)
  <2>1. p \in Nat /\ q \in Nat /\ p <= q /\ q <= Len(v) /\ Reach(s) = p
    BY ONLY <1>6, <1>9
  <2>2. Reads(r)
    BY ONLY <1>2, <1>9 DEF Reads
  <2>3. Buffered(s) => Buffered(r)
    <3> SUFFICES ASSUME Buffered(s) PROVE Buffered(r)
      OBVIOUS
    <3>1. s.tran <= p /\ rest = Part(v, s.tran, p)
      BY ONLY <2>1, Buffered(s) DEF Buffered
    <3> HIDE DEF p, q, v, rest
    <3>2. Part(v, s.tran, p) \o Part(v, p, q) = Part(v, s.tran, q)
      <4> DEFINE a == s.tran
      <4>1. v \in Data /\ a \in Nat /\ p \in Nat /\ q \in Nat /\ a <= p /\ p <= q /\ q <= Len(v)
        BY ONLY <1>3, <1>6, <2>1, <3>1
      <4> HIDE DEF a
      <4>2. Part(v, a, p) \o Part(v, p, q) = Part(v, a, q)
        BY ONLY <4>1, PartsJoin
      <4> QED
        BY ONLY <4>2 DEF a
    <3>3. Rest(r.buf, 0) = r.buf
      BY ONLY <1>4, WholeIs
    <3>4. n = Part(v, p, q) /\ s.tran <= q
      BY ONLY <1>6, <1>9, <2>1, <3>1 DEF p, q
    <3>5. Rest(r.buf, r.rd) = Part(v, s.tran, q)
      BY ONLY <1>9, <3>1, <3>2, <3>3, <3>4
    <3> QED
      BY ONLY <1>2, <1>3, <3>4, <3>5 DEF Buffered, q
  <2>4. sum /\ s.crc = Front_(v, p) => r.crc = Front_(v, q)
    <3>1. Front_(v, p) \o Part(v, p, q) = Front_(v, q)
      <4> HIDE DEF p, q, v
      <4> QED
        BY ONLY <1>3, <2>1, FrontGrows
    <3> HIDE DEF v
    <3> QED
      BY ONLY <1>9, <3>1
  <2> HIDE DEF v
  <2> QED
    BY ONLY <1>3, <2>1, <2>2, <2>3, <2>4 DEF ReadOn, r, v
<1> HIDE DEF r
<1>10. \/ r.st = "ABORT"
       \/ r = s /\ (s.fin = 1 \/ (s.fin = 0 /\ rest # <<>>))
       \/ \E n \in Data :
            /\ s.fin = 0 /\ r.rd = 0 /\ r.buf = rest \o n
            /\ s.pos <= Reach(r) /\ Reach(r) <= Len(v) /\ Reach(r) \in Nat
            /\ n = Part(v, s.pos, Reach(r))
            /\ r.crc = IF sum THEN s.crc \o n ELSE s.crc
            /\ r.fin = 0 => Whole(r)
  BY ONLY <1>1 DEF Continued
<1> HIDE DEF rest, v
<1>11. CASE \E n \in Data :
            /\ s.fin = 0 /\ r.rd = 0 /\ r.buf = rest \o n
            /\ s.pos <= Reach(r) /\ Reach(r) <= Len(v) /\ Reach(r) \in Nat
            /\ n = Part(v, s.pos, Reach(r))
            /\ r.crc = IF sum THEN s.crc \o n ELSE s.crc
            /\ r.fin = 0 => Whole(r)
  <2>1. PICK n \in Data :
            /\ s.fin = 0 /\ r.rd = 0 /\ r.buf = rest \o n
            /\ s.pos <= Reach(r) /\ Reach(r) <= Len(v) /\ Reach(r) \in Nat
            /\ n = Part(v, s.pos, Reach(r))
            /\ r.crc = IF sum THEN s.crc \o n ELSE s.crc
            /\ r.fin = 0 => Whole(r)
    BY ONLY <1>11
  <2>2. ReadOn(r, s, sum)
    BY ONLY <1>9, <2>1
  <2> QED
    BY ONLY <2>2 DEF r
<1> QED
  BY ONLY <1>7, <1>8, <1>10, <1>11 DEF r

\* An upload starts with the whole object to be read.
UpNew(q, s) ==
  /\ q.st = "ABORT" \/ (Reads(q) /\ Buffered(q) /\ AtStart(q))

LEMMA UploadRequested ==
  ASSUME NEW s, SrvBase(s), s.rx \in Frames, s.rx.c \in {"upload", "blkUpload"}, TextsFit, Sizes(s)
  PROVE  UpNew(NewRequest(s), s)
<1> DEFINE st == CASE s.rx.c = "download" -> "DOWNLOAD_INITIATE_REQ"
                   [] s.rx.c = "upload" -> "UPLOAD_INITIATE_REQ"
                   [] s.rx.c = "blkDownload" -> "DOWNLOAD_BLK_INITIATE_REQ"
                   [] s.rx.c = "blkUpload" -> "UPLOAD_BLK_INITIATE_REQ"
                   [] OTHER -> "ABORT"
           found == OD_getSub(s, s.rx.c \in {"upload", "blkUpload"})
           ready == [found EXCEPT !.st = st]
           clean == [ready EXCEPT !.buf = <<>>, !.rd = 0, !.tran = 0, !.fin = 0]
           read == readFromOd(clean, Seg, FALSE)
           ind == IF read.fin = 0 /\ read.idx \in Str THEN 0 ELSE read.len
           e == [read EXCEPT !.ind = ind]
           r == NewRequest(s)
<1>1. r = IF st = "ABORT" \/ found.st = "ABORT" THEN Stop(s)
          ELSE IF read.st = "ABORT" THEN read
          ELSE IF read.fin = 1 /\ read.len # Len(read.buf) THEN Stop(read)
          ELSE e
  BY DEF NewRequest
<1>2. s \in SrvRecord /\ Stop(s).st = "ABORT"
  BY StopKeeps DEF SrvBase
<1>3. st \in UpRequest /\ st \in States
  BY StatesAre DEF UpRequest
<1>4. found = Stop(s) \/ (SrvBase(found) /\ AtPlace(found) /\ found.pos = 0
                          /\ found.od = s.od /\ found.len = Len(s.od[found.idx]))
  <2> DEFINE g == [s EXCEPT !.idx = s.rx.idx, !.len = Len(s.od[s.rx.idx]), !.pos = 0]
             up == s.rx.c \in {"upload", "blkUpload"}
  <2>1. found = Stop(s) \/ found = g
    BY DEF OD_getSub
  <2>2. found = Stop(s) \/ (SrvBase(found) /\ AtPlace(found) /\ found.pos = 0)
    <3>1. up \in BOOLEAN
      OBVIOUS
    <3> QED
      BY <3>1, SubIs
  <2>3. g.od = s.od /\ g.idx = s.rx.idx /\ g.len = Len(s.od[s.rx.idx])
    BY ONLY <1>2 DEF SrvRecord
  <2> HIDE DEF g, found
  <2> QED
    BY ONLY <2>1, <2>2, <2>3
<1> HIDE DEF st, r, found
<1>5. CASE found.st = "ABORT" \/ found = Stop(s)
  <2>1. found.st = "ABORT"
    BY ONLY <1>2, <1>5
  <2>2. r = Stop(s)
    BY ONLY <1>1, <2>1
  <2> QED
    BY ONLY <1>2, <2>2 DEF UpNew, r
<1>6. CASE ~(found.st = "ABORT" \/ found = Stop(s))
  <2>1. /\ SrvBase(found) /\ AtPlace(found) /\ found.pos = 0 /\ found.od = s.od
        /\ found.len = Len(found.od[found.idx]) /\ found \in SrvRecord
    BY ONLY <1>4, <1>6 DEF SrvBase
  <2>2. /\ ready.od = found.od /\ ready.idx = found.idx /\ ready.st = st
        /\ ready.pos = found.pos /\ ready.len = found.len
    BY ONLY <2>1 DEF SrvRecord
  <2>3. SrvBase(ready) /\ AtPlace(ready) /\ ready \in SrvRecord
    BY ONLY <1>3, <2>1, SrvStateIs DEF SrvBase
  <2> HIDE DEF ready
  <2>4. <<>> \in Data /\ Len(<<>>) = 0 /\ Buf \in Nat /\ Seg \in Nat /\ FALSE \in BOOLEAN
        /\ Seg > Exped /\ Exped \in Nat
    BY SdoAssumption DEF Data
  <2>5. clean \in SrvRecord
    BY ONLY <2>3, <2>4, 0 \in Nat DEF SrvRecord, Bit
  <2>6. /\ clean.buf = <<>> /\ clean.rd = 0 /\ clean.tran = 0 /\ clean.fin = 0
        /\ clean.pos = ready.pos /\ clean.idx = ready.idx /\ clean.len = ready.len
        /\ clean.od = ready.od /\ clean.st = ready.st
    BY ONLY <2>3 DEF SrvRecord
  <2> HIDE DEF clean
  <2>7. Readable(clean) /\ clean.idx \in Obj
    BY ONLY <2>3, <2>4, <2>5, <2>6 DEF Readable, AtPlace
  <2>8. Rest(clean.buf, clean.rd) = <<>> /\ clean.pos = 0 /\ clean.tran = 0
    BY ONLY <2>1, <2>2, <2>4, <2>6, WholeIs
  <2>9. Begun(clean)
    <3>1. clean.len = Len(clean.od[clean.idx])
      BY ONLY <2>1, <2>2, <2>6
    <3>2. clean.idx \in Str => clean.len <= Buf
      <4>1. clean.od = s.od
        BY ONLY <2>1, <2>2, <2>6
      <4>2. clean.len = Len(First[clean.idx])
        BY ONLY <2>7, <3>1, <4>1, Sizes(s) DEF Sizes
      <4> QED
        BY ONLY <4>2, TextsFit DEF TextsFit
    <3> QED
      BY ONLY <2>7, <2>8, <3>1, <3>2 DEF Begun
  <2>10. Buffered(clean)
    <3>1. Val(clean) \in Data
      BY ONLY <2>5, <2>7, ValIs
    <3>2. Part(Val(clean), 0, 0) = <<>>
      <4>1. Front_(Val(clean), 0) = <<>> /\ Front_(Val(clean), 0) = Part(Val(clean), 0, 0)
        BY ONLY <3>1, WholeIs, FrontPart
      <4> QED
        BY ONLY <4>1
    <3>3. Reach(clean) = 0
      BY ONLY <2>6, <2>8 DEF Reach
    <3> QED
      BY ONLY <2>8, <3>2, <3>3 DEF Buffered
  <2>11. ReadOn(read, clean, FALSE) /\ Read(read, clean, Seg)
    <3>1. Seg > 0
      BY ONLY <2>4
    <3> QED
      BY ONLY <2>4, <2>7, <2>9, <3>1, ReadGoesOn, ReadIs
  <2> HIDE DEF read
  <2>12. read.st = "ABORT" \/ (Reads(read) /\ Buffered(read))
    BY ONLY <2>10, <2>11 DEF ReadOn
  <2>13. /\ read \in SrvRecord /\ read.tran = 0 /\ read.rd = 0 /\ read.len \in Nat
         /\ read.st # "ABORT" /\ read.fin = 0 => AtPlace(read) /\ Len(read.buf) - 0 >= Seg
    BY ONLY <2>6, <2>11 DEF Read, SrvRecord
  <2>14. CASE read.st = "ABORT"
    <3>1. r = read \/ r = Stop(s)
      BY ONLY <1>1, <2>14
    <3> QED
      BY ONLY <1>2, <2>14, <3>1 DEF UpNew, r
  <2>15. CASE read.st # "ABORT" /\ read.fin = 1 /\ read.len # Len(read.buf)
    <3>1. r = Stop(read) \/ r = Stop(s)
      BY ONLY <1>1, <2>15
    <3>2. Stop(read).st = "ABORT"
      BY ONLY <2>13, StopKeeps
    <3> QED
      BY ONLY <1>2, <3>1, <3>2 DEF UpNew, r
  <2>16. CASE read.st # "ABORT" /\ ~(read.fin = 1 /\ read.len # Len(read.buf))
    <3>1. r = e \/ r = Stop(s)
      BY ONLY <1>1, <2>16
    <3>2. /\ e.ind = ind /\ e.tran = 0 /\ e.rd = 0 /\ e.buf = read.buf /\ e.fin = read.fin
          /\ e.od = read.od /\ e.idx = read.idx /\ e.pos = read.pos /\ e.len = read.len
      BY ONLY <2>13 DEF SrvRecord
    <3>3. read.fin = 0 => ind = 0 \/ ind > Exped
      <4> SUFFICES ASSUME read.fin = 0, read.idx \notin Str PROVE read.len > Exped
        BY DEF ind
      <4>1. Reads(read) /\ Buffered(read) /\ AtPlace(read) /\ Len(read.buf) - 0 >= Seg
        BY ONLY <2>12, <2>13, <2>16, read.fin = 0
      <4>2. read.buf \in Data /\ read.idx \in Obj /\ Val(read) \in Data /\ read.pos \in Nat
            /\ Len(Val(read)) \in Nat /\ Val(read) = read.od[read.idx] /\ read.pos <= read.len
            /\ read.len = Len(Val(read)) /\ Len(read.buf) \in Nat
        BY ONLY <2>13, <4>1, ValIs, LenIs, read.fin = 0, read.idx \notin Str
           DEF Reads, Whole, SrvRecord, AtPlace
      <4>3. read.buf = Part(Val(read), 0, read.pos)
        <5>1. Rest(read.buf, 0) = Part(Val(read), 0, read.pos)
          BY ONLY <2>13, <4>1, read.fin = 0 DEF Buffered, Reach
        <5> QED
          BY ONLY <4>2, <5>1, WholeIs
      <4>4. Len(read.buf) = read.pos - 0
        BY ONLY <4>2, <4>3, PartIs, 0 \in Nat
      <4> QED
        BY ONLY <2>4, <2>13, <4>1, <4>2, <4>4
    <3>4. read.fin = 1 => ind = Len(read.buf)
      BY ONLY <2>16 DEF ind
    <3>5. ind \in Nat /\ read.fin \in {0, 1}
      BY ONLY <2>13 DEF ind, SrvRecord, Bit
    <3> HIDE DEF ind
    <3>6. AtStart(e)
      BY ONLY <2>4, <3>2, <3>3, <3>4, <3>5 DEF AtStart
    <3> HIDE DEF e
    <3>7. Reads(e) /\ Buffered(e)
      <4>1. Val(e) = Val(read)
        BY ONLY <3>2, SameVal
      <4> QED
        BY ONLY <2>12, <2>13, <2>16, <3>2, <4>1 DEF Reads, Buffered, Reach, Whole
    <3> QED
      BY ONLY <1>2, <3>1, <3>6, <3>7 DEF UpNew, r
  <2> QED
    BY ONLY <2>14, <2>15, <2>16
<1> QED
  BY ONLY <1>5, <1>6

\* What a client's answer to a sub-block makes the server go back to.
GoneBack(s) ==
  LET lost == (s.seq - s.rx.seq) * Seg - s.nod
      a == IF s.rx.seq < s.seq THEN [s EXCEPT !.rd = @ - lost, !.tran = @ - lost] ELSE s
  IN  [a EXCEPT !.blk = s.rx.blk]

LEMMA GoneBackIs ==
  ASSUME NEW s, SrvOK(s), s.rx \in Frames, s.st \in UpBlock, ~(s.rx.seq > s.seq)
  PROVE  LET b == GoneBack(s) IN
         /\ Readable(b) /\ b \in SrvRecord /\ b.rd <= b.tran
         /\ b.buf = s.buf /\ b.st = s.st /\ b.idx = s.idx /\ b.pos = s.pos /\ b.len = s.len
         /\ b.od = s.od /\ b.nod = s.nod /\ b.rx = s.rx /\ b.fin = s.fin /\ b.crc = s.crc
<1> DEFINE lost == (s.seq - s.rx.seq) * Seg - s.nod
           a == IF s.rx.seq < s.seq THEN [s EXCEPT !.rd = @ - lost, !.tran = @ - lost] ELSE s
           b == [a EXCEPT !.blk = s.rx.blk]
<1>1. s.rx.seq \in Nat /\ s.rx.blk \in Nat
  BY FrameIs
<1>2. /\ s \in SrvRecord /\ s.rd \in Nat /\ s.tran \in Nat /\ s.nod \in Nat /\ s.seq \in Nat
      /\ s.rd <= Len(s.buf) /\ Len(s.buf) <= Buf /\ s.nod <= Seg /\ Len(s.buf) \in Nat
      /\ s.rd <= s.tran /\ (s.fin = 0 => AtPlace(s))
      /\ (s.seq > 0 => s.seq * Seg <= s.rd + s.nod)
      /\ Seg \in Nat
  BY LenIs, SdoAssumption DEF SrvOK, SrvBase, SrvAt, SrvRecord
<1>3. a \in SrvRecord /\ a.rd \in Nat /\ a.tran \in Nat /\ a.rd <= s.rd /\ a.rd <= a.tran
  <2>1. CASE s.rx.seq < s.seq
    <3>1. lost \in Int /\ 0 <= lost /\ lost <= s.rd
      <4>1. s.seq * Seg <= s.rd + s.nod
        BY ONLY <1>1, <1>2, <2>1
      <4>2. lost \in Nat /\ lost <= s.rd
        BY ONLY <1>1, <1>2, <2>1, <4>1, GoBack
      <4> HIDE DEF lost
      <4> QED
        BY ONLY <4>2
    <3> HIDE DEF lost
    <3>2. s.rd - lost \in Nat /\ s.tran - lost \in Nat /\ s.rd - lost <= s.rd
          /\ s.rd - lost <= s.tran - lost
      BY ONLY <1>2, <3>1
    <3>3. [s EXCEPT !.rd = s.rd - lost, !.tran = s.tran - lost] \in SrvRecord
      BY ONLY <1>2, <3>2 DEF SrvRecord
    <3>4. a = [s EXCEPT !.rd = s.rd - lost, !.tran = s.tran - lost]
      BY ONLY <1>2, <2>1 DEF SrvRecord
    <3>5. a.rd = s.rd - lost /\ a.tran = s.tran - lost
      BY ONLY <1>2, <3>4 DEF SrvRecord
    <3> HIDE DEF a
    <3> QED
      BY ONLY <3>2, <3>3, <3>4, <3>5
  <2>2. CASE ~(s.rx.seq < s.seq)
    BY ONLY <1>2, <2>2
  <2> QED
    BY ONLY <2>1, <2>2
<1>4. /\ a.buf = s.buf /\ a.st = s.st /\ a.idx = s.idx /\ a.pos = s.pos /\ a.len = s.len
      /\ a.od = s.od /\ a.nod = s.nod /\ a.rx = s.rx /\ a.fin = s.fin /\ a.crc = s.crc
  BY ONLY <1>2 DEF SrvRecord
<1>5. GoneBack(s) = b
  BY DEF GoneBack
<1> HIDE DEF a
<1>6. b \in SrvRecord
  BY ONLY <1>1, <1>3 DEF SrvRecord
<1>7. /\ b.buf = s.buf /\ b.st = s.st /\ b.idx = s.idx /\ b.pos = s.pos /\ b.len = s.len
      /\ b.od = s.od /\ b.nod = s.nod /\ b.rx = s.rx /\ b.fin = s.fin /\ b.crc = s.crc
      /\ b.rd = a.rd /\ b.tran = a.tran
  BY ONLY <1>3, <1>4 DEF SrvRecord
<1> HIDE DEF b
<1>8. Readable(b)
  <2>1. b.rd <= Len(b.buf)
    BY ONLY <1>2, <1>3, <1>7
  <2> QED
    BY ONLY <1>2, <1>6, <1>7, <2>1 DEF Readable, AtPlace
<1> QED
  BY ONLY <1>3, <1>5, <1>6, <1>7, <1>8

\* The server's part of the invariant.
SrvSegments == {"UPLOAD_INITIATE_RSP", "UPLOAD_SEGMENT_REQ", "UPLOAD_SEGMENT_RSP"}
SrvBlocks == {"UPLOAD_BLK_INITIATE_RSP", "UPLOAD_BLK_INITIATE_REQ2"} \cup UpBlock

SrvUp(s) ==
  /\ Sizes(s)
  /\ s.st \in SrvSegments => Reads(s) /\ Buffered(s)
  /\ s.st = "UPLOAD_INITIATE_RSP" => AtStart(s)
  /\ s.st \in SrvBlocks => Reads(s) /\ s.crc = Front_(Val(s), Reach(s))
  /\ s.st = "UPLOAD_BLK_END_SREQ" => s.idx \in Obj /\ s.crc = Val(s)

\* An upload's state with as much read, sent and counted as another.
LEMMA SameReach ==
  ASSUME NEW r, NEW s, r.od = s.od, r.idx = s.idx, r.fin = s.fin, r.pos = s.pos, r.len = s.len
  PROVE  /\ Val(r) = Val(s) /\ Reach(r) = Reach(s) /\ (Reads(s) => Reads(r))
         /\ r.tran = s.tran /\ r.rd = s.rd /\ r.buf = s.buf => (Buffered(s) => Buffered(r))
         /\ r.tran = s.tran /\ r.rd = s.rd /\ r.buf = s.buf /\ r.ind = s.ind =>
              (AtStart(s) => AtStart(r))
<1>1. Val(r) = Val(s)
  BY SameVal
<1> QED
  BY <1>1 DEF Reach, Reads, Whole, Buffered, AtStart

LEMMA UpIdle ==
  ASSUME NEW s, Sizes(s), s.st \notin UpWork
  PROVE  SrvUp(s)
BY DEF SrvUp, UpWork, UpStart, UpBlock, SrvSegments, SrvBlocks

\* Behind a sub-block: the next one, or the end of the value.
BlockConfirmed(r, s) ==
  /\ r.od = s.od /\ r.idx = s.idx
  /\ \/ r.st = "ABORT"
     \/ r.st = "UPLOAD_BLK_END_SREQ" /\ r.idx \in Obj /\ r.crc = Val(r)
     \/ r.st = "UPLOAD_BLK_SUBBLOCK_SREQ" /\ Reads(r) /\ r.crc = Front_(Val(r), Reach(r))

LEMMA ConfirmSubBlockGoesOn ==
  ASSUME NEW s, SrvOK(s), s.rx \in Frames, s.st \in UpBlock, SrvUp(s)
  PROVE  BlockConfirmed(ConfirmSubBlock(s), s)
<1> DEFINE b == GoneBack(s)
           min == s.rx.blk * Seg
           d == readFromOd(b, min, TRUE)
           end == [d EXCEPT !.st = "UPLOAD_BLK_END_SREQ"]
           on == [d EXCEPT !.seq = 0, !.st = "UPLOAD_BLK_SUBBLOCK_SREQ"]
           r == ConfirmSubBlock(s)
<1>1. r = IF s.rx.c # "subBlock" \/ s.rx.blk < 1 \/ s.rx.seq > s.seq THEN Stop(s)
          ELSE IF d.st = "ABORT" THEN d ELSE IF Len(d.buf) = d.rd THEN end ELSE on
  BY DEF ConfirmSubBlock, GoneBack
<1>2. s \in SrvRecord
  BY DEF SrvOK, SrvBase
<1>3. Stop(s).st = "ABORT" /\ Stop(s).od = s.od /\ Stop(s).idx = s.idx
  BY ONLY <1>2, StopKeeps
<1> HIDE DEF r
<1>4. CASE s.rx.c # "subBlock" \/ s.rx.blk < 1 \/ s.rx.seq > s.seq
  BY ONLY <1>1, <1>3, <1>4 DEF r, BlockConfirmed
<1>5. CASE ~(s.rx.c # "subBlock" \/ s.rx.blk < 1 \/ s.rx.seq > s.seq)
  <2>1. min \in Nat /\ min > 0
    <3>1. s.rx.blk \in Nat /\ s.rx.blk > 0 /\ Seg \in Nat /\ Seg > 0
      BY <1>5, FrameIs, SdoAssumption
    <3> DEFINE m == s.rx.blk
    <3> HIDE DEF m
    <3>2. m \in Nat /\ m > 0
      BY ONLY <3>1 DEF m
    <3>3. m * Seg \in Nat /\ m * Seg > 0
      BY ONLY <3>1, <3>2
    <3> QED
      BY ONLY <3>3 DEF m
  <2>2. /\ Readable(b) /\ b \in SrvRecord
        /\ b.buf = s.buf /\ b.st = s.st /\ b.idx = s.idx /\ b.pos = s.pos /\ b.len = s.len
        /\ b.od = s.od /\ b.fin = s.fin /\ b.crc = s.crc
    BY ONLY <1>5, GoneBackIs, SrvOK(s), s.rx \in Frames, s.st \in UpBlock
  <2> HIDE DEF b
  <2>3. Reads(s) /\ s.crc = Front_(Val(s), Reach(s))
    BY DEF SrvUp, SrvBlocks
  <2>4. Reads(b) /\ b.crc = Front_(Val(b), Reach(b))
    BY ONLY <2>2, <2>3, SameReach
  <2>5. Begun(b)
    BY ONLY <2>2, <2>4 DEF Begun, Reads, Whole
  <2>6. ReadOn(d, b, TRUE) /\ Read(d, b, min)
    <3> HIDE DEF min
    <3> QED
      BY ONLY <2>1, <2>2, <2>5, TRUE \in BOOLEAN, ReadGoesOn, ReadIs
  <2> HIDE DEF d, min
  <2>7. /\ d \in SrvRecord /\ d.od = s.od /\ d.idx = s.idx /\ Len(d.buf) \in Nat /\ d.rd \in Nat
        /\ d.fin \in Bit
        /\ d.st # "ABORT" /\ d.fin = 0 => Len(d.buf) - d.rd >= min
    BY ONLY <2>2, <2>6, LenIs DEF Read, SrvRecord
  <2>8. CASE d.st = "ABORT"
    <3>1. r = d
      BY ONLY <1>1, <1>5, <2>8
    <3> QED
      BY ONLY <2>7, <2>8, <3>1 DEF r, BlockConfirmed
  <2>9. CASE d.st # "ABORT" /\ Len(d.buf) = d.rd
    <3>1. r = end
      BY ONLY <1>1, <1>5, <2>9
    <3>2. d.fin = 1
      BY ONLY <2>1, <2>7, <2>9 DEF Bit
    <3>3. d.crc = Front_(Val(d), Len(Val(d))) /\ d.idx \in Obj
      BY ONLY <2>4, <2>6, <2>9, <3>2 DEF ReadOn, Reach, Reads
    <3>4. d.crc = Val(d)
      BY ONLY <2>7, <3>3, ValIs, WholeIs
    <3>5. end.st = "UPLOAD_BLK_END_SREQ" /\ end.od = d.od /\ end.idx = d.idx /\ end.crc = d.crc
      BY ONLY <2>7 DEF SrvRecord
    <3> HIDE DEF end
    <3>6. Val(end) = Val(d)
      BY ONLY <3>5, SameVal
    <3> QED
      BY ONLY <2>7, <3>1, <3>3, <3>4, <3>5, <3>6 DEF r, BlockConfirmed
  <2>10. CASE d.st # "ABORT" /\ Len(d.buf) # d.rd
    <3>1. r = on
      BY ONLY <1>1, <1>5, <2>10
    <3>2. Reads(d) /\ d.crc = Front_(Val(d), Reach(d))
      BY ONLY <2>4, <2>6, <2>10 DEF ReadOn
    <3>3. /\ on.st = "UPLOAD_BLK_SUBBLOCK_SREQ" /\ on.od = d.od /\ on.idx = d.idx /\ on.crc = d.crc
          /\ on.fin = d.fin /\ on.pos = d.pos /\ on.len = d.len
      BY ONLY <2>7 DEF SrvRecord
    <3> HIDE DEF on
    <3>4. Val(on) = Val(d) /\ Reach(on) = Reach(d) /\ Reads(on)
      BY ONLY <3>2, <3>3, SameReach
    <3> QED
      BY ONLY <2>7, <3>1, <3>2, <3>3, <3>4 DEF r, BlockConfirmed
  <2> QED
    BY ONLY <2>8, <2>9, <2>10
<1> QED
  BY ONLY <1>4, <1>5

\* The answer to a request for a block upload: segments or a block.
LEMMA InitiateBlockUploadStarts ==
  ASSUME NEW s \in SrvRecord, Sizes(s), Reads(s), Buffered(s), AtStart(s)
  PROVE  LET r == InitiateBlockUpload(s) IN
         /\ r.od = s.od /\ r.idx = s.idx
         /\ \/ r.st = "ABORT"
            \/ r.st \in {"UPLOAD_INITIATE_RSP", "UPLOAD_BLK_INITIATE_RSP"} /\ SrvUp(r)
<1> DEFINE small == [s EXCEPT !.st = "UPLOAD_INITIATE_RSP"]
           block == [s EXCEPT !.crc = s.buf, !.blk = s.rx.blk, !.st = "UPLOAD_BLK_INITIATE_RSP"]
           r == InitiateBlockUpload(s)
<1>1. r = small \/ r = Stop(s) \/ r = block
  BY DEF InitiateBlockUpload
<1> HIDE DEF r
<1>2. CASE r = Stop(s)
  BY ONLY <1>2, s \in SrvRecord, StopKeeps DEF r
<1>3. CASE r = small
  <2>1. /\ small.st = "UPLOAD_INITIATE_RSP" /\ small.od = s.od /\ small.idx = s.idx
        /\ small.fin = s.fin /\ small.pos = s.pos /\ small.len = s.len /\ small.tran = s.tran
        /\ small.rd = s.rd /\ small.buf = s.buf /\ small.ind = s.ind
    BY ONLY s \in SrvRecord DEF SrvRecord
  <2> HIDE DEF small
  <2>2. Reads(small) /\ Buffered(small) /\ AtStart(small) /\ Sizes(small)
    BY ONLY <2>1, SameReach, Reads(s), Buffered(s), AtStart(s), Sizes(s) DEF Sizes
  <2>3. SrvUp(small)
    BY ONLY <2>1, <2>2 DEF SrvUp, SrvBlocks, UpBlock
  <2> QED
    BY ONLY <1>3, <2>1, <2>3 DEF r
<1>4. CASE r = block
  <2>1. /\ block.st = "UPLOAD_BLK_INITIATE_RSP" /\ block.od = s.od /\ block.idx = s.idx
        /\ block.fin = s.fin /\ block.pos = s.pos /\ block.len = s.len /\ block.crc = s.buf
    BY ONLY s \in SrvRecord DEF SrvRecord
  <2> HIDE DEF block
  <2>2. Reads(block) /\ Sizes(block) /\ Val(block) = Val(s) /\ Reach(block) = Reach(s)
    BY ONLY <2>1, SameReach, Reads(s), Sizes(s) DEF Sizes
  <2>3. s.buf = Front_(Val(s), Reach(s))
    <3>1. s.rd = 0 /\ s.tran = 0 /\ s.buf \in Data
      BY DEF AtStart, SrvRecord
    <3>2. Rest(s.buf, 0) = Part(Val(s), 0, Reach(s))
      BY ONLY <3>1, Buffered(s) DEF Buffered
    <3> QED
      BY ONLY <3>1, <3>2, WholeIs, FrontPart
  <2>4. SrvUp(block)
    BY ONLY <2>1, <2>2, <2>3 DEF SrvUp, SrvSegments
  <2> QED
    BY ONLY <1>4, <2>1, <2>4 DEF r
<1> QED
  BY ONLY <1>1, <1>2, <1>3, <1>4

\* As far as an upload goes, the same server.
AsFar(r, s) ==
  /\ r.st = s.st /\ r.idx = s.idx /\ r.od = s.od /\ r.fin = s.fin /\ r.pos = s.pos /\ r.len = s.len
  /\ r.tran = s.tran /\ r.rd = s.rd /\ r.buf = s.buf /\ r.ind = s.ind /\ r.crc = s.crc /\ r.t = s.t

LEMMA AsFarUp ==
  ASSUME NEW r, NEW s, AsFar(r, s), SrvUp(s)
  PROVE  SrvUp(r)
<1>1. /\ Val(r) = Val(s) /\ Reach(r) = Reach(s) /\ (Reads(s) => Reads(r))
      /\ (Buffered(s) => Buffered(r)) /\ (AtStart(s) => AtStart(r))
  BY SameReach DEF AsFar
<1> QED
  BY ONLY <1>1, AsFar(r, s), SrvUp(s) DEF AsFar, SrvUp, Sizes

LEMMA TakenAsFar ==
  ASSUME NEW e \in SrvRecord
  PROVE  AsFar([e EXCEPT !.rx = None], e)
BY DEF AsFar, SrvRecord

\* What the server makes of a frame, for an upload.
TookUp(r, s) ==
  /\ SrvUp(r)
  /\ s.st \in UpWork \cup Gone /\ s.rx.c \notin Requests =>
       r.od = s.od /\ r.idx = s.idx /\ r.st \in UpWork \cup {"ABORT"}
  /\ s.rx.c \in {"upload", "blkUpload"} =>
       \/ r.st \in {"ABORT", "DOWNLOAD_BLK_SUBBLOCK_REQ"}
       \/ r.idx = s.rx.idx /\ r.st \in {"UPLOAD_INITIATE_RSP", "UPLOAD_BLK_INITIATE_RSP"}
  /\ s.rx.c = "next" =>
       \/ r.st \in {"ABORT", "DOWNLOAD_BLK_SUBBLOCK_REQ"}
       \/ /\ s.st = "UPLOAD_SEGMENT_REQ" /\ r.st = "UPLOAD_SEGMENT_RSP" /\ r.idx = s.idx
          /\ r.tran = s.tran /\ r.t = s.t

LEMMA IdleTakesUp ==
  ASSUME NEW s, SrvOK(s), s.rx \in Frames, SrvUp(s), TextsFit, s.st = "IDLE",
         s.rx.c \in {"upload", "blkUpload"}
  PROVE  TookUp(SrvTake(s), s)
<1> DEFINE q == NewRequest(s)
           e == SrvTaken(q)
           r == [e EXCEPT !.rx = None]
           small == [q EXCEPT !.st = "UPLOAD_INITIATE_RSP"]
<1>1. SrvTake(s) = r
  BY DEF SrvTake
<1>2. SrvBase(s) /\ Sizes(s)
  BY DEF SrvOK, SrvUp
<1>3. SrvBase(q) /\ q.rx = s.rx /\ Requested(q) /\ NewlyRequested(q, s)
  BY ONLY <1>2, NewRequestIs, NewRequestDoes, s.rx \in Frames
<1>4. UpNew(q, s)
  BY ONLY <1>2, UploadRequested, TextsFit, s.rx \in Frames, s.rx.c \in {"upload", "blkUpload"}
<1> HIDE DEF q
<1>5. e \in SrvRecord /\ q \in SrvRecord
  <2>1. q.rx \in Frames
    BY <1>3
  <2> QED
    BY ONLY <1>3, <2>1, SrvTakenOK DEF SrvOK, SrvBase
<1>6. Sizes(q) /\ (q.st = "ABORT" \/ (q.idx = s.rx.idx /\ q.st \in UpRequest))
  BY ONLY <1>2, <1>3, s.rx.c \in {"upload", "blkUpload"} DEF NewlyRequested, Sizes
<1>7. SrvUp(e) /\ (e.st = "ABORT" \/ (e.idx = s.rx.idx /\ e.st \in {"UPLOAD_INITIATE_RSP", "UPLOAD_BLK_INITIATE_RSP"}))
  <2>1. CASE q.st = "ABORT"
    <3>1. e = q
      BY ONLY <2>1 DEF SrvTaken
    <3> HIDE DEF e
    <3> QED
      BY ONLY <1>6, <2>1, <3>1, UpIdle DEF UpWork, UpStart, UpBlock
  <2>2. CASE q.st # "ABORT"
    <3>1. Reads(q) /\ Buffered(q) /\ AtStart(q) /\ q.idx = s.rx.idx /\ q.st \in UpRequest
      BY ONLY <1>4, <1>6, <2>2 DEF UpNew
    <3>2. e = small \/ e = InitiateBlockUpload(q)
      BY ONLY <3>1 DEF SrvTaken, UpRequest
    <3> HIDE DEF e
    <3>3. CASE e = small
      <4>1. /\ small.st = "UPLOAD_INITIATE_RSP" /\ small.od = q.od /\ small.idx = q.idx
            /\ small.fin = q.fin /\ small.pos = q.pos /\ small.len = q.len /\ small.tran = q.tran
            /\ small.rd = q.rd /\ small.buf = q.buf /\ small.ind = q.ind
        BY ONLY <1>5 DEF SrvRecord
      <4> HIDE DEF small
      <4>2. Reads(small) /\ Buffered(small) /\ AtStart(small) /\ Sizes(small)
        BY ONLY <1>6, <3>1, <4>1, SameReach DEF Sizes
      <4>3. SrvUp(small)
        BY ONLY <4>1, <4>2 DEF SrvUp, SrvBlocks, UpBlock
      <4> QED
        BY ONLY <3>1, <3>3, <4>1, <4>3
    <3>4. CASE e = InitiateBlockUpload(q)
      <4> DEFINE b == InitiateBlockUpload(q)
      <4>1. /\ b.od = q.od /\ b.idx = q.idx
            /\ \/ b.st = "ABORT"
               \/ b.st \in {"UPLOAD_INITIATE_RSP", "UPLOAD_BLK_INITIATE_RSP"} /\ SrvUp(b)
        BY ONLY <1>5, <1>6, <3>1, InitiateBlockUploadStarts
      <4> HIDE DEF b
      <4>2. Sizes(b)
        BY ONLY <1>6, <4>1 DEF Sizes
      <4>3. SrvUp(b)
        BY ONLY <4>1, <4>2, UpIdle DEF UpWork, UpStart, UpBlock
      <4>4. e = b
        BY ONLY <3>4 DEF b
      <4> QED
        BY ONLY <3>1, <4>1, <4>3, <4>4
    <3> QED
      BY ONLY <3>2, <3>3, <3>4
  <2> QED
    BY ONLY <2>1, <2>2
<1> HIDE DEF e
<1>8. AsFar(r, e)
  BY ONLY <1>5, TakenAsFar
<1> HIDE DEF r
<1>9. SrvUp(r) /\ r.st = e.st /\ r.idx = e.idx
  BY ONLY <1>7, <1>8, AsFarUp DEF AsFar
<1>10. s.rx.c \in Requests /\ s.rx.c # "next"
  BY DEF Requests
<1> QED
  BY ONLY <1>1, <1>7, <1>9, <1>10 DEF TookUp

\* A server that has an upload on its way.
LEMMA WorkTakesUp ==
  ASSUME NEW s, SrvOK(s), s.rx \in Frames, SrvUp(s), s.st \in UpWork
  PROVE  TookUp(SrvTake(s), s)
<1> DEFINE e == SrvTaken(s)
           r == [e EXCEPT !.rx = None]
<1>0. s.st # "IDLE"
  BY DEF UpWork, UpStart, UpBlock
<1>1. SrvTake(s) = r
  BY ONLY <1>0 DEF SrvTake
<1>2. s \in SrvRecord /\ Sizes(s)
  BY DEF SrvOK, SrvBase, SrvUp
<1>3. e \in SrvRecord
  BY <1>0, SrvTakenOK DEF SrvOK, SrvBase
<1>4. /\ Stop(s).st = "ABORT" /\ Stop(s).od = s.od /\ Stop(s).idx = s.idx
  BY ONLY <1>2, StopKeeps
<1>5. SrvUp(Stop(s))
  <2>1. Sizes(Stop(s))
    BY ONLY <1>2, <1>4 DEF Sizes
  <2> QED
    BY ONLY <1>4, <2>1, UpIdle DEF UpWork, UpStart, UpBlock
<1>6. /\ SrvUp(e) /\ e.od = s.od /\ e.idx = s.idx /\ e.st \in UpWork \cup {"ABORT"}
      /\ s.rx.c \in {"upload", "blkUpload"} => e.st = "ABORT"
      /\ s.rx.c = "next" =>
           \/ e.st = "ABORT"
           \/ /\ s.st = "UPLOAD_SEGMENT_REQ" /\ e.st = "UPLOAD_SEGMENT_RSP"
              /\ e.tran = s.tran /\ e.t = s.t
  <2>1. CASE s.st = "UPLOAD_SEGMENT_REQ"
    <3> DEFINE good == [s EXCEPT !.st = "UPLOAD_SEGMENT_RSP"]
    <3>1. e = Stop(s) \/ (e = good /\ s.rx.c = "next")
      BY ONLY <2>1 DEF SrvTaken
    <3>2. /\ good.st = "UPLOAD_SEGMENT_RSP" /\ good.od = s.od /\ good.idx = s.idx
          /\ good.fin = s.fin /\ good.pos = s.pos /\ good.len = s.len /\ good.tran = s.tran
          /\ good.rd = s.rd /\ good.buf = s.buf /\ good.t = s.t
      BY ONLY <1>2 DEF SrvRecord
    <3> HIDE DEF good
    <3>3. Reads(s) /\ Buffered(s)
      BY ONLY <2>1, SrvUp(s) DEF SrvUp, SrvSegments
    <3>4. Reads(good) /\ Buffered(good) /\ Sizes(good)
      BY ONLY <1>2, <3>2, <3>3, SameReach DEF Sizes
    <3>5. SrvUp(good)
      BY ONLY <3>2, <3>4 DEF SrvUp, SrvBlocks, UpBlock
    <3> HIDE DEF e
    <3> QED
      BY ONLY <1>4, <1>5, <2>1, <3>1, <3>2, <3>5 DEF UpWork, UpStart
  <2>2. CASE s.st = "UPLOAD_BLK_INITIATE_REQ2"
    <3> DEFINE good == [s EXCEPT !.seq = 0, !.st = "UPLOAD_BLK_SUBBLOCK_SREQ"]
    <3>1. e = Stop(s) \/ (e = good /\ s.rx.c = "blkStart")
      BY ONLY <2>2 DEF SrvTaken
    <3>2. /\ good.st = "UPLOAD_BLK_SUBBLOCK_SREQ" /\ good.od = s.od /\ good.idx = s.idx
          /\ good.fin = s.fin /\ good.pos = s.pos /\ good.len = s.len /\ good.crc = s.crc
      BY ONLY <1>2 DEF SrvRecord
    <3> HIDE DEF good
    <3>3. Reads(s) /\ s.crc = Front_(Val(s), Reach(s))
      BY ONLY <2>2, SrvUp(s) DEF SrvUp, SrvBlocks
    <3>4. Reads(good) /\ Val(good) = Val(s) /\ Reach(good) = Reach(s) /\ Sizes(good)
      BY ONLY <1>2, <3>2, <3>3, SameReach DEF Sizes
    <3>5. SrvUp(good)
      BY ONLY <3>2, <3>3, <3>4 DEF SrvUp, SrvSegments
    <3> HIDE DEF e
    <3> QED
      BY ONLY <1>4, <1>5, <3>1, <3>2, <3>5 DEF UpWork, UpBlock
  <2>3. CASE s.st \in UpBlock
    <3>1. e = ConfirmSubBlock(s)
      BY ONLY <2>3 DEF SrvTaken, UpBlock
    <3>2. BlockConfirmed(e, s)
      BY ONLY <2>3, <3>1, ConfirmSubBlockGoesOn, SrvOK(s), s.rx \in Frames, SrvUp(s)
    <3>3. s.rx.c # "subBlock" => e.st = "ABORT"
      BY ONLY <1>2, <2>3, <3>1, ConfirmSubBlockKeeps, FieldsAre
    <3> HIDE DEF e
    <3>4. Sizes(e)
      BY ONLY <1>2, <3>2 DEF BlockConfirmed, Sizes
    <3>5. SrvUp(e)
      BY ONLY <3>2, <3>4 DEF BlockConfirmed, SrvUp, SrvSegments, SrvBlocks, UpBlock
    <3> QED
      BY ONLY <3>2, <3>3, <3>5 DEF BlockConfirmed, UpWork, UpBlock
  <2>4. CASE s.st \notin {"UPLOAD_SEGMENT_REQ", "UPLOAD_BLK_INITIATE_REQ2"} \cup UpBlock
    <3>1. e = Stop(s)
      BY ONLY <2>4, s.st \in UpWork DEF SrvTaken, UpWork, UpStart, UpBlock
    <3> HIDE DEF e
    <3> QED
      BY ONLY <1>4, <1>5, <3>1
  <2> QED
    BY ONLY <2>1, <2>2, <2>3, <2>4
<1> HIDE DEF e
<1>7. AsFar(r, e)
  BY ONLY <1>3, TakenAsFar
<1> HIDE DEF r
<1>8. SrvUp(r) /\ r.st = e.st /\ r.idx = e.idx /\ r.od = e.od /\ r.tran = e.tran /\ r.t = e.t
  BY ONLY <1>6, <1>7, AsFarUp DEF AsFar
<1> QED
  BY ONLY <1>1, <1>6, <1>8 DEF TookUp

\* A frame of anything else.
LEMMA ElseTakesUp ==
  ASSUME NEW s, SrvOK(s), s.rx \in Frames, SrvUp(s), s.st \notin UpWork,
         s.st = "IDLE" => s.rx.c \notin {"upload", "blkUpload"}
  PROVE  TookUp(SrvTake(s), s)
<1> DEFINE r == SrvTake(s)
<1>1. Took(r, s) /\ Sizes(s)
  BY SrvTakes DEF SrvUp
<1> HIDE DEF r
<1>2. Sizes(r)
  BY ONLY <1>1 DEF Took
<1>3. r.st \notin UpWork /\ (s.rx.c \in {"upload", "blkUpload", "next"} =>
                              r.st \in {"ABORT", "DOWNLOAD_BLK_SUBBLOCK_REQ"})
  <2>1. CASE r.st = "ABORT"
    BY ONLY <2>1 DEF UpWork, UpStart, UpBlock
  <2>2. CASE TookDownload(r, s)
    BY ONLY <2>2 DEF TookDownload, UpWork, UpStart, UpBlock
  <2>3. CASE TookBlkDownload(r, s)
    BY ONLY <2>3 DEF TookBlkDownload, UpWork, UpStart, UpBlock
  <2>4. CASE s.st = "DOWNLOAD_SEGMENT_REQ" /\ Stored(r, s)
    BY ONLY <2>4 DEF Stored, ToggleOk, UpWork, UpStart, UpBlock
  <2>5. CASE s.st = "DOWNLOAD_BLK_SUBBLOCK_REQ" /\ r.st = s.st
    BY ONLY <2>5 DEF UpWork, UpStart, UpBlock
  <2>6. CASE s.st = "DOWNLOAD_BLK_END_REQ" /\ BlockEnded(r, s)
    BY ONLY <2>6 DEF BlockEnded, UpWork, UpStart, UpBlock
  <2>7. CASE TookUpload(r, s)
    BY ONLY <2>7, s.st \notin UpWork, s.st = "IDLE" => s.rx.c \notin {"upload", "blkUpload"}
       DEF TookUpload
  <2> QED
    BY ONLY <1>1, <2>1, <2>2, <2>3, <2>4, <2>5, <2>6, <2>7 DEF Took
<1>4. SrvUp(r)
  BY ONLY <1>2, <1>3, UpIdle
<1>5. s.st \in UpWork \cup Gone /\ s.rx.c \notin Requests =>
        r.od = s.od /\ r.idx = s.idx /\ r.st \in UpWork \cup {"ABORT"}
  BY ONLY <1>1, s.st \notin UpWork DEF Took
<1> QED
  BY ONLY <1>3, <1>4, <1>5 DEF TookUp, r

LEMMA TakesUp ==
  ASSUME NEW s, SrvOK(s), s.rx \in Frames, SrvUp(s), TextsFit
  PROVE  TookUp(SrvTake(s), s)
BY IdleTakesUp, WorkTakesUp, ElseTakesUp

\* What is sent is the next part of the value, and the rest stays.
LEMMA SentOn ==
  ASSUME NEW v \in Data, NEW buf \in Data, NEW rd \in Nat, NEW t \in Nat, NEW r \in Nat, NEW n \in Nat,
         rd + n <= Len(buf), t <= r, r <= Len(v), Rest(buf, rd) = Part(v, t, r)
  PROVE  /\ Len(buf) - rd = r - t /\ t + n \in Nat /\ t + n <= r
         /\ SubSeq(buf, rd + 1, rd + n) = Part(v, t, t + n)
         /\ Rest(buf, rd + n) = Part(v, t + n, r)
<1>1. Len(buf) \in Nat /\ Len(v) \in Nat /\ rd <= Len(buf)
  BY LenIs
<1>2. Len(Rest(buf, rd)) = Len(buf) - rd
  BY ONLY <1>1, RestIs, buf \in Data, rd \in Nat
<1>3. Len(Part(v, t, r)) = r - t
  BY ONLY PartIs, v \in Data, t \in Nat, r \in Nat, t <= r, r <= Len(v)
<1>4. Len(buf) - rd = r - t
  BY ONLY <1>2, <1>3, Rest(buf, rd) = Part(v, t, r)
<1> DEFINE m == t + n
<1>5. m \in Nat /\ t <= m /\ m <= r /\ m <= Len(v) /\ m - t = n
  BY ONLY <1>1, <1>4, rd \in Nat, t \in Nat, r \in Nat, n \in Nat, rd + n <= Len(buf), r <= Len(v)
<1> HIDE DEF m
<1>6. Part(v, t, m) \o Part(v, m, r) = Part(v, t, r)
  BY ONLY <1>5, PartsJoin, v \in Data, t \in Nat, r \in Nat, r <= Len(v)
<1>7. Part(v, t, m) \in Data /\ Len(Part(v, t, m)) = n /\ Part(v, m, r) \in Data
  BY ONLY <1>5, PartIs, v \in Data, t \in Nat, r \in Nat, r <= Len(v)
<1> DEFINE a == Part(v, t, m)
           b == Part(v, m, r)
           c == Part(v, t, r)
<1>8. a \in Data /\ b \in Data /\ Len(a) = n /\ a \o b = c
  BY ONLY <1>6, <1>7
<1> HIDE DEF a, b, c
<1>9. Front_(c, n) = a /\ Rest(c, n) = b
  BY ONLY <1>8, CatParts
<1>10. Front_(Rest(buf, rd), n) = Part(buf, rd, rd + n) /\ Rest(Rest(buf, rd), n) = Rest(buf, rd + n)
  BY ONLY FrontOfRest, RestOfRest, buf \in Data, rd \in Nat, n \in Nat, rd + n <= Len(buf)
<1>11. Part(buf, rd, rd + n) = a /\ Rest(buf, rd + n) = b
  BY ONLY <1>9, <1>10, Rest(buf, rd) = Part(v, t, r) DEF c
<1>12. Part(buf, rd, rd + n) = SubSeq(buf, rd + 1, rd + n)
  BY DEF Part
<1> QED
  BY ONLY <1>4, <1>5, <1>11, <1>12 DEF a, b, m

\* The answer to the request, to the next segment, and to that of a block.
SaidUpload(e, s) ==
  \E g \in Frames :
    /\ e.out = <<g>> /\ g.c = "uploadOk"
    /\ IF g.exp = 1 THEN g.data = Val(s) /\ e.st = "IDLE"
       ELSE e.st = "UPLOAD_SEGMENT_REQ" /\ e.tran = 0 /\ e.t = 0

SaidBlock(e, s) ==
  e.st = "UPLOAD_BLK_INITIATE_REQ2" /\ \E g \in Frames : e.out = <<g>> /\ g.c = "blkUploadOk"

SaidSegment(e, s) ==
  \E g \in Frames :
    /\ e.out = <<g>> /\ g.c = "segment"
    /\ s.tran + Len(g.data) <= Len(Val(s))
    /\ g.data = Part(Val(s), s.tran, s.tran + Len(g.data))
    /\ g.last = 1 => s.tran + Len(g.data) = Len(Val(s))
    /\ e.st \in {"IDLE", "UPLOAD_SEGMENT_REQ"}
    /\ e.st = "UPLOAD_SEGMENT_REQ" => e.tran = s.tran + Len(g.data) /\ e.t = 1 - s.t

LEMMA AnswerUploadSays ==
  ASSUME NEW s, SrvOK(s), SrvUp(s), s.st = "UPLOAD_INITIATE_RSP"
  PROVE  SrvUp(AnswerUpload(s)) /\ SaidUpload(AnswerUpload(s), s)
<1> DEFINE a == [s EXCEPT !.st = "IDLE"]
           b == [s EXCEPT !.st = "UPLOAD_SEGMENT_REQ", !.t = 0]
           f == [Frame("uploadOk") EXCEPT !.idx = s.idx, !.exp = 1, !.ind = s.ind,
                                          !.data = Front_(s.buf, s.ind)]
           g == [Frame("uploadOk") EXCEPT !.idx = s.idx, !.ind = s.ind]
           r == AnswerUpload(s)
<1>1. s \in SrvRecord /\ s.buf \in Data /\ s.ind \in Nat /\ Sizes(s)
      /\ Reads(s) /\ Buffered(s) /\ AtStart(s)
  BY DEF SrvOK, SrvBase, SrvRecord, SrvUp, SrvSegments
<1>2. r = IF s.ind > 0 /\ s.ind <= Exped THEN Send(a, f) ELSE Send(b, g)
  BY DEF AnswerUpload
<1>3. Frame("uploadOk") \in FrameRecord /\ Frame("uploadOk").c = "uploadOk" /\ Frame("uploadOk").exp = 0
  BY FrameOf DEF Commands
<1>4. f.c = "uploadOk" /\ f.exp = 1 /\ f.data = Front_(s.buf, s.ind) /\ g.c = "uploadOk" /\ g.exp = 0
  BY ONLY <1>3 DEF FrameRecord
<1>5. SrvOK(r)
  BY ONLY <1>2, SrvOK(s), s.st = "UPLOAD_INITIATE_RSP", AnswerUploadOK DEF r
<1>6. r.out \in Seq(Frames)
  BY ONLY <1>5 DEF SrvOK, SrvBase, SrvRecord
<1> HIDE DEF f, g, r
<1>7. CASE s.ind > 0 /\ s.ind <= Exped
  <2>1. r = Send(a, f)
    BY ONLY <1>2, <1>7
  <2>2. a.st = "IDLE" /\ a.od = s.od /\ DOMAIN a = SrvFields
    BY ONLY <1>1 DEF SrvRecord, SrvFields
  <2> HIDE DEF a
  <2>3. r.st = "IDLE" /\ r.od = s.od /\ r.out = <<f>>
    BY ONLY <2>1, <2>2 DEF Send, SrvFields
  <2>4. SrvUp(r)
    <3>1. Sizes(r)
      BY ONLY <1>1, <2>3 DEF Sizes
    <3> QED
      BY ONLY <2>3, <3>1, UpIdle DEF UpWork, UpStart, UpBlock
  <2>5. f \in Frames
    BY ONLY <1>6, <2>3
  <2>6. f.data = Val(s)
    <3>1. s.fin = 1 /\ s.ind = Len(s.buf) /\ s.rd = 0 /\ s.tran = 0
      BY ONLY <1>1, <1>7 DEF AtStart
    <3>2. Rest(s.buf, 0) = Part(Val(s), 0, Len(Val(s)))
      BY ONLY <1>1, <3>1 DEF Buffered, Reach
    <3>3. Val(s) \in Data
      BY ONLY <1>1, ValIs DEF Reads
    <3>4. s.buf = Val(s)
      BY ONLY <1>1, <3>2, <3>3, WholeIs
    <3>5. Front_(s.buf, Len(s.buf)) = s.buf
      BY ONLY <1>1, WholeIs
    <3> QED
      BY ONLY <1>4, <3>1, <3>4, <3>5
  <2>7. SaidUpload(r, s)
    BY ONLY <1>4, <2>3, <2>5, <2>6 DEF SaidUpload
  <2> QED
    BY ONLY <2>4, <2>7 DEF r
<1>8. CASE ~(s.ind > 0 /\ s.ind <= Exped)
  <2>1. r = Send(b, g)
    BY ONLY <1>2, <1>8
  <2>2. /\ b.st = "UPLOAD_SEGMENT_REQ" /\ b.od = s.od /\ b.idx = s.idx /\ b.t = 0
        /\ b.fin = s.fin /\ b.pos = s.pos /\ b.len = s.len /\ b.tran = s.tran
        /\ b.rd = s.rd /\ b.buf = s.buf /\ DOMAIN b = SrvFields
    BY ONLY <1>1 DEF SrvRecord, SrvFields
  <2> HIDE DEF b
  <2>3. /\ r.st = "UPLOAD_SEGMENT_REQ" /\ r.od = s.od /\ r.idx = s.idx /\ r.t = 0
        /\ r.fin = s.fin /\ r.pos = s.pos /\ r.len = s.len /\ r.tran = s.tran
        /\ r.rd = s.rd /\ r.buf = s.buf /\ r.out = <<g>>
    BY ONLY <2>1, <2>2 DEF Send, SrvFields
  <2>4. Reads(r) /\ Buffered(r) /\ Sizes(r) /\ r.tran = 0
    <3>1. r.tran = 0
      BY ONLY <1>1, <2>3 DEF AtStart
    <3> QED
      BY ONLY <1>1, <2>3, <3>1, SameReach DEF Sizes
  <2>5. SrvUp(r)
    BY ONLY <2>3, <2>4 DEF SrvUp, SrvBlocks, UpBlock
  <2>6. g \in Frames
    BY ONLY <1>6, <2>3
  <2>7. SaidUpload(r, s)
    BY ONLY <1>4, <2>3, <2>4, <2>6 DEF SaidUpload
  <2> QED
    BY ONLY <2>5, <2>7 DEF r
<1> QED
  BY ONLY <1>7, <1>8

LEMMA AnswerSegmentSays ==
  ASSUME NEW s, SrvOK(s), SrvUp(s), s.st = "UPLOAD_SEGMENT_RSP"
  PROVE  LET r == AnswerSegment(s) IN r.st = "ABORT" \/ (SrvUp(r) /\ SaidSegment(r, s))
<1> DEFINE q == readFromOd(s, Seg, FALSE)
           left == Len(q.buf) - q.rd
           last == left < Seg \/ (q.fin = 1 /\ left = Seg)
           n == Low(left, Seg)
           st == IF last THEN "IDLE" ELSE "UPLOAD_SEGMENT_REQ"
           one == IF last THEN 1 ELSE 0
           rd == q.rd + n
           tran == q.tran + n
           a == [q EXCEPT !.t = 1 - q.t, !.rd = rd, !.tran = tran, !.st = st]
           wrong == a.ind > 0 /\ (a.tran > a.ind \/ (last /\ a.tran < a.ind))
           d == SubSeq(q.buf, q.rd + 1, q.rd + n)
           f == [Frame("segment") EXCEPT !.t = q.t, !.last = one, !.data = d]
           r == AnswerSegment(s)
           v == Val(s)
<1>1. s \in SrvRecord /\ Sizes(s) /\ Reads(s) /\ Buffered(s)
  BY DEF SrvOK, SrvBase, SrvUp, SrvSegments
<1>2. Readable(s) /\ Seg \in Nat /\ Seg > 0 /\ FALSE \in BOOLEAN
  BY SdoAssumption DEF SrvOK, SrvBase, SrvAt, Readable, UpStart
<1>3. Begun(s)
  BY ONLY <1>1, <1>2 DEF Begun, Reads, Whole
<1>4. Read(q, s, Seg) /\ ReadOn(q, s, FALSE)
  BY ONLY <1>2, <1>3, ReadIs, ReadGoesOn
<1>5. SrvOK(r)
  BY AnswerSegmentOK
<1>6. r.out \in Seq(Frames)
  BY ONLY <1>5 DEF SrvOK, SrvBase, SrvRecord
<1>7. q \in SrvRecord
  BY ONLY <1>4 DEF Read
<1>8. r = IF q.st = "ABORT" THEN q ELSE IF wrong THEN Stop(a) ELSE Send(a, f)
  <2>1. a = [q EXCEPT !.t = 1 - @, !.rd = @ + n, !.tran = @ + n, !.st = st]
    BY ONLY <1>7 DEF SrvRecord
  <2> HIDE DEF a, q
  <2> QED
    BY ONLY <2>1 DEF AnswerSegment, r, q
<1> HIDE DEF q, r
<1>9. CASE q.st = "ABORT"
  BY ONLY <1>8, <1>9 DEF r
<1>10. CASE q.st # "ABORT"
  <2>1. /\ q.od = s.od /\ q.idx = s.idx /\ q.tran = s.tran /\ q.t = s.t
        /\ q.rd <= Len(q.buf) /\ Reads(q) /\ Buffered(q)
        /\ q.fin = 0 => Len(q.buf) - q.rd >= Seg
    BY ONLY <1>1, <1>4, <1>10 DEF Read, ReadOn
  <2>2. q.buf \in Data /\ q.rd \in Nat /\ q.tran \in Nat /\ q.fin \in Bit /\ Len(q.buf) \in Nat
        /\ q.pos \in Nat
    BY ONLY <1>7, LenIs DEF SrvRecord
  <2>3. v \in Data /\ Len(v) \in Nat /\ Val(q) = v
    BY ONLY <1>1, <2>1, ValIs, SameVal DEF Reads
  <2>4. Reach(q) \in Nat /\ Reach(q) <= Len(v) /\ q.tran <= Reach(q)
        /\ Rest(q.buf, q.rd) = Part(v, q.tran, Reach(q)) /\ (q.fin = 1 => Reach(q) = Len(v))
    <3>1. Readable(q)
      BY ONLY <1>4, <1>7, <1>10, <2>1 DEF Read, Readable
    <3>2. q.idx \in Obj /\ (q.fin = 0 => Whole(q))
      BY ONLY <2>1 DEF Reads
    <3>3. Reach(q) \in Nat /\ Reach(q) <= Len(Val(q))
      BY ONLY <2>2, <3>1, <3>2, ReachIs DEF Whole, Bit
    <3> QED
      BY ONLY <2>1, <2>3, <3>3 DEF Buffered, Reach
  <2>5. n \in Nat /\ n <= left /\ n <= Seg /\ left \in Nat /\ (left < Seg => n = left) /\ (left = Seg => n = left)
    BY ONLY <1>2, <2>1, <2>2, LowIs DEF Low
  <2> DEFINE p == q.tran
             b == q.rd
             u == Reach(q)
             w == q.buf
  <2>6. b + n <= Len(w)
    <3> HIDE DEF n
    <3> QED
      BY ONLY <2>2, <2>5
  <2>7. /\ w \in Data /\ b \in Nat /\ p \in Nat /\ u \in Nat /\ p <= u /\ u <= Len(v)
        /\ Rest(w, b) = Part(v, p, u)
    BY ONLY <2>2, <2>4
  <2> HIDE DEF p, b, u, w, n, v
  <2>8. /\ Len(w) - b = u - p /\ p + n \in Nat /\ p + n <= u
        /\ SubSeq(w, b + 1, b + n) = Part(v, p, p + n)
        /\ Rest(w, b + n) = Part(v, p + n, u)
    BY ONLY <2>3, <2>5, <2>6, <2>7, SentOn, SMTT(30)
  <2>9. d = Part(v, p, p + n)
    BY ONLY <2>8 DEF w, b
  <2>10. Len(d) = n
    <3> DEFINE m == p + n
    <3>1. m \in Nat /\ p <= m /\ m <= Len(v) /\ m - p = n
      BY ONLY <2>3, <2>5, <2>7, <2>8
    <3> HIDE DEF m
    <3>2. Len(Part(v, p, m)) = m - p
      BY ONLY <2>3, <2>7, <3>1, PartIs
    <3> HIDE DEF d
    <3> QED
      BY ONLY <2>9, <3>1, <3>2 DEF m
  <2>11. p + n <= Len(v) /\ (last => q.fin = 1 /\ p + n = Len(v))
    <3>1. left = u - p /\ p \in Nat /\ u \in Nat
      BY ONLY <2>7, <2>8 DEF w, b
    <3>2. last => n = left /\ q.fin = 1
      BY ONLY <1>2, <2>1, <2>2, <2>5 DEF Bit
    <3>3. q.fin = 1 => u = Len(v)
      BY ONLY <2>4 DEF u
    <3> HIDE DEF left, last
    <3> QED
      BY ONLY <2>3, <2>5, <2>7, <2>8, <3>1, <3>2, <3>3
  <2>12. /\ a.t = 1 - q.t /\ a.rd = b + n /\ a.tran = p + n /\ a.st = st /\ a.buf = q.buf
         /\ a.od = q.od /\ a.idx = q.idx /\ a.fin = q.fin /\ a.pos = q.pos /\ a.len = q.len
         /\ DOMAIN a = SrvFields
    BY ONLY <1>7 DEF SrvRecord, SrvFields, b, p
  <2> HIDE DEF a, wrong
  <2>13. CASE wrong
    <3>1. r = Stop(a)
      BY ONLY <1>8, <1>10, <2>13
    <3>2. Stop(a).st = "ABORT"
      BY ONLY <2>12, StopKept
    <3> QED
      BY ONLY <3>1, <3>2 DEF r
  <2>14. CASE ~wrong
    <3>1. r = Send(a, f)
      BY ONLY <1>8, <1>10, <2>14
    <3>2. /\ f.c = "segment" /\ f.last = one /\ f.data = d
      <4>1. Frame("segment") \in FrameRecord /\ Frame("segment").c = "segment"
        BY FrameOf DEF Commands
      <4> HIDE DEF one, d
      <4> QED
        BY ONLY <4>1 DEF FrameRecord
    <3> HIDE DEF f, d
    <3>3. /\ r.t = 1 - q.t /\ r.rd = b + n /\ r.tran = p + n /\ r.st = st /\ r.buf = q.buf
          /\ r.od = q.od /\ r.idx = q.idx /\ r.fin = q.fin /\ r.pos = q.pos /\ r.len = q.len
          /\ r.out = <<f>>
      BY ONLY <2>12, <3>1 DEF Send, SrvFields
    <3>4. f \in Frames
      BY ONLY <1>6, <3>3
    <3>5. Val(r) = v /\ Reach(r) = u /\ Reads(r)
      BY ONLY <2>1, <2>3, <3>3, SameReach DEF u
    <3>6. Buffered(r)
      BY ONLY <2>8, <3>3, <3>5 DEF Buffered, w
    <3>7. SrvUp(r)
      <4>1. Sizes(r)
        BY ONLY <1>1, <2>1, <3>3 DEF Sizes
      <4>2. r.st = "IDLE" \/ r.st = "UPLOAD_SEGMENT_REQ"
        BY ONLY <3>3
      <4> QED
        BY ONLY <3>5, <3>6, <4>1, <4>2 DEF SrvUp, SrvBlocks, SrvSegments, UpBlock
    <3>8. SaidSegment(r, s)
      <4>1. s.tran = p /\ s.t = q.t
        BY ONLY <2>1 DEF p
      <4>2. f.last = 1 => p + n = Len(v)
        BY ONLY <2>11, <3>2
      <4>3. r.st \in {"IDLE", "UPLOAD_SEGMENT_REQ"}
        BY ONLY <3>3
      <4>4. f.data = Part(v, p, p + n) /\ Len(f.data) = n
        BY ONLY <2>9, <2>10, <3>2
      <4> QED
        BY ONLY <2>11, <3>2, <3>3, <3>4, <4>1, <4>2, <4>3, <4>4 DEF SaidSegment, v
    <3> QED
      BY ONLY <3>7, <3>8 DEF r
  <2> QED
    BY ONLY <2>13, <2>14
<1> QED
  BY ONLY <1>9, <1>10

LEMMA SendBlockSegmentUp ==
  ASSUME NEW s, SrvOK(s), SrvUp(s), s.st = "UPLOAD_BLK_SUBBLOCK_SREQ"
  PROVE  LET r == SendBlockSegment(s) IN
         r.st = "ABORT" \/ (SrvUp(r) /\ \E g \in Frames : r.out = <<g>> /\ g.c = "block")
<1> DEFINE left == Len(s.buf) - s.rd
           last == left < Seg \/ (s.fin = 1 /\ left = Seg)
           n == Low(left, Seg)
           a == [s EXCEPT !.seq = @ + 1, !.rd = @ + n, !.nod = Seg - n, !.tran = @ + n]
           done == a.rd = Len(a.buf)
           wrong == a.ind > 0 /\ (a.tran > a.ind \/ (done /\ a.tran < a.ind))
           st == IF done \/ a.seq >= a.blk THEN "UPLOAD_BLK_SUBBLOCK_CRSP" ELSE a.st
           b == [a EXCEPT !.st = st]
           one == IF last THEN 1 ELSE 0
           d == Pad(SubSeq(s.buf, s.rd + 1, s.rd + n))
           f == [Frame("block") EXCEPT !.seq = a.seq, !.last = one, !.data = d]
           r == SendBlockSegment(s)
<1>1. r = IF wrong THEN Stop(a) ELSE Send(b, f)
  BY DEF SendBlockSegment
<1>2. s \in SrvRecord /\ DOMAIN s = SrvFields /\ Sizes(s) /\ Reads(s) /\ s.crc = Front_(Val(s), Reach(s))
  BY FieldsAre DEF SrvOK, SrvBase, SrvUp, SrvBlocks, UpBlock
<1>3. SrvOK(r)
  BY SendBlockSegmentOK
<1>4. r.out \in Seq(Frames)
  BY ONLY <1>3 DEF SrvOK, SrvBase, SrvRecord
<1> HIDE DEF r, n, wrong, done
<1>5. /\ a.od = s.od /\ a.idx = s.idx /\ a.st = s.st /\ DOMAIN a = SrvFields
      /\ a.fin = s.fin /\ a.pos = s.pos /\ a.len = s.len /\ a.crc = s.crc
  BY ONLY <1>2 DEF SrvFields
<1> HIDE DEF a
<1>6. st \in UpBlock
  BY ONLY <1>5, s.st = "UPLOAD_BLK_SUBBLOCK_SREQ" DEF UpBlock
<1>7. f.c = "block"
  <2>1. Frame("block") \in FrameRecord /\ Frame("block").c = "block"
    BY FrameOf DEF Commands
  <2> HIDE DEF one, d
  <2> QED
    BY ONLY <2>1 DEF FrameRecord
<1> HIDE DEF st, f
<1>8. /\ b.od = s.od /\ b.idx = s.idx /\ b.st = st /\ DOMAIN b = SrvFields
      /\ b.fin = s.fin /\ b.pos = s.pos /\ b.len = s.len /\ b.crc = s.crc
  BY ONLY <1>5 DEF SrvFields
<1> HIDE DEF b
<1>9. CASE wrong
  <2>1. r = Stop(a)
    BY ONLY <1>1, <1>9
  <2>2. Stop(a).st = "ABORT"
    BY ONLY <1>5, StopKept
  <2> QED
    BY ONLY <2>1, <2>2 DEF r
<1>10. CASE ~wrong
  <2>1. r = Send(b, f)
    BY ONLY <1>1, <1>10
  <2>2. /\ r.od = s.od /\ r.idx = s.idx /\ r.st = st /\ r.out = <<f>>
        /\ r.fin = s.fin /\ r.pos = s.pos /\ r.len = s.len /\ r.crc = s.crc
    BY ONLY <1>8, <2>1 DEF Send, SrvFields
  <2>3. Val(r) = Val(s) /\ Reach(r) = Reach(s) /\ Reads(r) /\ Sizes(r)
    BY ONLY <1>2, <2>2, SameReach DEF Sizes
  <2>4. SrvUp(r)
    BY ONLY <1>2, <1>6, <2>2, <2>3 DEF SrvUp, SrvSegments, UpBlock
  <2>5. f \in Frames
    BY ONLY <1>4, <2>2
  <2> QED
    BY ONLY <1>7, <2>2, <2>4, <2>5 DEF r
<1> QED
  BY ONLY <1>9, <1>10

\* where either end stands while an answer is due
UpAsks == {"UPLOAD_INITIATE_RSP", "UPLOAD_BLK_INITIATE_RSP", "UPLOAD_SEGMENT_RSP"}

\* What the server says next, for an upload.
GaveUp(e, s) ==
  /\ SrvUp(e)
  /\ s.st \in UpWork \cup Gone =>
       /\ e.od = s.od /\ e.st \in UpWork \cup Gone
       /\ \A g : e.out = <<g>> /\ g.c = "blkEnd" => g.crc = Val(s)
  /\ s.st = "UPLOAD_INITIATE_RSP" => SaidUpload(e, s)
  /\ s.st = "UPLOAD_BLK_INITIATE_RSP" => SaidBlock(e, s)
  /\ s.st = "UPLOAD_SEGMENT_RSP" => (e.st = "IDLE" /\ e.out = <<abort>>) \/ SaidSegment(e, s)

LEMMA OnlyFrame ==
  ASSUME NEW f, NEW g, <<f>> = <<g>>
  PROVE  f = g
<1>1. <<f>>[1] = <<g>>[1]
  OBVIOUS
<1> QED
  BY <1>1

\* The first answer to a block upload, and the end of its blocks.
LEMMA BlockSays ==
  ASSUME NEW s, SrvOK(s), SrvUp(s), s.st = "UPLOAD_BLK_INITIATE_RSP"
  PROVE  SrvUp(SrvSend(s)) /\ SaidBlock(SrvSend(s), s)
<1> DEFINE p == [s EXCEPT !.st = "UPLOAD_BLK_INITIATE_REQ2"]
           f == [Frame("blkUploadOk") EXCEPT !.idx = s.idx, !.ind = s.ind]
           q == SrvSend(s)
<1>1. q = Send(p, f)
  BY DEF SrvSend
<1>2. q.out \in Seq(Frames)
  BY SrvSendOK DEF SrvOK, SrvBase, SrvRecord
<1>3. f.c = "blkUploadOk"
  <2>1. Frame("blkUploadOk") \in FrameRecord /\ Frame("blkUploadOk").c = "blkUploadOk"
    BY FrameOf DEF Commands
  <2> QED
    BY ONLY <2>1 DEF FrameRecord
<1>4. DOMAIN s = SrvFields /\ Sizes(s) /\ Reads(s) /\ s.crc = Front_(Val(s), Reach(s))
  BY FieldsAre DEF SrvOK, SrvBase, SrvUp, SrvBlocks
<1> HIDE DEF f, q
<1>5. /\ p.od = s.od /\ p.idx = s.idx /\ p.st = "UPLOAD_BLK_INITIATE_REQ2" /\ DOMAIN p = SrvFields
      /\ p.fin = s.fin /\ p.pos = s.pos /\ p.len = s.len /\ p.crc = s.crc
  BY ONLY <1>4 DEF SrvFields
<1> HIDE DEF p
<1>6. /\ q.od = s.od /\ q.idx = s.idx /\ q.st = "UPLOAD_BLK_INITIATE_REQ2" /\ q.out = <<f>>
      /\ q.fin = s.fin /\ q.pos = s.pos /\ q.len = s.len /\ q.crc = s.crc
  BY ONLY <1>1, <1>5 DEF Send, SrvFields
<1>7. Val(q) = Val(s) /\ Reach(q) = Reach(s) /\ Reads(q) /\ Sizes(q)
  BY ONLY <1>4, <1>6, SameReach DEF Sizes
<1>8. SrvUp(q)
  BY ONLY <1>4, <1>6, <1>7 DEF SrvUp, SrvSegments
<1>9. f \in Frames
  BY ONLY <1>2, <1>6
<1> QED
  BY ONLY <1>3, <1>6, <1>8, <1>9 DEF SaidBlock, q

LEMMA BlockEndSays ==
  ASSUME NEW s, SrvOK(s), SrvUp(s), s.st = "UPLOAD_BLK_END_SREQ"
  PROVE  LET q == SrvSend(s) IN
         SrvUp(q) /\ q.st = "UPLOAD_BLK_END_CRSP" /\ \E g : q.out = <<g>> /\ g.crc = Val(s)
<1> DEFINE p == [s EXCEPT !.st = "UPLOAD_BLK_END_CRSP"]
           f == [Frame("blkEnd") EXCEPT !.ind = s.nod, !.crc = s.crc]
           q == SrvSend(s)
<1>1. q = Send(p, f)
  BY DEF SrvSend
<1>3. f.crc = s.crc
  <2>1. Frame("blkEnd") \in FrameRecord
    BY FrameOf DEF Commands
  <2> QED
    BY ONLY <2>1 DEF FrameRecord
<1>4. DOMAIN s = SrvFields /\ Sizes(s) /\ s.crc = Val(s)
  BY FieldsAre DEF SrvOK, SrvBase, SrvUp
<1> HIDE DEF f, q
<1>5. p.od = s.od /\ p.st = "UPLOAD_BLK_END_CRSP" /\ DOMAIN p = SrvFields
  BY ONLY <1>4 DEF SrvFields
<1> HIDE DEF p
<1>6. q.od = s.od /\ q.st = "UPLOAD_BLK_END_CRSP" /\ q.out = <<f>>
  BY ONLY <1>1, <1>5 DEF Send, SrvFields
<1>7. SrvUp(q)
  BY ONLY <1>4, <1>6 DEF SrvUp, SrvSegments, SrvBlocks, UpBlock, Sizes
<1> QED
  BY ONLY <1>3, <1>4, <1>6, <1>7 DEF q

LEMMA GivesUp ==
  ASSUME NEW s, SrvOK(s), SrvUp(s), s.out = <<>>
  PROVE  GaveUp(SendAbort(SrvSend(s)), s)
<1> DEFINE q == SrvSend(s)
           e == SendAbort(q)
<1> SUFFICES GaveUp(e, s)
  OBVIOUS
<1>1. DOMAIN q = SrvFields
  BY SrvSendOK, FieldsAre DEF SrvOK, SrvBase
<1>2. /\ q.st # "ABORT" => e = q
      /\ q.st = "ABORT" => e.st = "IDLE" /\ e.out = <<abort>>
  BY ONLY <1>1, SendAbortDoes
<1>3. Gave(e, s)
  BY ONLY SrvOK(s), SrvGives
<1> HIDE DEF e
<1>4. Sizes(s) /\ Sizes(e) /\ (s.st \in UpWork \cup Gone => e.od = s.od)
  <2>1. Sizes(s)
    BY DEF SrvUp
  <2>2. Sizes(e)
    BY ONLY <1>3, <2>1 DEF Gave
  <2>3. s.st \in UpWork \cup Gone => e.od = s.od
    BY ONLY <1>3
       DEF Gave, GaveAbort, GaveInitiated, GaveSegment, GaveBlock, GaveSubBlock, GaveEnd, GaveUpload, UpWork, UpStart,
           UpBlock, Gone
  <2> QED
    BY ONLY <2>1, <2>2, <2>3
<1>5. ASSUME q.st = "ABORT", s.st \notin {"UPLOAD_INITIATE_RSP", "UPLOAD_BLK_INITIATE_RSP"}
      PROVE  GaveUp(e, s)
  <2>1. e.st = "IDLE" /\ e.out = <<abort>>
    BY ONLY <1>2, <1>5
  <2>2. SrvUp(e)
    BY ONLY <1>4, <2>1, UpIdle DEF UpWork, UpStart, UpBlock
  <2>3. \A g : e.out = <<g>> => g.c # "blkEnd"
    <3> SUFFICES ASSUME NEW g, e.out = <<g>>
                 PROVE  g.c # "blkEnd"
      OBVIOUS
    <3>1. g = abort
      BY ONLY <2>1, e.out = <<g>>, OnlyFrame
    <3> QED
      BY <3>1, AbortIsNoise
  <2> QED
    BY ONLY <1>4, <1>5, <2>1, <2>2, <2>3 DEF GaveUp, Gone
<1>6. ASSUME NEW g, e.out = <<g>>, g.c # "blkEnd", SrvUp(e), e.st \in UpWork \cup Gone,
             s.st = "UPLOAD_INITIATE_RSP" => SaidUpload(e, s),
             s.st = "UPLOAD_BLK_INITIATE_RSP" => SaidBlock(e, s),
             s.st = "UPLOAD_SEGMENT_RSP" => SaidSegment(e, s)
      PROVE  GaveUp(e, s)
  <2>1. \A h : e.out = <<h>> => h.c # "blkEnd"
    BY ONLY <1>6, OnlyFrame
  <2> QED
    BY ONLY <1>4, <1>6, <2>1 DEF GaveUp
<1>7. CASE s.st = "UPLOAD_INITIATE_RSP"
  <2>1. q = AnswerUpload(s)
    BY ONLY <1>7 DEF SrvSend
  <2>2. SrvUp(q) /\ SaidUpload(q, s)
    BY ONLY <1>7, <2>1, SrvOK(s), SrvUp(s), AnswerUploadSays
  <2> HIDE DEF q
  <2>3. PICK g \in Frames : q.out = <<g>> /\ g.c = "uploadOk" /\ q.st \in {"IDLE", "UPLOAD_SEGMENT_REQ"}
    BY ONLY <2>2 DEF SaidUpload
  <2>4. e = q
    BY ONLY <1>2, <2>3
  <2>5. g.c # "blkEnd" /\ e.st \in UpWork \cup Gone
    BY ONLY <2>3, <2>4 DEF UpWork, UpStart, Gone
  <2> QED
    BY ONLY <1>6, <1>7, <2>2, <2>3, <2>4, <2>5
<1>8. CASE s.st = "UPLOAD_BLK_INITIATE_RSP"
  <2>2. SrvUp(q) /\ SaidBlock(q, s)
    BY ONLY <1>8, SrvOK(s), SrvUp(s), BlockSays
  <2> HIDE DEF q
  <2>3. PICK g \in Frames : q.out = <<g>> /\ g.c = "blkUploadOk" /\ q.st = "UPLOAD_BLK_INITIATE_REQ2"
    BY ONLY <2>2 DEF SaidBlock
  <2>4. e = q
    BY ONLY <1>2, <2>3
  <2>5. g.c # "blkEnd" /\ e.st \in UpWork \cup Gone
    BY ONLY <2>3, <2>4 DEF UpWork, UpStart
  <2> QED
    BY ONLY <1>6, <1>8, <2>2, <2>3, <2>4, <2>5
<1>9. CASE s.st = "UPLOAD_SEGMENT_RSP"
  <2>1. q = AnswerSegment(s)
    BY ONLY <1>9 DEF SrvSend
  <2>2. q.st = "ABORT" \/ (SrvUp(q) /\ SaidSegment(q, s))
    BY ONLY <1>9, <2>1, SrvOK(s), SrvUp(s), AnswerSegmentSays
  <2> HIDE DEF q
  <2>3. CASE q.st # "ABORT"
    <3>1. PICK g \in Frames : q.out = <<g>> /\ g.c = "segment" /\ q.st \in {"IDLE", "UPLOAD_SEGMENT_REQ"}
      BY ONLY <2>2, <2>3 DEF SaidSegment
    <3>2. e = q
      BY ONLY <1>2, <2>3
    <3>3. g.c # "blkEnd" /\ e.st \in UpWork \cup Gone
      BY ONLY <3>1, <3>2 DEF UpWork, UpStart, Gone
    <3> QED
      BY ONLY <1>6, <1>9, <2>2, <2>3, <3>1, <3>2, <3>3
  <2> QED
    BY ONLY <1>5, <1>9, <2>3
<1>10. CASE s.st = "UPLOAD_BLK_SUBBLOCK_SREQ"
  <2>1. q = SendBlockSegment(s)
    BY ONLY <1>10 DEF SrvSend
  <2>2. q.st = "ABORT" \/ (SrvUp(q) /\ \E g \in Frames : q.out = <<g>> /\ g.c = "block")
    BY ONLY <1>10, <2>1, SrvOK(s), SrvUp(s), SendBlockSegmentUp
  <2>4. q.st \in UpWork \cup {"IDLE", "ABORT"}
    <3>1. UpSent(SendBlockSegment(s), s)
      BY <1>10, FieldsAre, SendBlockSegmentSends DEF SrvOK, SrvBase
    <3> QED
      BY ONLY <2>1, <3>1 DEF UpSent
  <2> HIDE DEF q
  <2>3. CASE q.st # "ABORT"
    <3>1. PICK g \in Frames : q.out = <<g>> /\ g.c = "block"
      BY ONLY <2>2, <2>3
    <3>2. e = q
      BY ONLY <1>2, <2>3
    <3>3. g.c # "blkEnd" /\ e.st \in UpWork \cup Gone
      BY ONLY <2>3, <2>4, <3>1, <3>2 DEF Gone
    <3> QED
      BY ONLY <1>6, <1>10, <2>2, <2>3, <3>1, <3>2, <3>3
  <2> QED
    BY ONLY <1>5, <1>10, <2>3
<1>11. CASE s.st = "UPLOAD_BLK_END_SREQ"
  <2>1. PICK g : SrvUp(q) /\ q.st = "UPLOAD_BLK_END_CRSP" /\ q.out = <<g>> /\ g.crc = Val(s)
    BY ONLY <1>11, SrvOK(s), SrvUp(s), BlockEndSays
  <2> HIDE DEF q
  <2>2. e = q
    BY ONLY <1>2, <2>1
  <2>3. \A h : e.out = <<h>> => h.crc = Val(s)
    BY ONLY <2>1, <2>2, OnlyFrame
  <2> QED
    BY ONLY <1>4, <1>11, <2>1, <2>2, <2>3 DEF GaveUp, UpWork
<1>12. CASE s.st \in SrvWaits
  <2>1. q = s
    BY ONLY <1>12 DEF SrvSend, SrvWaits
  <2>2. s.st # "ABORT" /\ s.st \notin UpAsks
    BY ONLY <1>12 DEF SrvWaits, UpAsks
  <2> HIDE DEF q
  <2>3. e = s
    BY ONLY <1>2, <2>1, <2>2
  <2>4. \A g : e.out # <<g>>
    BY ONLY <2>3, s.out = <<>>
  <2> QED
    BY ONLY <2>2, <2>3, <2>4, SrvUp(s) DEF GaveUp, UpAsks
<1>13. CASE s.st = "ABORT"
  <2>1. q = s
    BY ONLY <1>13 DEF SrvSend
  <2> HIDE DEF q
  <2> QED
    BY ONLY <1>5, <1>13, <2>1
<1>14. CASE s.st \in {"DOWNLOAD_INITIATE_RSP", "DOWNLOAD_SEGMENT_RSP", "DOWNLOAD_BLK_INITIATE_RSP",
                      "DOWNLOAD_BLK_SUBBLOCK_RSP", "DOWNLOAD_BLK_END_RSP"}
  <2>1. s.st \notin UpWork \cup Gone /\ s.st \notin SrvWaits
    BY ONLY <1>14 DEF UpWork, UpStart, UpBlock, Gone, SrvWaits
  <2>2. e.st \notin UpWork
    BY ONLY <1>3, <2>1
       DEF Gave, GaveAbort, GaveInitiated, GaveSegment, GaveBlock, GaveSubBlock, GaveEnd, GaveUpload, UpWork, UpStart,
           UpBlock
  <2>3. SrvUp(e)
    BY ONLY <1>4, <2>2, UpIdle
  <2> QED
    BY ONLY <1>14, <2>1, <2>3 DEF GaveUp
<1> HIDE DEF q
<1>15. s.st \in States /\ s.st \notin DownRequest \cup UpRequest
  BY DEF SrvOK, SrvAt, SrvBase, SrvRecord
<1>16. \/ s.st \in SrvWaits
       \/ s.st \in {"DOWNLOAD_INITIATE_RSP", "DOWNLOAD_SEGMENT_RSP", "DOWNLOAD_BLK_INITIATE_RSP",
                    "DOWNLOAD_BLK_SUBBLOCK_RSP", "DOWNLOAD_BLK_END_RSP"}
       \/ s.st \in {"UPLOAD_INITIATE_RSP", "UPLOAD_SEGMENT_RSP", "UPLOAD_BLK_INITIATE_RSP",
                     "UPLOAD_BLK_SUBBLOCK_SREQ", "UPLOAD_BLK_END_SREQ", "ABORT"}
  BY ONLY <1>15 DEF States, SrvWaits, DownRequest, UpRequest, DownStart, DownSegment, DownBlock, UpStart,
     UpBlock, Others
<1> QED
  BY ONLY <1>7, <1>8, <1>9, <1>10, <1>11, <1>12, <1>13, <1>14, <1>16

\* What an upload asked for, and what the client has of it.
Value(s, j) == Text(j.obj, s.od[j.obj])
Had(k) == k.got \o k.fifo

CliSegments == {"UPLOAD_SEGMENT_REQ", "UPLOAD_SEGMENT_RSP"}
CliBlocks == UpBlock \cup {"UPLOAD_BLK_INITIATE_REQ2", "UPLOAD_BLK_END_SREQ"}

CliUpHas(k, j) ==
  /\ k.ret = "ok" => k.st = "IDLE"
  /\ k.st \in CliUp => j \in Jobs /\ j.op = "upload" /\ k.idx = j.obj
  /\ k.st \in UpAsked \cup {"UPLOAD_BLK_INITIATE_REQ2"} => k.got = <<>> /\ k.fifo = <<>>
  /\ k.st \in UpAsked => k.tran = 0
  /\ k.st \in UpBlock \cup {"UPLOAD_BLK_END_SREQ"} => k.crc = Had(k)

\* The server keeps what it has, and nothing on its way changes that.
Still(s, x) == s.st \in UpWork \cup Gone /\ \A f \in Held(x, s.rx) : f.c \notin Requests

\* the question asked, the server that is about to answer it, and the answer
UpAskedFor(f, s, k, j) ==
  /\ k.st # "UPLOAD_SEGMENT_RSP" => f.c \in {"upload", "blkUpload"} /\ f.idx = j.obj
  /\ k.st = "UPLOAD_SEGMENT_RSP" =>
       /\ f.c = "next" /\ f.t = k.t
       /\ s.st = "UPLOAD_SEGMENT_REQ" => s.tran = k.tran /\ s.t = k.t

UpAnswering(s, k, j) ==
  /\ s.idx = j.obj
  /\ IF k.st = "UPLOAD_SEGMENT_RSP"
     THEN s.st = "UPLOAD_SEGMENT_RSP" /\ s.tran = k.tran /\ s.t = k.t
     ELSE s.st \in {"UPLOAD_INITIATE_RSP", "UPLOAD_BLK_INITIATE_RSP"}

Told(g, s, k, j) ==
  /\ s.idx = j.obj
  /\ g.c = "uploadOk" =>
       IF g.exp = 1 THEN g.data = Value(s, j) /\ s.st \in Gone
       ELSE /\ s.st \in Gone \cup {"UPLOAD_SEGMENT_REQ"}
            /\ s.st = "UPLOAD_SEGMENT_REQ" => s.tran = 0 /\ s.t = 0
  /\ g.c = "blkUploadOk" => s.st \in Gone \cup {"UPLOAD_BLK_INITIATE_REQ2"}
  /\ g.c = "segment" /\ k.st = "UPLOAD_SEGMENT_RSP" =>
       /\ k.tran + Len(g.data) <= Len(Value(s, j))
       /\ g.data = Part(Value(s, j), k.tran, k.tran + Len(g.data))
       /\ g.last = 1 => k.tran + Len(g.data) = Len(Value(s, j))
       /\ s.st = "UPLOAD_SEGMENT_REQ" => s.tran = k.tran + Len(g.data) /\ s.t = 1 - k.t

UpWaiting(s, x, k, y, j) ==
  /\ Turn(s, x, k, y)
  /\ \/ /\ s.st \in Old
        /\ \A f \in Held(x, s.rx) : UpAskedFor(f, s, k, j)
        /\ \A g \in Held(y, k.rx) : g.c \in Noise \/ Told(g, s, k, j)
     \/ Quiet(x, s.rx) /\ Mute(y, k.rx) /\ UpAnswering(s, k, j)

\* it is for the client to go on
UpReady(s, x, k, y) ==
  /\ Quiet(x, s.rx) /\ Mute(y, k.rx) /\ s.st \in Old
  /\ k.st = "UPLOAD_SEGMENT_REQ" /\ s.st = "UPLOAD_SEGMENT_REQ" => s.tran = k.tran /\ s.t = k.t

UpSegments(s, x, k, j) ==
  /\ s.idx = j.obj /\ Still(s, x)
  /\ k.tran \in 0..Len(Value(s, j)) /\ Had(k) = Front_(Value(s, j), k.tran)

UpBlocks(s, x, k, y, j) ==
  /\ s.idx = j.obj /\ Still(s, x)
  /\ \A g \in Held(y, k.rx) : g.c = "blkEnd" => g.crc = Value(s, j)

UpDone(s, x, k, j) == Still(s, x) /\ Had(k) = Value(s, j)

Finished(k, j) == k.st = "UPLOAD_BLK_END_CRSP" \/ (k.ret = "ok" /\ j.op = "upload")

Up(s, x, k, y, j) ==
  /\ SrvUp(s) /\ CliUpHas(k, j)
  /\ k.st \in UpAsks => UpWaiting(s, x, k, y, j)
  /\ k.st \in UpRequest \cup {"UPLOAD_SEGMENT_REQ"} => UpReady(s, x, k, y)
  /\ k.st \in CliSegments => UpSegments(s, x, k, j)
  /\ k.st \in CliBlocks => UpBlocks(s, x, k, y, j)
  /\ Finished(k, j) => UpDone(s, x, k, j)

-----------------------------------------------------------------------------
\* As far as an upload goes, a client that has the same.
AsHad(q, k) ==
  /\ q.st = k.st /\ q.idx = k.idx /\ q.tran = k.tran /\ q.t = k.t /\ q.crc = k.crc
  /\ Had(q) = Had(k) /\ (k.got = <<>> /\ k.fifo = <<>> => q.got = <<>> /\ q.fifo = <<>>)
  /\ q.ret = "ok" => k.ret = "ok"

LEMMA AsAre == (\A s : AsFar(s, s)) /\ (\A k : AsHad(k, k))
BY DEF AsFar, AsHad

LEMMA SameValue ==
  ASSUME NEW r, NEW s, r.od = s.od, NEW j
  PROVE  Value(r, j) = Value(s, j)
BY DEF Value

\* Nothing is said that was not said before.
LEMMA UpFewer ==
  ASSUME NEW s, NEW x, NEW k, NEW y, NEW j, Up(s, x, k, y, j),
         NEW r, NEW u, NEW q, NEW v, AsFar(r, s), AsHad(q, k),
         Fewer(u, r.rx, x, s.rx), Fewer(v, q.rx, y, k.rx)
  PROVE  Up(r, u, q, v, j)
<1>1. /\ r.st = s.st /\ r.idx = s.idx /\ r.tran = s.tran /\ r.t = s.t /\ r.od = s.od
      /\ q.st = k.st /\ q.tran = k.tran /\ q.t = k.t /\ Had(q) = Had(k)
      /\ Finished(q, j) => Finished(k, j)
  BY DEF AsFar, AsHad, Finished
<1>2. SrvUp(r) /\ CliUpHas(q, j)
  <2>1. SrvUp(s) /\ CliUpHas(k, j)
    BY DEF Up
  <2>2. CliUpHas(q, j)
    BY ONLY <2>1, AsHad(q, k) DEF CliUpHas, AsHad
  <2> QED
    BY ONLY <2>1, <2>2, AsFar(r, s), AsFarUp
<1>3. Value(r, j) = Value(s, j)
  BY ONLY <1>1, SameValue
<1>4. /\ Turn(s, x, k, y) => Turn(r, u, q, v)
      /\ Quiet(x, s.rx) => Quiet(u, r.rx)
      /\ Mute(y, k.rx) => Mute(v, q.rx)
      /\ Held(u, r.rx) \subseteq Held(x, s.rx)
      /\ Held(v, q.rx) \subseteq Held(y, k.rx)
  BY DEF Fewer, Turn
<1>5. Still(s, x) => Still(r, u)
  BY ONLY <1>1, <1>4 DEF Still
<1>6. UpWaiting(s, x, k, y, j) => UpWaiting(r, u, q, v, j)
  <2>1. \A f : UpAskedFor(f, s, k, j) => UpAskedFor(f, r, q, j)
    BY ONLY <1>1 DEF UpAskedFor
  <2>2. \A g : Told(g, s, k, j) => Told(g, r, q, j)
    BY ONLY <1>1, <1>3 DEF Told
  <2>3. UpAnswering(s, k, j) => UpAnswering(r, q, j)
    BY ONLY <1>1 DEF UpAnswering
  <2> QED
    BY ONLY <1>1, <1>4, <2>1, <2>2, <2>3 DEF UpWaiting
<1>7. UpReady(s, x, k, y) => UpReady(r, u, q, v)
  BY ONLY <1>1, <1>4 DEF UpReady
<1>8. UpSegments(s, x, k, j) => UpSegments(r, u, q, j)
  BY ONLY <1>1, <1>3, <1>5 DEF UpSegments
<1>9. UpBlocks(s, x, k, y, j) => UpBlocks(r, u, q, v, j)
  BY ONLY <1>1, <1>3, <1>4, <1>5 DEF UpBlocks
<1>10. UpDone(s, x, k, j) => UpDone(r, u, q, j)
  BY ONLY <1>1, <1>3, <1>5 DEF UpDone
<1> QED
  BY ONLY <1>1, <1>2, <1>6, <1>7, <1>8, <1>9, <1>10, Up(s, x, k, y, j) DEF Up

\* A server that stops, is stopped, or is told to.
LEMMA UpReset ==
  ASSUME NEW s, NEW x, NEW k, NEW y, NEW j, Up(s, x, k, y, j),
         NEW r, NEW u, NEW v, r.st \in Gone, r.od = s.od, r.idx = s.idx,
         Fewer(u, r.rx, x, s.rx), Louder(v, y, k.rx)
  PROVE  Up(r, u, k, v, j)
<1>1. SrvUp(r) /\ CliUpHas(k, j)
  <2>1. Sizes(r)
    BY DEF Up, SrvUp, Sizes
  <2>2. r.st \notin UpWork
    BY DEF Gone, UpWork, UpStart, UpBlock
  <2> QED
    BY <2>1, <2>2, UpIdle DEF Up
<1>2. r.st \in Old /\ r.st # "UPLOAD_SEGMENT_REQ"
  BY DEF Gone, Old, SrvWaits
<1>3. Value(r, j) = Value(s, j)
  BY SameValue
<1>4. /\ Turn(s, x, k, y) => Turn(r, u, k, v)
      /\ Quiet(x, s.rx) => Quiet(u, r.rx)
      /\ Mute(y, k.rx) => Mute(v, k.rx)
      /\ Held(u, r.rx) \subseteq Held(x, s.rx)
      /\ \A g \in Held(v, k.rx) : g \in Held(y, k.rx) \/ g.c \in Noise
  BY DEF Fewer, Turn, Louder
<1>5. Still(s, x) => Still(r, u)
  BY ONLY <1>4, r.st \in Gone DEF Still
<1>6. UpWaiting(s, x, k, y, j) => UpWaiting(r, u, k, v, j)
  <2>1. \A f : UpAskedFor(f, s, k, j) => UpAskedFor(f, r, k, j)
    BY ONLY <1>2 DEF UpAskedFor
  <2>2. \A g : Told(g, s, k, j) => Told(g, r, k, j)
    BY ONLY <1>2, <1>3, r.st \in Gone, r.idx = s.idx DEF Told
  <2>3. Quiet(x, s.rx) => Held(u, r.rx) = {}
    BY ONLY <1>4, NoFrames
  <2>4. Mute(v, k.rx) => \A g \in Held(v, k.rx) : g.c \in Noise
    BY DEF Mute
  <2> QED
    BY ONLY <1>2, <1>4, <2>1, <2>2, <2>3, <2>4 DEF UpWaiting
<1>7. UpReady(s, x, k, y) => UpReady(r, u, k, v)
  BY ONLY <1>2, <1>4 DEF UpReady
<1>8. UpSegments(s, x, k, j) => UpSegments(r, u, k, j)
  BY ONLY <1>3, <1>5, r.idx = s.idx DEF UpSegments
<1>9. UpBlocks(s, x, k, y, j) => UpBlocks(r, u, k, v, j)
  BY ONLY <1>3, <1>4, <1>5, r.idx = s.idx DEF UpBlocks, Noise
<1>10. UpDone(s, x, k, j) => UpDone(r, u, k, j)
  BY ONLY <1>3, <1>5 DEF UpDone
<1> QED
  BY ONLY <1>1, <1>6, <1>7, <1>8, <1>9, <1>10, Up(s, x, k, y, j) DEF Up

\* A client that has given up, or is not about an upload.
LEMMA UpOver ==
  ASSUME NEW s, SrvUp(s), NEW k, k.st \notin CliUp, NEW j,
         k.ret = "ok" => k.st = "IDLE" /\ ~(j.op = "upload"), NEW x, NEW y
  PROVE  Up(s, x, k, y, j)
<1>1. /\ k.st \notin UpAsks /\ k.st \notin UpRequest \cup {"UPLOAD_SEGMENT_REQ"}
      /\ k.st \notin CliSegments /\ k.st \notin CliBlocks /\ ~Finished(k, j)
  BY DEF CliUp, UpAsked, UpSegment, UpRequest, UpAsks, CliSegments, CliBlocks, Finished
<1>2. CliUpHas(k, j)
  BY DEF CliUpHas, CliUp, UpAsked, UpSegment, CliBlocks
<1> QED
  BY ONLY <1>1, <1>2, SrvUp(s) DEF Up

\* A segment of a block, or the end of waiting for one.
LEMMA UpStored ==
  ASSUME NEW s, s.st = "DOWNLOAD_BLK_SUBBLOCK_REQ", NEW r, BlockStored(r, s), NEW k, NEW j,
         NEW x, NEW y, Up(s, x, k, y, j), NEW u, Fewer(u, r.rx, x, s.rx)
  PROVE  Up(r, u, k, y, j)
<1>1. /\ r.idx = s.idx /\ r.od = s.od
      /\ r.st \in {"DOWNLOAD_BLK_SUBBLOCK_REQ", "DOWNLOAD_BLK_SUBBLOCK_RSP"}
  BY DEF BlockStored
<1>2. /\ s.st \notin UpWork \cup Gone /\ s.st \notin UpAsks
      /\ r.st \notin UpWork /\ r.st \in Old /\ r.st # "UPLOAD_SEGMENT_REQ"
  BY ONLY <1>1, s.st = "DOWNLOAD_BLK_SUBBLOCK_REQ" DEF UpWork, UpStart, UpBlock, Gone, Old, SrvWaits, UpAsks
<1>3. SrvUp(s) /\ CliUpHas(k, j)
  BY DEF Up
<1>4. SrvUp(r)
  <2>1. Sizes(r)
    BY ONLY <1>1, <1>3 DEF SrvUp, Sizes
  <2> QED
    BY ONLY <1>2, <2>1, UpIdle
<1>5. k.st \notin CliSegments /\ k.st \notin CliBlocks /\ ~Finished(k, j)
  BY ONLY <1>2, Up(s, x, k, y, j) DEF Up, UpSegments, UpBlocks, UpDone, Still
<1>6. UpWaiting(s, x, k, y, j) /\ k.st \in UpAsks => UpWaiting(r, u, k, y, j)
  <2>1. k.st # "UPLOAD_SEGMENT_RSP"
    BY ONLY <1>5 DEF CliSegments
  <2>2. ~UpAnswering(s, k, j)
    BY ONLY <1>2, <2>1 DEF UpAnswering, UpAsks
  <2>3. \A f : UpAskedFor(f, s, k, j) => UpAskedFor(f, r, k, j)
    BY ONLY <1>2 DEF UpAskedFor
  <2>4. \A g : Told(g, s, k, j) => Told(g, r, k, j)
    BY ONLY <1>1, <1>2, <2>1, s.st = "DOWNLOAD_BLK_SUBBLOCK_REQ" DEF Told
  <2>5. /\ Turn(s, x, k, y) => Turn(r, u, k, y)
        /\ Held(u, r.rx) \subseteq Held(x, s.rx)
    BY DEF Fewer, Turn
  <2> QED
    BY ONLY <1>2, <2>2, <2>3, <2>4, <2>5 DEF UpWaiting
<1>7. UpReady(s, x, k, y) => UpReady(r, u, k, y)
  BY ONLY <1>2, Fewer(u, r.rx, x, s.rx) DEF UpReady, Fewer
<1> QED
  BY ONLY <1>3, <1>4, <1>5, <1>6, <1>7, Up(s, x, k, y, j) DEF Up

-----------------------------------------------------------------------------
\* The server takes a frame.
LEMMA SrvTakesUp ==
  ASSUME NEW s, SrvOK(s), s.rx \in Frames, s.rx # None, TextsFit, NEW k,
         NEW j, NEW x, NEW y, Up(s, x, k, y, j)
  PROVE  Up(SrvTake(s), x, k, y, j)
<1> DEFINE r == SrvTake(s)
<1>0. SrvUp(s) /\ CliUpHas(k, j)
  BY DEF Up
<1>1. Took(r, s) /\ TookUp(r, s)
  BY <1>0, SrvTakes, TakesUp
<1> SUFFICES Up(r, x, k, y, j)
  OBVIOUS
<1> HIDE DEF r
<1>2. SrvUp(r) /\ r.rx = None
  BY ONLY <1>1 DEF TookUp, Took
<1>3. /\ s.rx \in Held(x, s.rx) /\ ~Quiet(x, s.rx) /\ (Alone(x, s.rx) => Quiet(x, None))
      /\ Held(x, None) \subseteq Held(x, s.rx)
  BY HeldFrame, HeldLess
<1>4. Still(s, x) => Still(r, x) /\ r.od = s.od /\ r.idx = s.idx /\ Value(r, j) = Value(s, j)
  <2> SUFFICES ASSUME Still(s, x)
               PROVE  Still(r, x) /\ r.od = s.od /\ r.idx = s.idx /\ Value(r, j) = Value(s, j)
    OBVIOUS
  <2>1. s.st \in UpWork \cup Gone /\ s.rx.c \notin Requests /\ \A f \in Held(x, s.rx) : f.c \notin Requests
    BY ONLY <1>3, Still(s, x) DEF Still
  <2>2. r.od = s.od /\ r.idx = s.idx /\ r.st \in UpWork \cup {"ABORT"}
    BY ONLY <1>1, <2>1 DEF TookUp
  <2>3. Still(r, x)
    BY ONLY <1>2, <1>3, <2>1, <2>2 DEF Still, Gone
  <2> QED
    BY ONLY <2>2, <2>3, SameValue
<1>5. k.st \in UpAsks => UpWaiting(r, x, k, y, j)
  <2> SUFFICES ASSUME k.st \in UpAsks
               PROVE  UpWaiting(r, x, k, y, j)
    OBVIOUS
  <2>1. UpWaiting(s, x, k, y, j) /\ (k.st = "UPLOAD_SEGMENT_RSP" => UpSegments(s, x, k, j))
    BY DEF Up, CliSegments
  <2>2. Alone(x, s.rx) /\ Single(y, k.rx) /\ Mute(y, k.rx) /\ s.st \in Old /\ UpAskedFor(s.rx, s, k, j)
    BY ONLY <1>3, <2>1 DEF UpWaiting, Turn
  <2>3. Quiet(x, r.rx)
    BY ONLY <1>2, <1>3, <2>2
  <2>4. Held(x, r.rx) = {} /\ Alone(x, r.rx)
    BY ONLY <2>3, NoFrames
  <2>5. Turn(r, x, k, y)
    BY ONLY <2>2, <2>3, <2>4 DEF Turn
  <2>6. CASE r.st \in {"ABORT", "DOWNLOAD_BLK_SUBBLOCK_REQ"}
    <3>1. r.st \in Old
      BY ONLY <2>6 DEF Old, SrvWaits
    <3> QED
      BY ONLY <2>2, <2>4, <2>5, <3>1 DEF UpWaiting, Mute
  <2>7. CASE r.st \notin {"ABORT", "DOWNLOAD_BLK_SUBBLOCK_REQ"}
    <3>1. UpAnswering(r, k, j)
      <4>1. CASE k.st = "UPLOAD_SEGMENT_RSP"
        <5>1. s.rx.c = "next" /\ (s.st = "UPLOAD_SEGMENT_REQ" => s.tran = k.tran /\ s.t = k.t)
          BY ONLY <2>2, <4>1 DEF UpAskedFor
        <5>2. /\ s.st = "UPLOAD_SEGMENT_REQ" /\ r.st = "UPLOAD_SEGMENT_RSP" /\ r.idx = s.idx
              /\ r.tran = s.tran /\ r.t = s.t
          BY ONLY <1>1, <2>7, <5>1 DEF TookUp
        <5>3. s.idx = j.obj
          BY ONLY <2>1, <4>1 DEF UpSegments
        <5> QED
          BY ONLY <4>1, <5>1, <5>2, <5>3 DEF UpAnswering
      <4>2. CASE k.st # "UPLOAD_SEGMENT_RSP"
        <5>1. s.rx.c \in {"upload", "blkUpload"} /\ s.rx.idx = j.obj
          BY ONLY <2>2, <4>2 DEF UpAskedFor
        <5>2. r.idx = s.rx.idx /\ r.st \in {"UPLOAD_INITIATE_RSP", "UPLOAD_BLK_INITIATE_RSP"}
          BY ONLY <1>1, <2>7, <5>1 DEF TookUp
        <5> QED
          BY ONLY <4>2, <5>1, <5>2 DEF UpAnswering
      <4> QED
        BY ONLY <4>1, <4>2
    <3> QED
      BY ONLY <2>2, <2>3, <2>5, <3>1 DEF UpWaiting
  <2> QED
    BY ONLY <2>6, <2>7
<1>6. k.st \notin UpRequest \cup {"UPLOAD_SEGMENT_REQ"}
  BY ONLY <1>3, Up(s, x, k, y, j) DEF Up, UpReady
<1>7. UpSegments(s, x, k, j) => UpSegments(r, x, k, j)
  BY ONLY <1>4 DEF UpSegments
<1>8. UpBlocks(s, x, k, y, j) => UpBlocks(r, x, k, y, j)
  BY ONLY <1>4 DEF UpBlocks
<1>9. UpDone(s, x, k, j) => UpDone(r, x, k, j)
  BY ONLY <1>4 DEF UpDone
<1> QED
  BY ONLY <1>0, <1>2, <1>5, <1>6, <1>7, <1>8, <1>9, Up(s, x, k, y, j) DEF Up

\* The answer it gives.
LEMMA GivesTold ==
  ASSUME NEW s, NEW e, GaveUp(e, s), e.idx = s.idx, NEW k, k.st \in UpAsks, NEW j,
         UpAnswering(s, k, j)
  PROVE  /\ e.st \in Old
         /\ \E g \in Frames : e.out = <<g>> /\ (g.c \in Noise \/ Told(g, e, k, j))
<1>1. e.st \in Gone \cup {"UPLOAD_SEGMENT_REQ", "UPLOAD_BLK_INITIATE_REQ2"} => e.st \in Old
  BY DEF Old, SrvWaits, Gone
<1>2. s.st \in UpWork /\ s.idx = j.obj /\ e.idx = j.obj
  BY DEF UpAnswering, UpWork, UpStart
<1>3. e.od = s.od
  BY ONLY <1>2, GaveUp(e, s) DEF GaveUp
<1>4. Value(e, j) = Val(s)
  BY ONLY <1>2, <1>3 DEF Value, Val
<1>5. CASE s.st = "UPLOAD_INITIATE_RSP"
  <2>1. SaidUpload(e, s)
    BY ONLY <1>5, GaveUp(e, s) DEF GaveUp
  <2>2. PICK g \in Frames :
          /\ e.out = <<g>> /\ g.c = "uploadOk"
          /\ IF g.exp = 1 THEN g.data = Val(s) /\ e.st = "IDLE"
             ELSE e.st = "UPLOAD_SEGMENT_REQ" /\ e.tran = 0 /\ e.t = 0
    BY ONLY <2>1 DEF SaidUpload
  <2>3. Told(g, e, k, j) /\ e.st \in Old
    BY ONLY <1>1, <1>2, <1>4, <2>2 DEF Told, Gone
  <2> QED
    BY ONLY <2>2, <2>3
<1>6. CASE s.st = "UPLOAD_BLK_INITIATE_RSP"
  <2>1. PICK g \in Frames : e.st = "UPLOAD_BLK_INITIATE_REQ2" /\ e.out = <<g>> /\ g.c = "blkUploadOk"
    BY ONLY <1>6, GaveUp(e, s) DEF GaveUp, SaidBlock
  <2>2. Told(g, e, k, j) /\ e.st \in Old
    BY ONLY <1>1, <1>2, <2>1 DEF Told
  <2> QED
    BY ONLY <2>1, <2>2
<1>7. CASE s.st = "UPLOAD_SEGMENT_RSP"
  <2>1. k.st = "UPLOAD_SEGMENT_RSP" /\ s.tran = k.tran /\ s.t = k.t
    BY ONLY <1>7, UpAnswering(s, k, j) DEF UpAnswering
  <2>2. CASE e.st = "IDLE" /\ e.out = <<abort>>
    BY ONLY <1>1, <2>2, AbortIsNoise DEF Gone
  <2>3. CASE SaidSegment(e, s)
    <3>1. PICK g \in Frames :
            /\ e.out = <<g>> /\ g.c = "segment"
            /\ s.tran + Len(g.data) <= Len(Val(s))
            /\ g.data = Part(Val(s), s.tran, s.tran + Len(g.data))
            /\ g.last = 1 => s.tran + Len(g.data) = Len(Val(s))
            /\ e.st \in {"IDLE", "UPLOAD_SEGMENT_REQ"}
            /\ e.st = "UPLOAD_SEGMENT_REQ" => e.tran = s.tran + Len(g.data) /\ e.t = 1 - s.t
      BY ONLY <2>3 DEF SaidSegment
    <3>2. Told(g, e, k, j) /\ e.st \in Old
      BY ONLY <1>1, <1>2, <1>4, <2>1, <3>1 DEF Told, Gone
    <3> QED
      BY ONLY <3>1, <3>2
  <2> QED
    BY ONLY <1>7, <2>2, <2>3, GaveUp(e, s) DEF GaveUp
<1> QED
  BY ONLY <1>5, <1>6, <1>7, UpAnswering(s, k, j) DEF UpAnswering

LEMMA GivesUpWaiting ==
  ASSUME NEW s, s.st \notin SrvWaits, NEW e, Gave(e, s), GaveUp(e, s),
         NEW k, k.st \in UpAsks, k.rx \in Frames \cup {None}, NEW j,
         NEW x, Fewer(x, e.rx, x, s.rx), NEW y \in Seq(Frames), UpWaiting(s, x, k, y, j),
         k.st = "UPLOAD_SEGMENT_RSP" => Still(s, x)
  PROVE  UpWaiting(e, x, k, y \o e.out, j)
<1>1. e.idx = s.idx
  BY DEF Gave
<1>2. Turn(s, x, k, y)
  BY DEF UpWaiting
<1> DEFINE v == y \o e.out
<1>3. CASE /\ s.st \in Old /\ (\A f \in Held(x, s.rx) : UpAskedFor(f, s, k, j))
           /\ \A g \in Held(y, k.rx) : g.c \in Noise \/ Told(g, s, k, j)
  <2>1. s.st \in {"ABORT", "DOWNLOAD_BLK_SUBBLOCK_RSP"}
    BY <1>3 DEF Old
  <2>2. GaveNoise(e, s, e.out)
    BY ONLY <2>1, Gave(e, s), GivesNoise
  <2>3. Louder(v, y, k.rx)
    BY <2>2, NoiseLouder
  <2>4. /\ e.st \in {"IDLE", "DOWNLOAD_BLK_END_REQ", "DOWNLOAD_BLK_SUBBLOCK_REQ"}
        /\ s.st = "ABORT" => e.st = "IDLE" /\ e.od = s.od
    BY ONLY <2>2 DEF GaveNoise
  <2> HIDE DEF v
  <2>5. Turn(e, x, k, v)
    BY ONLY <1>2, <2>3, Fewer(x, e.rx, x, s.rx) DEF Turn, Fewer, Louder
  <2>6. \A f \in Held(x, e.rx) : UpAskedFor(f, e, k, j)
    BY ONLY <1>3, <2>4, Fewer(x, e.rx, x, s.rx) DEF Fewer, UpAskedFor
  <2>7. \A g : Told(g, s, k, j) => Told(g, e, k, j)
    <3> SUFFICES ASSUME NEW g, Told(g, s, k, j)
                 PROVE  Told(g, e, k, j)
      OBVIOUS
    <3>1. CASE s.st = "ABORT"
      <4>1. e.st = "IDLE" /\ Value(e, j) = Value(s, j)
        BY ONLY <2>4, <3>1, SameValue
      <4> QED
        BY ONLY <1>1, <4>1, Told(g, s, k, j) DEF Told, Gone
    <3>2. CASE s.st # "ABORT"
      <4>1. k.st # "UPLOAD_SEGMENT_RSP"
        BY <2>1, <3>2 DEF Still, UpWork, UpStart, UpBlock, Gone
      <4>2. s.st \notin Gone /\ s.st # "UPLOAD_SEGMENT_REQ" /\ s.st # "UPLOAD_BLK_INITIATE_REQ2"
        BY ONLY <2>1, <3>2 DEF Gone
      <4> QED
        BY ONLY <1>1, <4>1, <4>2, Told(g, s, k, j) DEF Told
    <3> QED
      BY ONLY <3>1, <3>2
  <2>8. \A g \in Held(v, k.rx) : g.c \in Noise \/ Told(g, e, k, j)
    BY ONLY <1>3, <2>3, <2>7 DEF Louder
  <2>9. e.st \in Old
    BY ONLY <2>4 DEF Old, SrvWaits
  <2>10. UpWaiting(e, x, k, v, j)
    BY ONLY <2>5, <2>6, <2>8, <2>9 DEF UpWaiting
  <2> QED
    BY ONLY <2>10 DEF v
<1>4. CASE Quiet(x, s.rx) /\ Mute(y, k.rx) /\ UpAnswering(s, k, j)
  <2>1. e.st \in Old
    BY <1>1, <1>4, GivesTold
  <2>2. PICK g \in Frames : e.out = <<g>> /\ (g.c \in Noise \/ Told(g, e, k, j))
    BY <1>1, <1>4, GivesTold
  <2>3. Quiet(x, e.rx)
    BY ONLY <1>4, Fewer(x, e.rx, x, s.rx) DEF Fewer
  <2>4. Held(x, e.rx) = {} /\ Alone(x, e.rx)
    BY ONLY <2>3, NoFrames
  <2>5. Single(v, k.rx) /\ Held(v, k.rx) = Held(y, k.rx) \cup {g}
    BY <1>4, <2>2, OneMore
  <2> HIDE DEF v
  <2>6. Turn(e, x, k, v)
    BY ONLY <2>3, <2>4, <2>5 DEF Turn
  <2>7. \A h \in Held(v, k.rx) : h.c \in Noise \/ Told(h, e, k, j)
    BY ONLY <1>4, <2>2, <2>5 DEF Mute
  <2>8. UpWaiting(e, x, k, v, j)
    BY ONLY <2>1, <2>4, <2>6, <2>7 DEF UpWaiting
  <2> QED
    BY ONLY <2>8 DEF v
<1> QED
  BY ONLY <1>3, <1>4, UpWaiting(s, x, k, y, j) DEF UpWaiting

LEMMA SrvGivesUp ==
  ASSUME NEW s, SrvOK(s), s.out = <<>>, NEW k, k.rx \in Frames \cup {None},
         NEW j, NEW x \in Seq(Frames), NEW y \in Seq(Frames), Up(s, x, k, y, j)
  PROVE  LET e == SendAbort(SrvSend(s)) IN Up(e, x, k, y \o e.out, j)
<1> DEFINE e == SendAbort(SrvSend(s))
           v == y \o e.out
<1>1. CASE s.st \in SrvWaits
  <2>1. e = s
    BY <1>1, WaitsGive
  <2>2. y \o <<>> = y
    OBVIOUS
  <2> QED
    BY <2>1, <2>2
<1>2. CASE s.st \notin SrvWaits
  <2>0. SrvUp(s) /\ CliUpHas(k, j)
    BY DEF Up
  <2>1. Gave(e, s) /\ GaveUp(e, s)
    BY <2>0, SrvGives, GivesUp
  <2> SUFFICES Up(e, x, k, y \o e.out, j)
    OBVIOUS
  <2> HIDE DEF e
  <2>2. e.rx \in {s.rx, None} /\ s.rx \in Frames \cup {None} /\ e.idx = s.idx
    BY <2>1 DEF Gave, SrvOK, SrvBase, SrvRecord
  <2>3. Fewer(x, e.rx, x, s.rx)
    <3>1. Fewer(x, s.rx, x, s.rx) /\ Fewer(x, None, x, s.rx)
      BY ONLY <2>2, FewerFrames, x \in Seq(Frames)
    <3> QED
      BY ONLY <2>2, <3>1
  <2>4. Still(s, x) => Still(e, x) /\ e.od = s.od /\ Value(e, j) = Value(s, j)
    <3> SUFFICES ASSUME Still(s, x)
                 PROVE  Still(e, x) /\ e.od = s.od /\ Value(e, j) = Value(s, j)
      OBVIOUS
    <3>1. e.od = s.od /\ e.st \in UpWork \cup Gone
      BY ONLY <2>1, Still(s, x) DEF GaveUp, Still
    <3> QED
      BY ONLY <2>3, <3>1, SameValue, Still(s, x) DEF Still, Fewer
  <2>5. k.st \in UpAsks => UpWaiting(e, x, k, v, j)
    <3> SUFFICES ASSUME k.st \in UpAsks
                 PROVE  UpWaiting(e, x, k, v, j)
      OBVIOUS
    <3>1. UpWaiting(s, x, k, y, j) /\ (k.st = "UPLOAD_SEGMENT_RSP" => Still(s, x))
      BY DEF Up, CliSegments, UpSegments
    <3> QED
      BY <1>2, <2>1, <2>3, <3>1, GivesUpWaiting
  <2>6. UpReady(s, x, k, y) => UpReady(e, x, k, v)
    <3> SUFFICES ASSUME UpReady(s, x, k, y)
                 PROVE  UpReady(e, x, k, v)
      OBVIOUS
    <3>1. Quiet(x, s.rx) /\ Mute(y, k.rx) /\ s.st \in Old
      BY DEF UpReady
    <3>2. s.st \in {"ABORT", "DOWNLOAD_BLK_SUBBLOCK_RSP"}
      BY <1>2, <3>1 DEF Old
    <3>3. GaveNoise(e, s, e.out)
      BY ONLY <2>1, <3>2, GivesNoise
    <3>4. Louder(v, y, k.rx)
      BY <3>3, NoiseLouder
    <3> HIDE DEF v
    <3>5. Mute(v, k.rx) /\ Quiet(x, e.rx)
      BY ONLY <2>3, <3>1, <3>4 DEF Louder, Fewer
    <3>6. e.st \in Old /\ e.st # "UPLOAD_SEGMENT_REQ"
      BY ONLY <3>3 DEF GaveNoise, Old, SrvWaits
    <3> QED
      BY ONLY <3>5, <3>6 DEF UpReady
  <2>7. UpSegments(s, x, k, j) => UpSegments(e, x, k, j)
    BY ONLY <2>2, <2>4 DEF UpSegments
  <2>8. UpBlocks(s, x, k, y, j) => UpBlocks(e, x, k, v, j)
    <3> SUFFICES ASSUME UpBlocks(s, x, k, y, j)
                 PROVE  UpBlocks(e, x, k, v, j)
      OBVIOUS
    <3>1. s.idx = j.obj /\ Still(s, x) /\ \A g \in Held(y, k.rx) : g.c = "blkEnd" => g.crc = Value(s, j)
      BY ONLY UpBlocks(s, x, k, y, j) DEF UpBlocks
    <3>2. s.st \in UpWork \cup Gone
      BY ONLY <3>1 DEF Still
    <3>3. PICK g \in Frames : e.out = <<g>>
      <4>1. GaveAbort(e, s) \/ GaveUpload(e, s)
        BY ONLY <1>2, <2>1, <3>2
           DEF Gave, GaveInitiated, GaveSegment, GaveBlock, GaveSubBlock, GaveEnd, UpWork, UpStart, UpBlock, Gone
      <4> QED
        BY ONLY <4>1, AbortIsNoise DEF GaveAbort, GaveUpload
    <3>4. g.c = "blkEnd" => g.crc = Value(s, j)
      <4>1. Val(s) = Value(s, j)
        BY ONLY <3>1 DEF Val, Value
      <4> QED
        BY ONLY <2>1, <3>2, <3>3, <4>1 DEF GaveUp
    <3>5. Held(v, k.rx) = Held(y, k.rx) \cup {g}
      BY <3>3, OneMore
    <3> HIDE DEF v
    <3> QED
      BY ONLY <2>2, <2>4, <3>1, <3>4, <3>5 DEF UpBlocks
  <2>9. UpDone(s, x, k, j) => UpDone(e, x, k, j)
    BY ONLY <2>4 DEF UpDone
  <2>10. SrvUp(e)
    BY ONLY <2>1 DEF GaveUp
  <2> HIDE DEF v
  <2>11. Up(e, x, k, v, j)
    BY ONLY <2>0, <2>5, <2>6, <2>7, <2>8, <2>9, <2>10, Up(s, x, k, y, j) DEF Up
  <2> QED
    BY ONLY <2>11 DEF v
<1> QED
  BY <1>1, <1>2

UploadInv ==
  Up(srv, toSrv, cli, toCli, job) /\ srv.out = <<>> /\ cli.out = <<>>

\* The server's step ends.
LEMMA SrvGoesOnUp ==
  ASSUME SdoInv, cli.out = <<>>, NEW e, DOMAIN e = SrvFields, e.rx \in Frames \cup {None},
         toCli \o e.out \in Seq(Frames),
         Up(e, toSrv, cli, toCli \o e.out, job), SrvGoesOn(e)
  PROVE  UploadInv'
<1> DEFINE r == [e EXCEPT !.out = <<>>]
           v == toCli \o e.out
<1>1. srv' = r /\ toCli' = v /\ cli' = cli /\ toSrv' = toSrv /\ job' = job
  BY DEF SrvGoesOn
<1>2. AsFar(r, e) /\ r.out = <<>> /\ r.rx = e.rx
  BY ONLY DOMAIN e = SrvFields DEF AsFar, SrvFields
<1>3. Fewer(toSrv, e.rx, toSrv, e.rx) /\ Fewer(v, cli.rx, v, cli.rx)
  BY TypesAre, FewerFrames
<1>4. Up(e, toSrv, cli, v, job)
  OBVIOUS
<1> HIDE DEF r, v
<1>5. Up(r, toSrv, cli, v, job)
  BY ONLY <1>2, <1>3, <1>4, AsAre, UpFewer
<1> QED
  BY ONLY <1>1, <1>2, <1>5, cli.out = <<>> DEF UploadInv

LEMMA SrvMoveUp ==
  ASSUME SdoInv, cli.out = <<>>, NEW s, SrvOK(s), s.out = <<>>, Up(s, toSrv, cli, toCli, job),
         SrvMove(s)
  PROVE  UploadInv'
<1> DEFINE e == SendAbort(SrvSend(s))
<1>1. SrvOK(e) /\ Up(e, toSrv, cli, toCli \o e.out, job)
  BY SrvSendOK, SrvSendAbortOK, SrvGivesUp, TypesAre
<1>2. Up(s, toSrv, cli, toCli \o s.out, job)
  BY TypesAre, EmptyCat
<1>3. SrvGoesOn(e) \/ SrvGoesOn(s)
  BY DEF SrvMove
<1>4. ASSUME NEW r, SrvOK(r)
      PROVE  DOMAIN r = SrvFields /\ r.rx \in Frames \cup {None} /\ toCli \o r.out \in Seq(Frames)
  <2>1. r \in SrvRecord
    BY <1>4 DEF SrvOK, SrvBase
  <2>2. DOMAIN r = SrvFields /\ r.rx \in Frames \cup {None} /\ r.out \in Seq(Frames)
    BY ONLY <2>1, FieldsAre DEF SrvRecord
  <2> QED
    BY <2>2, TypesAre, ConcatProperties
<1> HIDE DEF e
<1> QED
  BY <1>1, <1>2, <1>3, <1>4, SrvGoesOnUp

LEMMA UploadSrvProcess ==
  ASSUME SdoInv, UploadInv, TextsFit, CO_SDOserver_process
  PROVE  UploadInv'
<1> DEFINE s == IF srv.rx = None THEN srv ELSE SrvTake(srv)
<1>1. SrvMove(s)
  BY DEF CO_SDOserver_process
<1>2. SrvOK(s) /\ s.out = <<>> /\ Up(s, toSrv, cli, toCli, job)
  <2>1. CASE srv.rx = None
    BY <2>1, TypesAre DEF UploadInv
  <2>2. CASE srv.rx # None
    <3>1. srv.rx \in Frames /\ SrvOK(srv)
      BY <2>2, TypesAre
    <3>2. SrvOK(SrvTake(srv))
      BY ONLY <3>1, SrvTakeOK
    <3>3. SrvTake(srv).out = srv.out
      BY ONLY <3>1, SrvTakes DEF Took
    <3>4. Up(SrvTake(srv), toSrv, cli, toCli, job)
      BY ONLY <2>2, <3>1, SrvTakesUp, TypesAre, SdoInv, UploadInv, TextsFit DEF UploadInv
    <3> QED
      BY ONLY <2>2, <3>2, <3>3, <3>4, UploadInv DEF UploadInv
  <2> QED
    BY ONLY <2>1, <2>2
<1> HIDE DEF s
<1> QED
  BY ONLY <1>1, <1>2, SrvMoveUp, SdoInv, UploadInv DEF UploadInv

LEMMA UploadSrvTimeout ==
  ASSUME SdoInv, UploadInv, SrvTimeout
  PROVE  UploadInv'
<1> DEFINE c == Stop(srv)
           e == SendAbort(c)
<1>1. SrvGoesOn(c) \/ SrvGoesOn(e)
  BY DEF SrvTimeout
<1>2. Kept(c, srv) /\ c.st = "ABORT" /\ c.rx = srv.rx /\ c.out = <<>>
  BY TypesAre, StopKept, SrvStopIs DEF Kept, UploadInv
<1>3. e.st = "IDLE" /\ e.out = <<abort>> /\ e.od = c.od /\ e.idx = c.idx /\ e.rx = c.rx
  BY ONLY <1>2, SendAbortDoes DEF Kept
<1>4. DOMAIN e = SrvFields
  BY ONLY <1>2 DEF Kept, SendAbort, Send, SrvFields
<1> HIDE DEF c, e
<1>5. Louder(toCli \o c.out, toCli, cli.rx) /\ Louder(toCli \o e.out, toCli, cli.rx)
      /\ toCli \o c.out \in Seq(Frames) /\ toCli \o e.out \in Seq(Frames)
  <2>1. toCli \o <<abort>> \in Seq(Frames) /\ toCli \o <<>> = toCli
    BY TypesAre, AbortIsNoise, EmptyCat
  <2> QED
    BY <1>2, <1>3, <2>1, NoiseIs, AbortIsNoise, TypesAre
<1>6. Fewer(toSrv, srv.rx, toSrv, srv.rx)
  BY TypesAre, FewerFrames
<1>7. Up(srv, toSrv, cli, toCli, job) /\ cli.out = <<>>
  BY DEF UploadInv
<1>8. /\ c.od = srv.od /\ c.idx = srv.idx /\ c.st \in Gone
      /\ e.od = srv.od /\ e.idx = srv.idx /\ e.st \in Gone /\ e.rx = srv.rx
  BY ONLY <1>2, <1>3 DEF Kept, Gone
<1>9. Up(c, toSrv, cli, toCli \o c.out, job)
  BY ONLY <1>2, <1>5, <1>6, <1>7, <1>8, UpReset
<1>10. Up(e, toSrv, cli, toCli \o e.out, job)
  BY ONLY <1>5, <1>6, <1>7, <1>8, UpReset
<1>11. DOMAIN c = SrvFields /\ c.rx \in Frames \cup {None} /\ e.rx \in Frames \cup {None}
  BY <1>2, <1>8, TypesAre DEF Kept
<1> QED
  BY ONLY <1>1, <1>4, <1>5, <1>7, <1>9, <1>10, <1>11, SrvGoesOnUp, SdoInv


LEMMA UploadSrvBlockTimeout ==
  ASSUME SdoInv, UploadInv, SrvBlockTimeout
  PROVE  UploadInv'
<1> DEFINE c == [srv EXCEPT !.half = 1, !.st = "DOWNLOAD_BLK_SUBBLOCK_RSP"]
<1>1. srv.st = "DOWNLOAD_BLK_SUBBLOCK_REQ" /\ SrvMove(c)
  BY DEF SrvBlockTimeout
<1>2. /\ SrvBase(srv) /\ srv \in SrvRecord /\ AtPlace(srv) /\ srv.rd = 0
         /\ Len(srv.buf) <= srv.tran
  BY <1>1 DEF SdoInv, SrvOK, SrvBase, SrvAt, DownBlock
<1>3. "DOWNLOAD_BLK_SUBBLOCK_RSP" \in DownBlock /\ "DOWNLOAD_BLK_SUBBLOCK_RSP" \in States
      /\ 1 \in Bit
  BY StatesAre DEF DownBlock, Bit
<1>4. c \in SrvRecord
  BY ONLY <1>2, <1>3 DEF SrvRecord
<1>5. /\ c.st = "DOWNLOAD_BLK_SUBBLOCK_RSP" /\ c.buf = srv.buf /\ c.tran = srv.tran
      /\ c.rd = srv.rd /\ c.rx = srv.rx /\ c.out = srv.out /\ c.crc = srv.crc
      /\ c.idx = srv.idx /\ c.nod = srv.nod /\ c.pos = srv.pos /\ c.len = srv.len /\ c.od = srv.od
  BY ONLY <1>2 DEF SrvRecord
<1> HIDE DEF c
<1>6. SrvBase(c) /\ AtPlace(c)
  BY ONLY <1>2, <1>4, <1>5 DEF SrvBase, AtPlace
<1>7. SrvOK(c)
  BY ONLY <1>2, <1>3, <1>5, <1>6, SrvAtIs DEF SrvOK
<1>8. BlockStored(c, srv)
  BY ONLY <1>5 DEF BlockStored
<1>9. Fewer(toSrv, c.rx, toSrv, srv.rx)
  BY <1>5, TypesAre, FewerFrames
<1>10. Up(srv, toSrv, cli, toCli, job) /\ c.out = <<>> /\ cli.out = <<>>
  BY ONLY <1>5, UploadInv DEF UploadInv
<1>11. Up(c, toSrv, cli, toCli, job)
  BY ONLY <1>1, <1>8, <1>9, <1>10, UpStored
<1> QED
  BY ONLY <1>1, <1>7, <1>10, <1>11, SdoInv, SrvMoveUp

LEMMA UploadSrvReceive ==
  ASSUME SdoInv, UploadInv, CO_SDO_receive
  PROVE  UploadInv'
<1> DEFINE f == Head(toSrv)
           idle == [srv EXCEPT !.st = "IDLE"]
           stored == [StoreBlockSegment(srv, f) EXCEPT !.half = 0]
           heard == [srv EXCEPT !.rx = f]
           u == Tail(toSrv)
<1>1. /\ toSrv # <<>> /\ toSrv' = u /\ cli' = cli /\ toCli' = toCli /\ job' = job
      /\ \/ srv' = srv \/ srv' = idle
         \/ srv.rx = None /\ srv' = heard
         \/ srv.st = "DOWNLOAD_BLK_SUBBLOCK_REQ" /\ srv' = stored
  <2>1. srv' = CASE f.c = "abort" -> idle
              [] f.c # "abort" /\ srv.rx # None -> srv
              [] f.c = "blkEndOk" /\ srv.rx = None /\ srv.st = "UPLOAD_BLK_END_CRSP" -> idle
              [] f.c # "abort" /\ srv.rx = None /\ srv.st = "DOWNLOAD_BLK_SUBBLOCK_REQ" ->
                   IF BlockRoom(srv) THEN stored ELSE srv
              [] f.c # "abort" /\ srv.rx = None /\ srv.st = "DOWNLOAD_BLK_SUBBLOCK_RSP" -> srv
              [] OTHER -> heard
    BY DEF CO_SDO_receive
  <2> HIDE DEF f, idle, stored, heard
  <2>2. \/ srv' = srv \/ srv' = idle \/ (srv.rx = None /\ srv' = heard)
        \/ srv.st = "DOWNLOAD_BLK_SUBBLOCK_REQ" /\ srv' = stored
    <3>1. CASE f.c = "abort"
      <4>1. srv' = idle
        BY ONLY <2>1, <3>1
      <4> QED
        BY ONLY <4>1
    <3>2. CASE f.c # "abort" /\ srv.rx # None
      <4>1. srv' = srv
        BY ONLY <2>1, <3>2
      <4> QED
        BY ONLY <4>1
    <3>3. CASE f.c # "abort" /\ srv.rx = None
      <4>1. \/ srv' = srv \/ srv' = idle \/ srv' = heard
            \/ srv.st = "DOWNLOAD_BLK_SUBBLOCK_REQ" /\ srv' = stored
        BY ONLY <2>1
      <4> QED
        BY ONLY <3>3, <4>1
    <3> QED
      BY ONLY <3>1, <3>2, <3>3
  <2> QED
    BY <2>2 DEF CO_SDO_receive
<1>2. f \in Frames /\ toSrv \in Seq(Frames)
  BY <1>1, HeadTailProperties DEF SdoInv
<1>3. Up(srv, toSrv, cli, toCli, job) /\ srv.out = <<>> /\ cli.out = <<>>
  BY DEF UploadInv
<1>4. /\ Fewer(u, srv.rx, toSrv, srv.rx) /\ Fewer(u, None, toSrv, srv.rx)
      /\ srv.rx = None => Fewer(u, f, toSrv, srv.rx)
      /\ Fewer(toCli, cli.rx, toCli, cli.rx)
  BY <1>1, TypesAre, FewerFrames
<1>5. Louder(toCli, toCli, cli.rx)
  BY TypesAre, NoiseIs, AbortIsNoise
<1> HIDE DEF f, u
<1>6. Up(srv, u, cli, toCli, job)
  BY ONLY <1>3, <1>4, AsAre, UpFewer
<1>7. Up(idle, u, cli, toCli, job) /\ idle.out = <<>>
  <2>1. idle.st \in Gone /\ idle.od = srv.od /\ idle.idx = srv.idx /\ idle.rx = srv.rx /\ idle.out = <<>>
    BY <1>3, TypesAre DEF SrvFields, Gone
  <2> HIDE DEF idle
  <2> QED
    BY ONLY <1>3, <1>4, <1>5, <2>1, UpReset
<1>8. srv.rx = None => Up(heard, u, cli, toCli, job) /\ heard.out = <<>>
  <2>1. AsFar(heard, srv) /\ heard.rx = f /\ heard.out = <<>>
    BY <1>3, TypesAre DEF SrvFields, AsFar
  <2> HIDE DEF heard
  <2> QED
    BY ONLY <1>3, <1>4, <2>1, AsAre, UpFewer
<1>9. srv.st = "DOWNLOAD_BLK_SUBBLOCK_REQ" => Up(stored, u, cli, toCli, job) /\ stored.out = <<>>
  <2> SUFFICES ASSUME srv.st = "DOWNLOAD_BLK_SUBBLOCK_REQ"
               PROVE  Up(stored, u, cli, toCli, job) /\ stored.out = <<>>
    OBVIOUS
  <2>1. BlockStored(stored, srv)
    BY <1>2, TypesAre, StoreBlockSegmentDoes
  <2> HIDE DEF stored
  <2>2. stored.out = <<>> /\ Fewer(u, stored.rx, toSrv, srv.rx)
    BY ONLY <1>3, <1>4, <2>1 DEF BlockStored
  <2> QED
    BY ONLY <1>3, <2>1, <2>2, UpStored, srv.st = "DOWNLOAD_BLK_SUBBLOCK_REQ"
<1> HIDE DEF idle, heard, stored
<1> QED
  BY ONLY <1>1, <1>3, <1>6, <1>7, <1>8, <1>9 DEF UploadInv

LEMMA ValueIs ==
  ASSUME NEW s, SrvOK(s), NEW j \in Jobs
  PROVE  Value(s, j) \in Data /\ Len(Value(s, j)) \in Nat
<1> DEFINE d == s.od[j.obj]
<1>1. d \in Data
  <2>1. s \in SrvRecord /\ j.obj \in Obj
    BY JobIs DEF SrvOK, SrvBase
  <2> QED
    BY ONLY <2>1 DEF SrvRecord
<1> HIDE DEF d
<1>2. Front_(d, TextLen(d)) \in Data
  BY ONLY <1>1, TextLenIs, FrontIs
<1>3. Text(j.obj, d) \in Data
  BY ONLY <1>1, <1>2 DEF Text
<1>4. Value(s, j) \in Data
  BY ONLY <1>3 DEF Value, d
<1> QED
  BY ONLY <1>4, LenIs

\* A client that gives up claims nothing.
LEMMA CliUpGone ==
  ASSUME NEW s, SrvUp(s), NEW q, q.st \in Gone, q.ret # "ok", NEW u, NEW v, NEW j
  PROVE  Up(s, u, q, v, j)
<1>1. q.st \notin CliUp
  BY DEF Gone, CliUp, UpAsked, UpSegment, UpBlock
<1> QED
  BY <1>1, UpOver

\* Nor does one that goes on with a download.
NoUpload(r, k) ==
  /\ DOMAIN r = CliFields /\ r.st \notin CliUp
  /\ r.ret = "ok" => r.st = "IDLE" /\ k.st \in CliDown

LEMMA NotUploading ==
  ASSUME NEW s, SrvUp(s), NEW k, NEW j, k.st \in CliDown => j.op = "download",
         NEW r, NoUpload(r, k), NEW q, q.st = r.st, q.ret = r.ret, NEW u, NEW v
  PROVE  Up(s, u, q, v, j)
<1>1. q.st \notin CliUp /\ (q.ret = "ok" => q.st = "IDLE" /\ ~(j.op = "upload"))
  BY DEF NoUpload
<1> QED
  BY <1>1, UpOver

LEMMA PlainNoUpload ==
  ASSUME NEW k, DOMAIN k = CliFields, k.ret # "ok", NEW st, NEW r, r = [k EXCEPT !.st = st],
         st \notin CliUp
  PROVE  NoUpload(r, k)
BY DEF NoUpload, CliFields

LEMMA EndNoUpload ==
  ASSUME NEW k, DOMAIN k = CliFields, k.ret # "ok"
  PROVE  NoUpload(End(k, "abort"), k) /\ NoUpload(Stop(k), k)
         /\ (k.st \in CliDown => NoUpload(End(k, "ok"), k))
<1>1. "IDLE" \notin CliUp /\ "ABORT" \notin CliUp
  BY DEF CliUp, UpAsked, UpSegment, UpBlock
<1> QED
  BY <1>1, EndIs DEF NoUpload

LEMMA SubBlockNoUpload ==
  ASSUME NEW k, DOMAIN k = CliFields, k.ret # "ok"
  PROVE  NoUpload(SubBlockDownloaded(k), k)
<1> DEFINE again == k.rx.seq < k.seq
           lost == (k.seq - k.rx.seq) * Seg - k.nod
           taken == IF again THEN Low(k.rx.seq * Seg, Len(k.fifo)) ELSE k.alt
           a == [k EXCEPT !.tran = IF again THEN @ - lost ELSE @,
                          !.fin = IF again THEN 0 ELSE @,
                          !.crc = @ \o Front_(k.fifo, taken),
                          !.fifo = Rest(@, taken), !.alt = 0]
           end == [a EXCEPT !.st = "DOWNLOAD_BLK_END_REQ"]
           on == [a EXCEPT !.blk = k.rx.blk, !.seq = 0, !.st = "DOWNLOAD_BLK_SUBBLOCK_REQ"]
           r == SubBlockDownloaded(k)
<1>1. r = IF k.rx.c # "subBlock" \/ k.rx.seq > k.seq THEN Stop(k) ELSE IF a.fin = 1 THEN end ELSE on
  BY DEF SubBlockDownloaded
<1>2. DOMAIN a = CliFields /\ a.ret = k.ret
  BY ONLY DOMAIN k = CliFields DEF CliFields
<1> HIDE DEF a, r, again, taken, lost
<1>3. /\ DOMAIN end = CliFields /\ end.ret = k.ret /\ end.st = "DOWNLOAD_BLK_END_REQ"
      /\ DOMAIN on = CliFields /\ on.ret = k.ret /\ on.st = "DOWNLOAD_BLK_SUBBLOCK_REQ"
  BY ONLY <1>2 DEF CliFields
<1> HIDE DEF end, on
<1>4. r \in {Stop(k), end, on}
  BY ONLY <1>1
<1>5. "DOWNLOAD_BLK_END_REQ" \notin CliUp /\ "DOWNLOAD_BLK_SUBBLOCK_REQ" \notin CliUp
  BY DEF CliUp, UpAsked, UpSegment, UpBlock
<1>6. NoUpload(end, k) /\ NoUpload(on, k)
  BY ONLY <1>3, <1>5, k.ret # "ok" DEF NoUpload
<1>7. NoUpload(r, k)
  BY ONLY <1>4, <1>6, EndNoUpload, DOMAIN k = CliFields, k.ret # "ok"
<1> QED
  BY ONLY <1>7 DEF r

\* A download's frame received.
LEMMA TakesNoUpload ==
  ASSUME NEW k, DOMAIN k = CliFields, k.ret # "ok", k.st \in CliDown \cup {"ABORT"}, NEW mine
  PROVE  NoUpload(CliTaken(k, mine), k)
<1> DEFINE a == [k EXCEPT !.t = 1 - @]
           b == [k EXCEPT !.t = 1 - @, !.st = "DOWNLOAD_SEGMENT_REQ"]
           c == [k EXCEPT !.t = 0, !.st = "DOWNLOAD_SEGMENT_REQ"]
           d == [k EXCEPT !.crc = <<>>, !.blk = k.rx.blk, !.seq = 0, !.alt = 0,
                        !.st = "DOWNLOAD_BLK_SUBBLOCK_REQ"]
           r == CliTaken(k, mine)
<1>1. TookAnswer(r, k)
  BY CliTakenDownloads
<1> HIDE DEF r
<1>2. \/ r \in {End(k, "abort"), Stop(k), c, b, d, SubBlockDownloaded(k)}
      \/ k.st # "ABORT" /\ r \in {End(k, "ok"), End(a, "ok")}
  BY ONLY <1>1 DEF TookAnswer
<1>3. /\ DOMAIN a = CliFields /\ a.ret = k.ret
      /\ DOMAIN b = CliFields /\ b.ret = k.ret /\ b.st = "DOWNLOAD_SEGMENT_REQ"
      /\ DOMAIN c = CliFields /\ c.ret = k.ret /\ c.st = "DOWNLOAD_SEGMENT_REQ"
      /\ DOMAIN d = CliFields /\ d.ret = k.ret /\ d.st = "DOWNLOAD_BLK_SUBBLOCK_REQ"
  BY ONLY DOMAIN k = CliFields DEF CliFields
<1> HIDE DEF a, b, c, d
<1>4. "DOWNLOAD_SEGMENT_REQ" \notin CliUp /\ "DOWNLOAD_BLK_SUBBLOCK_REQ" \notin CliUp /\ "IDLE" \notin CliUp
  BY DEF CliUp, UpAsked, UpSegment, UpBlock
<1>5. NoUpload(b, k) /\ NoUpload(c, k) /\ NoUpload(d, k)
  BY ONLY <1>3, <1>4, k.ret # "ok" DEF NoUpload
<1>6. NoUpload(SubBlockDownloaded(k), k)
  BY SubBlockNoUpload
<1>7. NoUpload(End(k, "abort"), k) /\ NoUpload(Stop(k), k)
      /\ (k.st \in CliDown => NoUpload(End(k, "ok"), k) /\ NoUpload(End(a, "ok"), k))
  <2>1. DOMAIN End(a, "ok") = CliFields /\ End(a, "ok").st = "IDLE"
    BY ONLY <1>3, EndIs
  <2>2. k.st \in CliDown => NoUpload(End(a, "ok"), k)
    BY ONLY <1>4, <2>1 DEF NoUpload
  <2> QED
    BY <2>2, EndNoUpload
<1>8. NoUpload(r, k)
  BY ONLY <1>2, <1>5, <1>6, <1>7, k.st \in CliDown \cup {"ABORT"}
<1> QED
  BY ONLY <1>8 DEF r

\* A download's frame sent.
LEMMA SentNoUpload ==
  ASSUME NEW k, k.st \in CliDown \cup {"ABORT"}, NEW a, DOMAIN a = CliFields, a.ret # "ok", a.st \notin CliUp, NEW g
  PROVE  NoUpload(Send(a, g), k)
<1>1. SameCli(Send(a, g), a) /\ Send(a, g).ret = a.ret /\ DOMAIN Send(a, g) = CliFields
  BY SentIs
<1> QED
  BY ONLY <1>1, a.ret # "ok", a.st \notin CliUp DEF NoUpload, SameCli

LEMMA DownIsNotUp ==
  /\ \A st : st \in CliDown \cup Gone => st \notin CliUp
  /\ "DOWNLOAD_INITIATE_RSP" \in CliDown /\ "DOWNLOAD_SEGMENT_RSP" \in CliDown
  /\ "DOWNLOAD_BLK_INITIATE_RSP" \in CliDown /\ "DOWNLOAD_BLK_SUBBLOCK_RSP" \in CliDown
  /\ "DOWNLOAD_BLK_SUBBLOCK_REQ" \in CliDown /\ "DOWNLOAD_BLK_END_RSP" \in CliDown
<1> USE DEF CliDown, DownRequest, DownStart, DownSegment, DownBlock
<1>1. \A st : st \in CliDown \cup Gone => st \notin CliUp
  BY DEF CliUp, UpAsked, UpSegment, UpBlock, Gone
<1> QED
  BY <1>1

LEMMA RequestsNoUpload ==
  ASSUME NEW k, DOMAIN k = CliFields, k.ret # "ok", k.st \in CliDown \cup {"ABORT"}
  PROVE  /\ NoUpload(RequestDownload(k), k) /\ NoUpload(RequestSegment(k), k)
         /\ NoUpload(RequestBlockSegment(k), k)
<1>0. ASSUME NEW a, DOMAIN a = CliFields, a.ret = k.ret, a.st \in CliDown, NEW g
      PROVE  NoUpload(Send(a, g), k)
  BY <1>0, SentNoUpload, DownIsNotUp
<1>1. NoUpload(RequestDownload(k), k)
  <2> DEFINE n == Len(k.fifo)
             f == [Frame("download") EXCEPT !.idx = k.idx]
             on == [k EXCEPT !.st = "DOWNLOAD_INITIATE_RSP"]
             all == [k EXCEPT !.fifo = <<>>, !.tran = n, !.fin = 1, !.st = "DOWNLOAD_INITIATE_RSP"]
             plain == [f EXCEPT !.ind = k.ind]
             exped == [f EXCEPT !.exp = 1, !.ind = IF k.ind > 0 THEN n ELSE 0,
                                !.data = k.fifo \o Zeros(Exped - n)]
             r == RequestDownload(k)
  <2>1. r \in {Send(on, plain), End(k, "abort"), Send(all, exped)}
    BY DEF RequestDownload
  <2>2. /\ DOMAIN on = CliFields /\ on.ret = k.ret /\ on.st = "DOWNLOAD_INITIATE_RSP"
        /\ DOMAIN all = CliFields /\ all.ret = k.ret /\ all.st = "DOWNLOAD_INITIATE_RSP"
    BY ONLY DOMAIN k = CliFields DEF CliFields
  <2> HIDE DEF on, all, plain, exped, r
  <2>3. NoUpload(Send(on, plain), k) /\ NoUpload(Send(all, exped), k)
    BY ONLY <1>0, <2>2, DownIsNotUp
  <2>4. NoUpload(r, k)
    BY <2>1, <2>3, EndNoUpload
  <2> QED
    BY ONLY <2>4 DEF r
<1>2. NoUpload(RequestSegment(k), k)
  <2> DEFINE n == Low(Len(k.fifo), Seg)
             a == [k EXCEPT !.fifo = Rest(@, n), !.tran = @ + n]
             last == a.fifo = <<>> /\ ~Partial(k)
             on == [a EXCEPT !.fin = IF last THEN 1 ELSE @, !.st = "DOWNLOAD_SEGMENT_RSP"]
             f == [Frame("segment") EXCEPT !.t = k.t, !.last = IF last THEN 1 ELSE 0,
                                           !.data = Front_(k.fifo, n)]
             r == RequestSegment(k)
  <2>1. r \in {Stop(k), Send(on, f)}
    BY DEF RequestSegment
  <2>2. DOMAIN a = CliFields /\ a.ret = k.ret
    BY ONLY DOMAIN k = CliFields DEF CliFields
  <2> HIDE DEF a, f, r, last
  <2>3. DOMAIN on = CliFields /\ on.ret = k.ret /\ on.st = "DOWNLOAD_SEGMENT_RSP"
    BY ONLY <2>2 DEF CliFields
  <2> HIDE DEF on
  <2>4. NoUpload(Send(on, f), k)
    BY ONLY <1>0, <2>3, DownIsNotUp
  <2>5. NoUpload(r, k)
    BY <2>1, <2>4, EndNoUpload
  <2> QED
    BY ONLY <2>5 DEF r
<1>3. NoUpload(RequestBlockSegment(k), k)
  <2> DEFINE left == Len(k.fifo) - k.alt
             n == Low(left, Seg)
             a == [k EXCEPT !.seq = @ + 1, !.alt = @ + n, !.nod = Seg - n, !.tran = @ + n]
             last == n = left /\ ~Partial(k)
             on == [a EXCEPT !.fin = IF last THEN 1 ELSE @,
                             !.st = IF last \/ a.seq >= a.blk THEN "DOWNLOAD_BLK_SUBBLOCK_RSP" ELSE @]
             f == [Frame("block") EXCEPT !.seq = a.seq, !.last = IF last THEN 1 ELSE 0,
                                         !.data = Pad(SubSeq(k.fifo, k.alt + 1, k.alt + n))]
             r == RequestBlockSegment(k)
  <2>1. r \in {k, Stop(a), Send(on, f)}
    BY DEF RequestBlockSegment
  <2>2. DOMAIN a = CliFields /\ a.ret = k.ret /\ a.st = k.st
    BY ONLY DOMAIN k = CliFields DEF CliFields
  <2> HIDE DEF a, f, r, last
  <2>3. DOMAIN on = CliFields /\ on.ret = k.ret /\ on.st \in {"DOWNLOAD_BLK_SUBBLOCK_RSP", k.st}
    BY ONLY <2>2 DEF CliFields
  <2> HIDE DEF on
  <2>4. NoUpload(Send(on, f), k)
    <3>1. on.st \notin CliUp
      BY ONLY <2>3, DownIsNotUp, k.st \in CliDown \cup {"ABORT"} DEF Gone
    <3> QED
      BY <2>3, <3>1, SentNoUpload
  <2>5. NoUpload(k, k)
    BY DownIsNotUp DEF NoUpload, Gone
  <2>6. NoUpload(Stop(a), k)
    <3>1. NoUpload(Stop(a), a)
      BY <2>2, EndNoUpload
    <3> QED
      BY ONLY <2>2, <3>1 DEF NoUpload
  <2>7. NoUpload(r, k)
    BY ONLY <2>1, <2>4, <2>5, <2>6
  <2> QED
    BY ONLY <2>7 DEF r
<1> QED
  BY <1>1, <1>2, <1>3

LEMMA SendsNoUpload ==
  ASSUME NEW k, DOMAIN k = CliFields, k.ret # "ok", k.st \in CliDown \cup {"ABORT"}
  PROVE  NoUpload(CliSend(k), k)
<1> DEFINE a == [k EXCEPT !.st = "DOWNLOAD_BLK_INITIATE_RSP"]
           f == [Frame("blkDownload") EXCEPT !.idx = k.idx, !.ind = k.ind]
           b == [k EXCEPT !.st = "DOWNLOAD_BLK_END_RSP"]
           g == [Frame("blkEnd") EXCEPT !.ind = k.nod, !.crc = k.crc]
           r == CliSend(k)
<1>1. r \in {RequestDownload(k), RequestSegment(k), Send(a, f), RequestBlockSegment(k), Send(b, g), CliSendUpload(k)}
  BY DEF CliSend
<1>2. CliSendUpload(k) = k
  BY DEF CliSendUpload, CliDown, DownRequest, DownStart, DownSegment, DownBlock
<1>3. /\ DOMAIN a = CliFields /\ a.ret = k.ret /\ a.st = "DOWNLOAD_BLK_INITIATE_RSP"
      /\ DOMAIN b = CliFields /\ b.ret = k.ret /\ b.st = "DOWNLOAD_BLK_END_RSP"
  BY ONLY DOMAIN k = CliFields DEF CliFields
<1> HIDE DEF a, b, f, g, r
<1>4. NoUpload(Send(a, f), k) /\ NoUpload(Send(b, g), k)
  BY <1>3, SentNoUpload, DownIsNotUp
<1>5. NoUpload(k, k)
  BY DownIsNotUp DEF NoUpload, Gone
<1>6. NoUpload(r, k)
  BY ONLY <1>1, <1>2, <1>4, <1>5, RequestsNoUpload, DOMAIN k = CliFields, k.ret # "ok", k.st \in CliDown \cup {"ABORT"}
<1> QED
  BY ONLY <1>6 DEF r

LEMMA AbortsNoUpload ==
  ASSUME NEW k, NEW r, NoUpload(r, k)
  PROVE  NoUpload(SendAbort(r), k)
<1>1. "IDLE" \notin CliUp
  BY DEF CliUp, UpAsked, UpSegment, UpBlock
<1>2. CASE r.st = "ABORT"
  <2>1. DOMAIN SendAbort(r) = CliFields /\ SendAbort(r).st = "IDLE" /\ SendAbort(r).ret = r.ret
    BY <1>2 DEF NoUpload, SendAbort, Send, CliFields
  <2> QED
    BY <1>1, <2>1 DEF NoUpload
<1>3. CASE r.st # "ABORT"
  BY <1>3, GoesOnIs
<1> QED
  BY <1>2, <1>3

\* What becomes of a frame received by a client that uploads.
AnswerTaken(r, k) ==
  \/ r = End(k, "abort") \/ r = Stop(k)
  \/ k.st \in {"UPLOAD_INITIATE_RSP", "UPLOAD_BLK_INITIATE_RSP"} /\ k.rx.c = "uploadOk"
       /\ r = UploadInitiated(k)
  \/ k.st = "UPLOAD_BLK_INITIATE_RSP" /\ k.rx.c = "blkUploadOk"
       /\ r = [k EXCEPT !.ind = IF k.rx.ind > 0 THEN k.rx.ind ELSE @, !.st = "UPLOAD_BLK_INITIATE_REQ2"]
  \/ k.st = "UPLOAD_SEGMENT_RSP" /\ r = UploadedSegment(k)
  \/ k.st = "UPLOAD_BLK_SUBBLOCK_SREQ" /\ r = k
  \/ k.st = "UPLOAD_BLK_END_SREQ" /\ r = BlockUploaded(k)

LEMMA CliTakenUpload ==
  ASSUME NEW k, k.st \in CliUp, NEW mine
  PROVE  AnswerTaken(CliTaken(k, mine), k)
<1> DEFINE a == End(k, "abort")
           b == Stop(k)
           c == UploadInitiated(k)
           d == UploadedSegment(k)
           e == BlockUploadInitiated(k)
           f == BlockUploaded(k)
           g == [k EXCEPT !.ind = IF k.rx.ind > 0 THEN k.rx.ind ELSE @, !.st = "UPLOAD_BLK_INITIATE_REQ2"]
           r == CliTaken(k, mine)
<1>1. CASE k.rx.c = "abort"
  <2>1. r = a
    BY <1>1, Zenon DEF CliTaken
  <2> QED
    BY ONLY <2>1 DEF AnswerTaken
<1>2. CASE k.rx.c # "abort"
  <2>1. k.st \in {"UPLOAD_INITIATE_RSP", "UPLOAD_SEGMENT_RSP", "UPLOAD_BLK_INITIATE_RSP",
                  "UPLOAD_BLK_SUBBLOCK_SREQ", "UPLOAD_BLK_END_SREQ"}
        \/ k.st \in {"UPLOAD_INITIATE_REQ", "UPLOAD_BLK_INITIATE_REQ", "UPLOAD_SEGMENT_REQ",
                  "UPLOAD_BLK_INITIATE_REQ2", "UPLOAD_BLK_SUBBLOCK_CRSP", "UPLOAD_BLK_END_CRSP"}
    BY DEF CliUp, UpAsked, UpSegment, UpBlock
  <2>2. k.st = "UPLOAD_INITIATE_RSP" => r = IF k.rx.c # "uploadOk" \/ ~mine THEN b ELSE c
    BY <1>2 DEF CliTaken
  <2>3. k.st = "UPLOAD_SEGMENT_RSP" => r = d
    BY <1>2 DEF CliTaken
  <2>4. k.st = "UPLOAD_BLK_INITIATE_RSP" => r = IF mine THEN e ELSE b
    BY <1>2 DEF CliTaken
  <2>5. k.st = "UPLOAD_BLK_SUBBLOCK_SREQ" => r = k
    BY <1>2 DEF CliTaken
  <2>6. k.st = "UPLOAD_BLK_END_SREQ" => r = f
    BY <1>2 DEF CliTaken
  <2>7. k.st \in {"UPLOAD_INITIATE_REQ", "UPLOAD_BLK_INITIATE_REQ", "UPLOAD_SEGMENT_REQ",
                  "UPLOAD_BLK_INITIATE_REQ2", "UPLOAD_BLK_SUBBLOCK_CRSP", "UPLOAD_BLK_END_CRSP"} => r = b
    BY <1>2 DEF CliTaken
  <2>8. e = CASE k.rx.c = "uploadOk" -> c [] k.rx.c = "blkUploadOk" -> g [] OTHER -> b
    BY DEF BlockUploadInitiated
  <2>9. AnswerTaken(r, k) <=>
         \/ r = a \/ r = b
         \/ k.st \in {"UPLOAD_INITIATE_RSP", "UPLOAD_BLK_INITIATE_RSP"} /\ k.rx.c = "uploadOk" /\ r = c
         \/ k.st = "UPLOAD_BLK_INITIATE_RSP" /\ k.rx.c = "blkUploadOk" /\ r = g
         \/ k.st = "UPLOAD_SEGMENT_RSP" /\ r = d
         \/ k.st = "UPLOAD_BLK_SUBBLOCK_SREQ" /\ r = k
         \/ k.st = "UPLOAD_BLK_END_SREQ" /\ r = f
    BY ONLY Zenon DEF AnswerTaken
  <2> HIDE DEF a, b, c, d, e, f, g, r
  <2>10. AnswerTaken(r, k)
    BY ONLY <2>1, <2>2, <2>3, <2>4, <2>5, <2>6, <2>7, <2>8, <2>9
  <2> QED
    BY ONLY <2>10 DEF r
<1> QED
  BY ONLY <1>1, <1>2

\* An answer that counts is what the client was waiting for.
UpHeard(s, x, k, y, j) ==
  Quiet(x, s.rx) /\ Mute(y, None) /\ s.st \in Old /\ Told(k.rx, s, k, j)

LEMMA UpAnswerHeard ==
  ASSUME NEW s, NEW x, NEW k, NEW y, NEW j, UpWaiting(s, x, k, y, j), k.rx # None, k.rx.c \notin Noise
  PROVE  UpHeard(s, x, k, y, j)
<1>1. /\ ~Mute(y, k.rx) /\ (Single(y, k.rx) => Mute(y, None))
      /\ k.rx \in Held(y, k.rx)
  BY HeldFrame
<1> QED
  BY ONLY <1>1, UpWaiting(s, x, k, y, j), k.rx.c \notin Noise DEF UpWaiting, Turn, UpHeard

LEMMA HeardIsStill ==
  ASSUME NEW s, NEW x, NEW k, NEW y, NEW j, UpHeard(s, x, k, y, j), s.st \in UpWork \cup Gone
  PROVE  Still(s, x)
<1>1. Held(x, s.rx) = {}
  BY NoFrames DEF UpHeard
<1> QED
  BY ONLY <1>1, s.st \in UpWork \cup Gone DEF Still

\* What makes up a client that is done with an upload, goes on with a segment,
\* or with blocks.
LEMMA UpIsDone ==
  ASSUME NEW s, SrvUp(s), NEW x, NEW q, NEW j, UpDone(s, x, q, j), q.st = "IDLE", NEW y
  PROVE  Up(s, x, q, y, j)
<1>1. /\ q.st \notin UpAsks /\ q.st \notin UpRequest \cup {"UPLOAD_SEGMENT_REQ"}
      /\ q.st \notin CliSegments /\ q.st \notin CliBlocks /\ q.st \notin CliUp
  BY DEF CliUp, UpSegment, UpBlock, UpRequest, UpAsked, UpAsks, CliSegments, CliBlocks
<1>2. CliUpHas(q, j)
  BY ONLY <1>1, q.st = "IDLE" DEF CliUpHas, CliUp, UpAsked, CliBlocks
<1> QED
  BY ONLY <1>1, <1>2, SrvUp(s), UpDone(s, x, q, j) DEF Up

LEMMA UpGoesOn ==
  ASSUME NEW s, SrvUp(s), NEW x, NEW q, NEW y, NEW j \in Jobs, j.op = "upload", q.idx = j.obj,
         q.ret # "ok", q.st = "UPLOAD_SEGMENT_REQ", UpReady(s, x, q, y), UpSegments(s, x, q, j)
  PROVE  Up(s, x, q, y, j)
<1>1. q.st \notin UpAsks /\ q.st \notin CliBlocks /\ ~Finished(q, j)
  BY DEF UpBlock, UpAsks, CliBlocks, Finished
<1>2. CliUpHas(q, j)
  BY DEF CliUpHas, UpAsked, UpBlock
<1> QED
  BY ONLY <1>1, <1>2, SrvUp(s), UpReady(s, x, q, y), UpSegments(s, x, q, j) DEF Up

LEMMA UpGoesOnBlocks ==
  ASSUME NEW s, SrvUp(s), NEW x, NEW q, NEW y, NEW j \in Jobs, j.op = "upload", q.idx = j.obj,
         q.ret # "ok", q.st \in CliBlocks, UpBlocks(s, x, q, y, j),
         IF q.st = "UPLOAD_BLK_INITIATE_REQ2" THEN q.got = <<>> /\ q.fifo = <<>> ELSE q.crc = Had(q)
  PROVE  Up(s, x, q, y, j)
<1>1. /\ q.st \notin UpAsks /\ q.st \notin UpRequest \cup {"UPLOAD_SEGMENT_REQ"}
      /\ q.st \notin CliSegments /\ ~Finished(q, j)
  BY DEF UpBlock, UpAsks, UpRequest, CliBlocks, CliSegments, Finished
<1>2. CliUpHas(q, j)
  BY DEF CliUpHas, UpAsked, UpBlock, CliBlocks
<1> QED
  BY ONLY <1>1, <1>2, SrvUp(s), UpBlocks(s, x, q, y, j) DEF Up

LEMMA UpGoesOnEnd ==
  ASSUME NEW s, SrvUp(s), NEW x, NEW q, NEW y, NEW j \in Jobs, j.op = "upload", q.idx = j.obj,
         q.ret # "ok", q.st = "UPLOAD_BLK_END_CRSP", UpDone(s, x, q, j)
  PROVE  Up(s, x, q, y, j)
<1>1. /\ q.st \notin UpAsks /\ q.st \notin UpRequest \cup {"UPLOAD_SEGMENT_REQ"}
      /\ q.st \notin CliSegments /\ q.st \notin CliBlocks
  BY DEF UpBlock, UpAsks, UpRequest, CliBlocks, CliSegments
<1>2. CliUpHas(q, j)
  BY DEF CliUpHas, UpAsked, UpBlock
<1> QED
  BY ONLY <1>1, <1>2, SrvUp(s), UpDone(s, x, q, j) DEF Up

\* What a client that uploads knows.
LEMMA UpKnows ==
  ASSUME NEW s, NEW x, NEW k, NEW y, NEW j, Up(s, x, k, y, j), k.st \in CliUp
  PROVE  /\ SrvUp(s) /\ CliUpHas(k, j) /\ j \in Jobs /\ j.op = "upload" /\ k.idx = j.obj
         /\ k.ret # "ok"
         /\ k.st \in UpAsks => UpWaiting(s, x, k, y, j)
         /\ k.st \in CliSegments => UpSegments(s, x, k, j)
         /\ k.st \in CliBlocks => UpBlocks(s, x, k, y, j)
<1>1. SrvUp(s) /\ CliUpHas(k, j)
  BY DEF Up
<1>2. k.st # "IDLE"
  BY DEF CliUp, UpAsked, UpSegment, UpBlock
<1> QED
  BY ONLY <1>1, <1>2, Up(s, x, k, y, j), k.st \in CliUp DEF Up, CliUpHas

\* The value itself in the answer, or the first of it to be asked for.
LEMMA HearsInitiated ==
  ASSUME NEW k, CliOK(k), k.rx \in Frames, k.rx # None, k.rx.c = "uploadOk",
         k.st \in {"UPLOAD_INITIATE_RSP", "UPLOAD_BLK_INITIATE_RSP"},
         NEW s, SrvOK(s), NEW x, NEW y, NEW j, Up(s, x, k, y, j),
         NEW q, q = [UploadInitiated(k) EXCEPT !.rx = None]
  PROVE  Up(s, x, q, y, j)
<1> DEFINE front == Front_(k.rx.data, k.rx.ind)
           ind == IF k.rx.ind > 0 THEN k.rx.ind ELSE k.ind
           c == k.fifo \o front
           d == [k EXCEPT !.fifo = @ \o Front_(k.rx.data, k.rx.ind), !.tran = k.rx.ind]
           b == [k EXCEPT !.ind = IF k.rx.ind > 0 THEN k.rx.ind ELSE @, !.t = 0, !.st = "UPLOAD_SEGMENT_REQ"]
<1>1. q = IF k.rx.exp = 1 THEN [End(d, "ok") EXCEPT !.rx = None] ELSE [b EXCEPT !.rx = None]
  BY DEF UploadInitiated
<1>2. DOMAIN k = CliFields /\ k \in CliRecord
  BY CliIs, CliFieldsAre DEF CliOK
<1>3. k.st \in CliUp /\ k.st \in UpAsked /\ k.st \in UpAsks
  BY DEF CliUp, UpAsked, UpAsks
<1>4. /\ SrvUp(s) /\ CliUpHas(k, j) /\ j \in Jobs /\ j.op = "upload" /\ k.idx = j.obj
      /\ k.ret # "ok" /\ UpWaiting(s, x, k, y, j)
  BY <1>3, UpKnows
<1>5. k.got = <<>> /\ k.fifo = <<>> /\ k.tran = 0
  BY <1>3, <1>4 DEF CliUpHas
<1>6. UpHeard(s, x, k, y, j)
  <2>1. k.rx.c \notin Noise
    BY DEF Noise
  <2> QED
    BY <1>4, <2>1, UpAnswerHeard
<1>7. /\ Quiet(x, s.rx) /\ Mute(y, None) /\ s.st \in Old /\ s.idx = j.obj
      /\ IF k.rx.exp = 1 THEN k.rx.data = Value(s, j) /\ s.st \in Gone
         ELSE /\ s.st \in Gone \cup {"UPLOAD_SEGMENT_REQ"}
              /\ s.st = "UPLOAD_SEGMENT_REQ" => s.tran = 0 /\ s.t = 0
  BY ONLY <1>6, k.rx.c = "uploadOk" DEF UpHeard, Told
<1>8. Still(s, x)
  <2>1. s.st \in UpWork \cup Gone
    BY <1>7 DEF UpWork, UpStart
  <2> QED
    BY <1>6, <2>1, HeardIsStill
<1>9. Value(s, j) \in Data /\ Len(Value(s, j)) \in Nat
  BY <1>4, ValueIs
<1>10. <<>> \o <<>> = <<>> /\ <<>> \in Data
  BY ONLY <1>9, CatNone
<1>11. CASE k.rx.exp = 1
  <2>1. q = [End(d, "ok") EXCEPT !.rx = None]
    BY ONLY <1>1, <1>11
  <2>2. DOMAIN d = CliFields /\ d.fifo = c /\ d.got = k.got
    BY ONLY <1>2 DEF CliFields
  <2> HIDE DEF d, c
  <2>3. q.st = "IDLE" /\ q.fifo = c /\ q.got = k.got
    BY ONLY <2>1, <2>2 DEF CliFields, End
  <2>4. front = k.rx.data
    <3>1. k.rx.data \in Data /\ FrameOK(k.rx)
      BY FrameIs
    <3>2. Len(k.rx.data) = k.rx.ind
      BY ONLY <1>11, <3>1, k.rx.c = "uploadOk" DEF FrameOK
    <3> QED
      BY ONLY <3>1, <3>2, WholeIs
  <2>5. front = Value(s, j)
    BY ONLY <1>7, <1>11, <2>4
  <2> HIDE DEF front
  <2>6. c = Value(s, j)
    <3>1. c = <<>> \o Value(s, j)
      BY ONLY <1>5, <2>5 DEF c
    <3> QED
      BY ONLY <1>9, <3>1, CatNone
  <2>7. Had(q) = Value(s, j)
    <3>1. Had(q) = <<>> \o Value(s, j)
      BY ONLY <1>5, <2>3, <2>6 DEF Had
    <3> QED
      BY ONLY <1>9, <3>1, CatNone
  <2>8. UpDone(s, x, q, j)
    BY ONLY <1>8, <2>7 DEF UpDone
  <2> QED
    BY ONLY <1>4, <2>3, <2>8, UpIsDone
<1>12. CASE k.rx.exp # 1
  <2>1. q = [b EXCEPT !.rx = None]
    BY ONLY <1>1, <1>12
  <2>2. /\ DOMAIN b = CliFields /\ b.fifo = k.fifo /\ b.got = k.got /\ b.st = "UPLOAD_SEGMENT_REQ"
        /\ b.t = 0 /\ b.tran = k.tran /\ b.idx = k.idx /\ b.ret = k.ret
    BY ONLY <1>2 DEF CliFields
  <2> HIDE DEF b
  <2>3. /\ q.fifo = <<>> /\ q.got = <<>> /\ q.st = "UPLOAD_SEGMENT_REQ" /\ q.rx = None
        /\ q.t = 0 /\ q.tran = 0 /\ q.idx = j.obj /\ q.ret # "ok"
    BY ONLY <1>4, <1>5, <2>1, <2>2 DEF CliFields
  <2>4. UpReady(s, x, q, y)
    BY ONLY <1>7, <1>12, <2>3 DEF UpReady
  <2>5. UpSegments(s, x, q, j)
    <3>1. Had(q) = <<>>
      BY ONLY <1>10, <2>3 DEF Had
    <3>2. Front_(Value(s, j), 0) = <<>>
      BY ONLY <1>9, WholeIs
    <3>3. q.tran \in 0..Len(Value(s, j))
      BY ONLY <1>9, <2>3
    <3> QED
      BY ONLY <1>7, <1>8, <2>3, <3>1, <3>2, <3>3 DEF UpSegments
  <2> QED
    BY ONLY <1>4, <2>3, <2>4, <2>5, UpGoesOn
<1> QED
  BY ONLY <1>11, <1>12

\* The answer to the request of a block upload.
LEMMA HearsBlockInitiated ==
  ASSUME NEW k, CliOK(k), k.rx \in Frames, k.rx # None, k.rx.c = "blkUploadOk",
         k.st = "UPLOAD_BLK_INITIATE_RSP",
         NEW s, NEW x, NEW y, NEW j, Up(s, x, k, y, j),
         NEW r, r = [k EXCEPT !.ind = IF k.rx.ind > 0 THEN k.rx.ind ELSE @, !.st = "UPLOAD_BLK_INITIATE_REQ2"],
         NEW q, q = [r EXCEPT !.rx = None]
  PROVE  Up(s, x, q, y, j)
<1>1. DOMAIN k = CliFields
  BY CliIs, CliFieldsAre DEF CliOK
<1>2. k.st \in CliUp /\ k.st \in UpAsked /\ k.st \in UpAsks
  BY DEF CliUp, UpAsked, UpAsks
<1>3. /\ SrvUp(s) /\ CliUpHas(k, j) /\ j \in Jobs /\ j.op = "upload" /\ k.idx = j.obj
      /\ k.ret # "ok" /\ UpWaiting(s, x, k, y, j)
  BY <1>2, UpKnows
<1>4. k.got = <<>> /\ k.fifo = <<>>
  BY <1>2, <1>3 DEF CliUpHas
<1>5. UpHeard(s, x, k, y, j)
  <2>1. k.rx.c \notin Noise
    BY DEF Noise
  <2> QED
    BY <1>3, <2>1, UpAnswerHeard
<1>6. Mute(y, None) /\ s.idx = j.obj /\ s.st \in Gone \cup {"UPLOAD_BLK_INITIATE_REQ2"}
  BY ONLY <1>5, k.rx.c = "blkUploadOk" DEF UpHeard, Told
<1>7. Still(s, x)
  <2>1. s.st \in UpWork \cup Gone
    BY <1>6 DEF UpWork, UpStart
  <2> QED
    BY <1>5, <2>1, HeardIsStill
<1>8. /\ DOMAIN r = CliFields /\ r.fifo = k.fifo /\ r.got = k.got /\ r.st = "UPLOAD_BLK_INITIATE_REQ2"
      /\ r.idx = k.idx /\ r.ret = k.ret
  BY ONLY <1>1, r = [k EXCEPT !.ind = IF k.rx.ind > 0 THEN k.rx.ind ELSE @, !.st = "UPLOAD_BLK_INITIATE_REQ2"]
     DEF CliFields
<1>9. /\ q.fifo = <<>> /\ q.got = <<>> /\ q.st = "UPLOAD_BLK_INITIATE_REQ2" /\ q.rx = None
      /\ q.idx = j.obj /\ q.ret # "ok"
  BY ONLY <1>3, <1>4, <1>8, q = [r EXCEPT !.rx = None] DEF CliFields
<1>10. UpBlocks(s, x, q, y, j)
  BY ONLY <1>6, <1>7, <1>9 DEF UpBlocks, Mute, Noise
<1>11. q.st \in CliBlocks
  BY <1>9 DEF CliBlocks
<1> QED
  BY ONLY <1>3, <1>9, <1>10, <1>11, UpGoesOnBlocks

\* A segment's data goes behind what was there.
LEMMA HadGrows ==
  ASSUME NEW got \in Data, NEW fifo \in Data, NEW d \in Data
  PROVE  got \o (fifo \o d) = (got \o fifo) \o d /\ got \o fifo \in Data
<1>1. (got \o fifo) \o d = got \o (fifo \o d)
  BY ONLY CatAssoc, got \in Data, fifo \in Data, d \in Data
<1>2. got \o fifo \in Data
  BY ONLY CatIs, got \in Data, fifo \in Data
<1> QED
  BY ONLY <1>1, <1>2

LEMMA HearsSegment ==
  ASSUME NEW k, CliOK(k), k.rx \in Frames, k.rx # None, k.st = "UPLOAD_SEGMENT_RSP",
         NEW s, SrvOK(s), NEW x, NEW y, NEW j, Up(s, x, k, y, j),
         NEW q, q = [UploadedSegment(k) EXCEPT !.rx = None]
  PROVE  Up(s, x, q, y, j)
<1> DEFINE n == Low(Len(k.rx.data), Room(k.fifo))
           front == Front_(k.rx.data, n)
           fifo == k.fifo \o front
           a == [k EXCEPT !.t = 1 - @, !.fifo = @ \o Front_(k.rx.data, n), !.tran = @ + n]
           b == [a EXCEPT !.st = "UPLOAD_SEGMENT_REQ"]
           r == UploadedSegment(k)
           m == k.tran + Len(k.rx.data)
           v == Value(s, j)
<1>1. \/ r = Stop(k) \/ r = Stop(a)
      \/ /\ ToggleOk(k) /\ ~(n < Len(k.rx.data))
         /\ \/ r = b
            \/ k.rx.last # 0 /\ r = End(a, "ok")
  <2>1. r = IF ~ToggleOk(k) THEN Stop(k)
            ELSE IF n < Len(k.rx.data) \/ (a.ind > 0 /\ a.tran > a.ind) THEN Stop(a)
            ELSE IF k.rx.last = 0 THEN b
            ELSE IF a.ind > 0 /\ a.tran < a.ind THEN Stop(a) ELSE End(a, "ok")
    BY DEF UploadedSegment
  <2> HIDE DEF a, b, r, n
  <2> QED
    BY ONLY <2>1
<1>2. DOMAIN k = CliFields /\ k \in CliRecord /\ k.fifo \in Data /\ k.got \in Data /\ k.t \in Bit
      /\ Fifo - Len(k.fifo) \in Nat
  <2>1. k \in CliRecord
    BY CliIs DEF CliOK
  <2>2. k.got \in Data
    BY ONLY <2>1 DEF CliRecord
  <2> QED
    BY <2>1, <2>2, CliIs, CliFieldsAre DEF CliOK
<1>3. k.st \in CliUp /\ k.st \in CliSegments /\ k.st \in UpAsks
  BY DEF CliUp, UpSegment, UpAsks, CliSegments
<1>4. /\ SrvUp(s) /\ j \in Jobs /\ j.op = "upload" /\ k.idx = j.obj
      /\ k.ret # "ok" /\ UpWaiting(s, x, k, y, j) /\ UpSegments(s, x, k, j)
  BY <1>3, UpKnows
<1>5. /\ DOMAIN a = CliFields /\ a.fifo = fifo /\ a.got = k.got /\ a.t = 1 - k.t /\ a.tran = k.tran + n
      /\ a.idx = k.idx /\ a.ret = k.ret
  BY ONLY <1>2 DEF CliFields
<1>6. k.rx.data \in Data /\ Len(k.rx.data) \in Nat /\ k.rx.last \in Bit
  BY FrameIs
<1>7. v \in Data /\ Len(v) \in Nat
  BY <1>4, ValueIs
<1> HIDE DEF a, r, n, front, fifo, v
<1>8. q = [r EXCEPT !.rx = None]
  BY DEF r
<1>9. CASE r = Stop(k) \/ r = Stop(a)
  <2>1. DOMAIN r = CliFields /\ r.st = "ABORT" /\ r.ret = k.ret
    <3>1. DOMAIN Stop(k) = CliFields /\ Stop(k).st = "ABORT" /\ Stop(k).ret = k.ret
      BY ONLY <1>2, EndIs
    <3>2. DOMAIN Stop(a) = CliFields /\ Stop(a).st = "ABORT" /\ Stop(a).ret = k.ret
      BY ONLY <1>5, EndIs
    <3> QED
      BY ONLY <1>9, <3>1, <3>2
  <2>2. q.st = "ABORT" /\ q.ret # "ok"
    BY ONLY <1>4, <1>8, <2>1 DEF CliFields
  <2>3. q.st \in Gone
    BY ONLY <2>2 DEF Gone
  <2> QED
    BY ONLY <1>4, <2>2, <2>3, CliUpGone
<1>10. CASE /\ ToggleOk(k) /\ ~(n < Len(k.rx.data))
            /\ \/ r = b
               \/ k.rx.last # 0 /\ r = End(a, "ok")
  <2>1. k.rx.c = "segment"
    BY ONLY <1>10 DEF ToggleOk
  <2>2. n = Len(k.rx.data)
    <3>1. n \in Nat /\ n <= Len(k.rx.data)
      BY ONLY <1>2, <1>6, LowIs DEF n, Room
    <3> QED
      BY ONLY <1>6, <1>10, <3>1
  <2>3. UpHeard(s, x, k, y, j)
    <3>1. k.rx.c \notin Noise
      BY ONLY <2>1 DEF Noise
    <3> QED
      BY ONLY <1>4, <3>1, UpAnswerHeard, k.rx # None
  <2>4. Told(k.rx, s, k, j) /\ Quiet(x, s.rx) /\ Mute(y, None) /\ s.st \in Old
    BY ONLY <2>3 DEF UpHeard
  <2>5. /\ m <= Len(v) /\ k.rx.data = Part(v, k.tran, m)
        /\ k.rx.last = 1 => m = Len(v)
        /\ s.st = "UPLOAD_SEGMENT_REQ" => s.tran = m /\ s.t = 1 - k.t
    BY ONLY <2>1, <2>4, k.st = "UPLOAD_SEGMENT_RSP" DEF Told, v
  <2>6. k.tran \in Nat /\ k.tran <= Len(v) /\ Had(k) = Front_(v, k.tran) /\ Still(s, x) /\ s.idx = j.obj
    BY ONLY <1>4, <1>7 DEF UpSegments, v
  <2>7. m \in Nat /\ k.tran <= m
    BY ONLY <1>6, <2>6
  <2>8. Front_(v, k.tran) \o k.rx.data = Front_(v, m)
    BY ONLY <1>7, <2>5, <2>6, <2>7, FrontGrows
  <2>9. front = k.rx.data
    BY ONLY <1>6, <2>2, WholeIs DEF front
  <2>10. k.got \o fifo = Front_(v, m)
    <3>1. fifo = k.fifo \o k.rx.data
      BY ONLY <2>9 DEF fifo
    <3>2. k.got \o (k.fifo \o k.rx.data) = (k.got \o k.fifo) \o k.rx.data
      BY ONLY <1>2, <1>6, HadGrows
    <3> QED
      BY ONLY <2>6, <2>8, <3>1, <3>2 DEF Had
  <2>11. a.tran = m
    BY ONLY <1>5, <2>2
  <2> HIDE DEF m
  <2>12. CASE r = b
    <3>1. /\ DOMAIN b = CliFields /\ b.fifo = fifo /\ b.got = k.got /\ b.st = "UPLOAD_SEGMENT_REQ"
          /\ b.t = 1 - k.t /\ b.tran = m /\ b.idx = k.idx /\ b.ret = k.ret
      BY ONLY <1>5, <2>11 DEF CliFields
    <3> HIDE DEF b
    <3>2. /\ q.fifo = fifo /\ q.got = k.got /\ q.st = "UPLOAD_SEGMENT_REQ" /\ q.rx = None
          /\ q.t = 1 - k.t /\ q.tran = m /\ q.idx = j.obj /\ q.ret # "ok"
      BY ONLY <1>4, <1>8, <2>12, <3>1 DEF CliFields
    <3>3. UpReady(s, x, q, y)
      BY ONLY <2>4, <2>5, <3>2 DEF UpReady
    <3>4. UpSegments(s, x, q, j)
      <4>1. Had(q) = Front_(v, m)
        BY ONLY <2>10, <3>2 DEF Had
      <4>2. m \in 0..Len(v)
        BY ONLY <1>7, <2>5, <2>7
      <4> QED
        BY ONLY <2>6, <3>2, <4>1, <4>2 DEF UpSegments, v
    <3> QED
      BY ONLY <1>4, <3>2, <3>3, <3>4, UpGoesOn
  <2>13. CASE k.rx.last # 0 /\ r = End(a, "ok")
    <3>1. q.st = "IDLE" /\ q.fifo = fifo /\ q.got = k.got
      BY ONLY <1>5, <1>8, <2>13 DEF CliFields, End
    <3>2. m = Len(v)
      BY ONLY <1>6, <2>5, <2>13 DEF Bit
    <3>3. Had(q) = v
      <4>1. Front_(v, Len(v)) = v
        BY ONLY <1>7, WholeIs
      <4> QED
        BY ONLY <2>10, <3>1, <3>2, <4>1 DEF Had
    <3>4. UpDone(s, x, q, j)
      BY ONLY <2>6, <3>3 DEF UpDone, v
    <3> QED
      BY ONLY <1>4, <3>1, <3>4, UpIsDone
  <2> QED
    BY ONLY <1>10, <2>12, <2>13
<1> QED
  BY ONLY <1>1, <1>9, <1>10

\* The end of the last block: its CRC is that of the value, or there is no end.
LEMMA HearsBlockEnd ==
  ASSUME NEW k, CliOK(k), k.rx \in Frames, k.rx # None, k.st = "UPLOAD_BLK_END_SREQ",
         NEW s, NEW x, NEW y, NEW j, Up(s, x, k, y, j),
         NEW q, q = [BlockUploaded(k) EXCEPT !.rx = None]
  PROVE  Up(s, x, q, y, j)
<1> DEFINE d == Front_(k.lastSeg, Seg - k.rx.ind)
           n == Low(Len(d), Room(k.fifo))
           w == Front_(d, n)
           fifo == k.fifo \o w
           crc == k.crc \o w
           a == [k EXCEPT !.fifo = @ \o Front_(d, n), !.crc = @ \o Front_(d, n), !.tran = @ + Len(d)]
           b == [a EXCEPT !.st = "UPLOAD_BLK_END_CRSP"]
           r == BlockUploaded(k)
<1>1. \/ r = Stop(k) \/ r = Stop(a)
      \/ k.rx.c = "blkEnd" /\ ~CrcWrong([crc |-> a.crc, buf |-> <<>>], 2, k.rx.crc) /\ r = b
  <2>1. r = IF k.rx.c # "blkEnd" THEN Stop(k)
      ELSE IF (a.ind > 0 /\ a.tran # a.ind) \/ CrcWrong([crc |-> a.crc, buf |-> <<>>], 2, k.rx.crc)
      THEN Stop(a) ELSE b
    BY DEF BlockUploaded
  <2> HIDE DEF a, b, r, n, d, w, fifo, crc
  <2> QED
    BY ONLY <2>1
<1>2. /\ DOMAIN k = CliFields /\ k \in CliRecord /\ k.fifo \in Data /\ k.got \in Data /\ k.crc \in Data
      /\ Fifo - Len(k.fifo) \in Nat /\ k.lastSeg \in Data /\ Len(k.lastSeg) = Seg
  <2>1. k \in CliRecord /\ Len(k.lastSeg) = Seg
    BY CliIs DEF CliOK, CliAt
  <2>2. k.got \in Data
    BY ONLY <2>1 DEF CliRecord
  <2> QED
    BY <2>1, <2>2, CliIs, CliFieldsAre DEF CliOK
<1>3. k.st \in CliUp /\ k.st \in CliBlocks /\ k.st \in UpBlock \cup {"UPLOAD_BLK_END_SREQ"}
  BY DEF CliUp, CliBlocks
<1>4. /\ SrvUp(s) /\ CliUpHas(k, j) /\ j \in Jobs /\ j.op = "upload" /\ k.idx = j.obj
      /\ k.ret # "ok" /\ UpBlocks(s, x, k, y, j)
  BY <1>3, UpKnows
<1>5. k.crc = Had(k)
  BY ONLY <1>3, <1>4 DEF CliUpHas
<1>6. /\ DOMAIN a = CliFields /\ a.fifo = fifo /\ a.got = k.got /\ a.crc = crc
      /\ a.idx = k.idx /\ a.ret = k.ret
  BY ONLY <1>2 DEF CliFields
<1> HIDE DEF a, r, fifo, crc
<1>7. q = [r EXCEPT !.rx = None]
  BY DEF r
<1>8. CASE r = Stop(k) \/ r = Stop(a)
  <2>1. DOMAIN r = CliFields /\ r.st = "ABORT" /\ r.ret = k.ret
    <3>1. DOMAIN Stop(k) = CliFields /\ Stop(k).st = "ABORT" /\ Stop(k).ret = k.ret
      BY ONLY <1>2, EndIs
    <3>2. DOMAIN Stop(a) = CliFields /\ Stop(a).st = "ABORT" /\ Stop(a).ret = k.ret
      BY ONLY <1>6, EndIs
    <3> QED
      BY ONLY <1>8, <3>1, <3>2
  <2>2. q.st = "ABORT" /\ q.ret # "ok"
    BY ONLY <1>4, <1>7, <2>1 DEF CliFields
  <2>3. q.st \in Gone
    BY ONLY <2>2 DEF Gone
  <2> QED
    BY ONLY <1>4, <2>2, <2>3, CliUpGone
<1>9. CASE k.rx.c = "blkEnd" /\ ~CrcWrong([crc |-> a.crc, buf |-> <<>>], 2, k.rx.crc) /\ r = b
  <2>1. w \in Data
    <3>1. k.rx.ind \in Nat /\ k.rx.ind <= Seg /\ Seg - k.rx.ind \in Nat /\ Seg - k.rx.ind <= Seg
      <4>1. k.rx.ind \in Nat /\ k.rx.ind <= Seg
        BY ONLY <1>9, k.rx \in Frames, FrameIs DEF FrameOK
      <4> QED
        BY ONLY <4>1, SdoAssumption
    <3>2. d \in Data /\ Len(d) \in Nat
      BY ONLY <1>2, <3>1, FrontIs, LenIs
    <3> HIDE DEF d
    <3>3. n \in Nat /\ n <= Len(d)
      BY ONLY <1>2, <3>2, LowIs DEF Room
    <3> HIDE DEF n
    <3> QED
      BY ONLY <3>2, <3>3, FrontIs
  <2> HIDE DEF w
  <2>2. crc \o <<>> = k.rx.crc
    <3> DEFINE z == [crc |-> a.crc, buf |-> <<>>]
    <3>1. z.crc = crc /\ z.buf = <<>>
      BY ONLY <1>6
    <3>2. ~CrcWrong(z, 2, k.rx.crc)
      BY ONLY <1>9
    <3> HIDE DEF z
    <3>3. z.crc \o z.buf = k.rx.crc
      BY ONLY <3>2 DEF CrcWrong
    <3> QED
      BY ONLY <3>1, <3>3
  <2>3. k.rx.crc = Value(s, j)
    <3>1. k.rx \in Held(y, k.rx)
      BY HeldFrame
    <3> QED
      BY ONLY <1>4, <1>9, <3>1 DEF UpBlocks
  <2>4. crc = Value(s, j)
    <3>1. crc \in Data
      BY ONLY <1>2, <2>1, CatIs DEF crc
    <3>2. crc \o <<>> = crc
      BY ONLY <3>1, CatNone
    <3> QED
      BY ONLY <2>2, <2>3, <3>2
  <2>5. k.got \o fifo = crc
    <3> DEFINE had == k.got
               held == k.fifo
    <3>1. had \in Data /\ held \in Data
      BY ONLY <1>2
    <3>2. k.got \o (k.fifo \o w) = had \o (held \o w) /\ (k.got \o k.fifo) \o w = (had \o held) \o w
      OBVIOUS
    <3> HIDE DEF had, held
    <3>3. had \o (held \o w) = (had \o held) \o w
      BY ONLY <2>1, <3>1, HadGrows, ZenonT(40)
    <3>4. k.got \o (k.fifo \o w) = (k.got \o k.fifo) \o w
      BY ONLY <3>2, <3>3
    <3> QED
      BY ONLY <1>5, <3>4 DEF Had, crc, fifo
  <2>6. /\ DOMAIN b = CliFields /\ b.fifo = fifo /\ b.got = k.got /\ b.st = "UPLOAD_BLK_END_CRSP"
        /\ b.idx = k.idx /\ b.ret = k.ret
    BY ONLY <1>6 DEF CliFields
  <2> HIDE DEF b
  <2>7. /\ q.fifo = fifo /\ q.got = k.got /\ q.st = "UPLOAD_BLK_END_CRSP"
        /\ q.idx = j.obj /\ q.ret # "ok"
    BY ONLY <1>4, <1>7, <1>9, <2>6 DEF CliFields
  <2>8. UpDone(s, x, q, j)
    BY ONLY <1>4, <2>4, <2>5, <2>7 DEF UpDone, UpBlocks, Had
  <2> QED
    BY ONLY <1>4, <2>7, <2>8, UpGoesOnEnd
<1> QED
  BY ONLY <1>1, <1>8, <1>9

\* A client that uploads takes a frame.
LEMMA CliTakesUploads ==
  ASSUME NEW k, CliOK(k), k.rx \in Frames, k.rx # None, k.st \in CliUp,
         NEW s, SrvOK(s), NEW x, NEW y \in Seq(Frames), NEW j, Up(s, x, k, y, j), 
         Fewer(x, s.rx, x, s.rx)
  PROVE  Up(s, x, CliTake(k), y, j)
<1> DEFINE r == CliTaken(k, k.rx.idx = k.idx)
           q == [r EXCEPT !.rx = None]
           b == [k EXCEPT !.ind = IF k.rx.ind > 0 THEN k.rx.ind ELSE @, !.st = "UPLOAD_BLK_INITIATE_REQ2"]
<1>1. AnswerTaken(r, k)
  BY CliTakenUpload
<1>2. CliTake(k) = q
  BY DEF CliTake
<1>3. DOMAIN k = CliFields
  BY CliIs, CliFieldsAre DEF CliOK
<1>4. SrvUp(s) /\ k.ret # "ok"
  BY UpKnows
<1> SUFFICES Up(s, x, q, y, j)
  BY <1>2
<1> HIDE DEF r, b
<1>5. CASE r = End(k, "abort") \/ r = Stop(k)
  <2>1. DOMAIN r = CliFields /\ r.st \in Gone /\ r.ret # "ok"
    <3>1. DOMAIN End(k, "abort") = CliFields /\ End(k, "abort").st = "IDLE" /\ End(k, "abort").ret = "abort"
      BY ONLY <1>3 DEF CliFields, End
    <3>2. DOMAIN Stop(k) = CliFields /\ Stop(k).st = "ABORT" /\ Stop(k).ret = k.ret
      BY ONLY <1>3, EndIs
    <3> QED
      BY ONLY <1>4, <1>5, <3>1, <3>2 DEF Gone
  <2>2. q.st \in Gone /\ q.ret # "ok"
    BY ONLY <2>1 DEF CliFields
  <2> HIDE DEF q
  <2> QED
    BY ONLY <1>4, <2>2, CliUpGone
<1>6. CASE k.st \in {"UPLOAD_INITIATE_RSP", "UPLOAD_BLK_INITIATE_RSP"} /\ k.rx.c = "uploadOk"
            /\ r = UploadInitiated(k)
  BY <1>6, HearsInitiated
<1>7. CASE k.st = "UPLOAD_BLK_INITIATE_RSP" /\ k.rx.c = "blkUploadOk" /\ r = b
  BY <1>7, HearsBlockInitiated DEF b
<1>8. CASE k.st = "UPLOAD_SEGMENT_RSP" /\ r = UploadedSegment(k)
  BY <1>8, HearsSegment
<1>9. CASE k.st = "UPLOAD_BLK_SUBBLOCK_SREQ" /\ r = k
  <2>1. /\ q.st = k.st /\ q.idx = k.idx /\ q.tran = k.tran /\ q.t = k.t /\ q.crc = k.crc
        /\ q.got = k.got /\ q.fifo = k.fifo /\ q.ret = k.ret /\ q.rx = None
    BY ONLY <1>3, <1>9 DEF CliFields
  <2> HIDE DEF q
  <2>2. AsHad(q, k)
    BY ONLY <2>1 DEF AsHad, Had
  <2>3. Fewer(y, q.rx, y, k.rx)
    BY <2>1, FewerFrames
  <2>4. AsFar(s, s)
    BY AsAre
  <2> QED
    BY <2>2, <2>3, <2>4, UpFewer
<1>10. CASE k.st = "UPLOAD_BLK_END_SREQ" /\ r = BlockUploaded(k)
  BY <1>10, HearsBlockEnd
<1>11. AnswerTaken(r, k) <=>
  \/ r = End(k, "abort") \/ r = Stop(k)
  \/ k.st \in {"UPLOAD_INITIATE_RSP", "UPLOAD_BLK_INITIATE_RSP"} /\ k.rx.c = "uploadOk"
       /\ r = UploadInitiated(k)
  \/ k.st = "UPLOAD_BLK_INITIATE_RSP" /\ k.rx.c = "blkUploadOk" /\ r = b
  \/ k.st = "UPLOAD_SEGMENT_RSP" /\ r = UploadedSegment(k)
  \/ k.st = "UPLOAD_BLK_SUBBLOCK_SREQ" /\ r = k
  \/ k.st = "UPLOAD_BLK_END_SREQ" /\ r = BlockUploaded(k)
  BY ONLY Zenon DEF AnswerTaken, b
<1> HIDE DEF q
<1> QED
  BY ONLY <1>1, <1>5, <1>6, <1>7, <1>8, <1>9, <1>10, <1>11

LEMMA CliTakesUp ==
  ASSUME NEW k, CliOK(k), k.rx \in Frames, k.rx # None, k.st # "IDLE",
         NEW s, SrvOK(s), NEW x, NEW y \in Seq(Frames), NEW j, Up(s, x, k, y, j),
         k.st \in CliDown => j.op = "download", Fewer(x, s.rx, x, s.rx)
  PROVE  Up(s, x, CliTake(k), y, j)
<1>1. k.st \in CliUp \cup CliDown \cup {"ABORT"} /\ DOMAIN k = CliFields
  <2>1. k \in CliRecord
    BY DEF CliOK, CliBase
  <2>2. k.st \in States /\ DOMAIN k = CliFields
    BY ONLY <2>1, CliFieldsAre DEF CliRecord
  <2> QED
    BY ONLY <2>2, k.st # "IDLE"
       DEF States, Others, CliDown, CliUp, UpAsked, UpSegment, UpBlock, UpRequest, UpStart,
                   DownRequest, DownStart, DownSegment, DownBlock
<1>2. CASE k.st \in CliUp
  BY <1>2, CliTakesUploads
<1>3. CASE k.st \in CliDown \cup {"ABORT"}
  <2> DEFINE r == CliTaken(k, k.rx.idx = k.idx)
             q == [r EXCEPT !.rx = None]
  <2>1. SrvUp(s) /\ k.ret # "ok"
    BY DEF Up, CliUpHas
  <2>2. NoUpload(r, k)
    BY ONLY <1>1, <1>3, <2>1, TakesNoUpload
  <2>3. CliTake(k) = q
    BY DEF CliTake
  <2> HIDE DEF r
  <2>4. q.st = r.st /\ q.ret = r.ret
    BY ONLY <2>2 DEF NoUpload, CliFields
  <2> HIDE DEF q
  <2>5. Up(s, x, q, y, j)
    BY ONLY <2>1, <2>2, <2>4, NotUploading, k.st \in CliDown => j.op = "download"
  <2> QED
    BY ONLY <2>3, <2>5
<1> QED
  BY ONLY <1>1, <1>2, <1>3

\* A client that was ready to ask has asked.
LEMMA AsksUp ==
  ASSUME NEW s, s.rx \in Frames \cup {None}, NEW x \in Seq(Frames), NEW k, NEW y, NEW j,
         Up(s, x, k, y, j), k.st \in UpRequest \cup {"UPLOAD_SEGMENT_REQ"},
         NEW q, q.st \in UpAsks, q.rx = k.rx, q.ret # "ok", CliUpHas(q, j),
         NEW g \in Frames, UpAskedFor(g, s, q, j),
         q.st = "UPLOAD_SEGMENT_RSP" => UpSegments(s, x \o <<g>>, q, j)
  PROVE  Up(s, x \o <<g>>, q, y, j)
<1>1. SrvUp(s) /\ UpReady(s, x, k, y)
  BY DEF Up
<1>2. Quiet(x, s.rx) /\ Mute(y, q.rx) /\ s.st \in Old
  BY <1>1 DEF UpReady
<1>3. Alone(x \o <<g>>, s.rx) /\ Single(y, q.rx)
  BY ONLY <1>2, OneMore, MuteIsSingle, x \in Seq(Frames), s.rx \in Frames \cup {None}, g \in Frames
<1>4. Held(x \o <<g>>, s.rx) = {g}
  <2>1. Held(x \o <<g>>, s.rx) = Held(x, s.rx) \cup {g}
    BY OneMore
  <2>2. Held(x, s.rx) = {}
    BY ONLY <1>2, NoFrames
  <2> QED
    BY ONLY <2>1, <2>2
<1>5. UpWaiting(s, x \o <<g>>, q, y, j)
  BY ONLY <1>2, <1>3, <1>4, UpAskedFor(g, s, q, j) DEF UpWaiting, Turn, Mute
<1>6. /\ q.st \notin UpRequest \cup {"UPLOAD_SEGMENT_REQ"} /\ q.st \notin CliBlocks
      /\ q.st \in CliSegments => q.st = "UPLOAD_SEGMENT_RSP"
      /\ ~Finished(q, j)
  BY ONLY q.st \in UpAsks, q.ret # "ok"
     DEF UpAsks, UpRequest, CliBlocks, CliSegments, UpBlock, Finished
<1> QED
  BY ONLY <1>1, <1>5, <1>6, CliUpHas(q, j),
          q.st = "UPLOAD_SEGMENT_RSP" => UpSegments(s, x \o <<g>>, q, j) DEF Up

\* What is not a request leaves the server where it is.
LEMMA StillSaid ==
  ASSUME NEW s, s.rx \in Frames \cup {None}, NEW x \in Seq(Frames), Still(s, x),
         NEW g \in Frames, g.c \notin Requests
  PROVE  Still(s, x \o <<g>>)
<1>1. Held(x \o <<g>>, s.rx) = Held(x, s.rx) \cup {g}
  BY OneMore
<1> QED
  BY ONLY <1>1, Still(s, x), g.c \notin Requests DEF Still

\* A client in the middle of a block says something.
LEMMA BlocksSayUp ==
  ASSUME NEW s, s.rx \in Frames \cup {None}, NEW x \in Seq(Frames), NEW k, NEW y, NEW j,
         Up(s, x, k, y, j), k.st \in CliBlocks,
         NEW q, q.st \in CliBlocks, q.st # "UPLOAD_BLK_INITIATE_REQ2", q.rx \in {k.rx, None},
         q.idx = k.idx, q.ret = k.ret, q.crc = Had(q),
         NEW g \in Frames, g.c \notin Requests
  PROVE  Up(s, x \o <<g>>, q, y, j)
<1>1. k.st \in CliUp
  BY DEF CliUp, CliBlocks, UpSegment
<1>2. /\ SrvUp(s) /\ j \in Jobs /\ j.op = "upload" /\ k.idx = j.obj
      /\ k.ret # "ok" /\ UpBlocks(s, x, k, y, j)
  BY <1>1, UpKnows
<1>3. Held(y, q.rx) \subseteq Held(y, k.rx)
  BY ONLY q.rx \in {k.rx, None} DEF Held
<1>4. Still(s, x \o <<g>>)
  BY <1>2, StillSaid DEF UpBlocks
<1>5. UpBlocks(s, x \o <<g>>, q, y, j)
  BY ONLY <1>2, <1>3, <1>4 DEF UpBlocks
<1> QED
  BY ONLY <1>2, <1>5, q.idx = k.idx, q.ret = k.ret, q.st \in CliBlocks,
          q.st # "UPLOAD_BLK_INITIATE_REQ2", q.crc = Had(q), UpGoesOnBlocks

\* What is sent does not change what the client has.
SentFrom(q, a, g) ==
  /\ q.st = a.st /\ q.idx = a.idx /\ q.tran = a.tran /\ q.t = a.t /\ q.crc = a.crc
  /\ q.got = a.got /\ q.fifo = a.fifo /\ q.rx = a.rx /\ q.ret = a.ret /\ q.out = <<g>>

LEMMA SentFromIs ==
  ASSUME NEW a, DOMAIN a = CliFields, NEW g
  PROVE  SentFrom(Send(a, g), a, g)
BY DEF CliFields, SentFrom, Send

LEMMA SaidFrame ==
  ASSUME NEW k, CliOK(k), NEW f, CliSend(k).out = <<f>>
  PROVE  f \in Frames
<1> DEFINE r == CliSend(k)
<1>1. CliStep(k, r)
  BY CliSendOK
<1> HIDE DEF r
<1>2. r.out \in Seq(Frames)
  BY ONLY <1>1 DEF CliStep, CliOK, CliBase, CliRecord
<1>3. <<f>> \in Seq(Frames)
  BY ONLY <1>2, CliSend(k).out = <<f>> DEF r
<1> QED
  BY ONLY <1>3, <<f>>[1] = f, Len(<<f>>) = 1, ElementOfSeq, 1 \in 1..1

\* A request as one frame, or a state left for good, or nothing.
LEMMA AsksForUpload ==
  ASSUME NEW s, s.rx \in Frames \cup {None}, NEW x \in Seq(Frames), NEW k, NEW y, NEW j,
         Up(s, x, k, y, j), k.st \in UpRequest,
         NEW a, a.st \in {"UPLOAD_INITIATE_RSP", "UPLOAD_BLK_INITIATE_RSP"},
         a.idx = k.idx, a.got = k.got, a.fifo = k.fifo, a.tran = k.tran, a.rx = k.rx, a.ret = k.ret,
         NEW f \in Frames, f.c \in {"upload", "blkUpload"}, f.idx = k.idx,
         NEW r, SentFrom(r, a, f)
  PROVE  Up(s, x \o <<f>>, r, y, j)
<1>1. k.st \in CliUp /\ k.st \in UpAsked
  BY DEF CliUp, UpAsked, UpRequest
<1>2. j \in Jobs /\ j.op = "upload" /\ k.idx = j.obj /\ k.ret # "ok" /\ CliUpHas(k, j)
  BY <1>1, UpKnows
<1>3. k.got = <<>> /\ k.fifo = <<>> /\ k.tran = 0
  BY ONLY <1>1, <1>2 DEF CliUpHas
<1>4. /\ r.st \in {"UPLOAD_INITIATE_RSP", "UPLOAD_BLK_INITIATE_RSP"} /\ r.idx = j.obj
      /\ r.got = <<>> /\ r.fifo = <<>> /\ r.tran = 0 /\ r.rx = k.rx /\ r.ret # "ok"
  BY <1>2, <1>3 DEF SentFrom
<1>5. r.st \in UpAsks /\ r.st # "UPLOAD_SEGMENT_RSP" /\ r.st \in UpAsked
      /\ r.st \notin UpBlock \cup {"UPLOAD_BLK_END_SREQ"}
  BY ONLY <1>4 DEF UpAsks, UpAsked, UpBlock
<1>6. CliUpHas(r, j)
  BY ONLY <1>2, <1>4, <1>5 DEF CliUpHas
<1>7. UpAskedFor(f, s, r, j)
  BY ONLY <1>2, <1>5, f.c \in {"upload", "blkUpload"}, f.idx = k.idx DEF UpAskedFor
<1> QED
  BY ONLY <1>4, <1>5, <1>6, <1>7, AsksUp, Up(s, x, k, y, j), k.st \in UpRequest, f \in Frames,
          s.rx \in Frames \cup {None}, x \in Seq(Frames)

\* What the frames of an upload say.
LEMMA UploadSays ==
  ASSUME NEW v, NEW n
  PROVE  /\ LET g == [Frame("upload") EXCEPT !.idx = v] IN g.c = "upload" /\ g.idx = v
         /\ LET g == [Frame("blkUpload") EXCEPT !.idx = v, !.blk = n] IN g.c = "blkUpload" /\ g.idx = v
         /\ LET g == [Frame("next") EXCEPT !.t = v] IN g.c = "next" /\ g.t = v
         /\ LET g == [Frame("subBlock") EXCEPT !.seq = v, !.blk = n] IN g.c = "subBlock"
         /\ Frame("blkStart").c = "blkStart" /\ Frame("blkEndOk").c = "blkEndOk"
BY DEF Frame, blank

LEMMA UpRequests ==
  ASSUME NEW k, CliOK(k), k.st \in UpRequest,
         NEW s, s.rx \in Frames \cup {None}, NEW x \in Seq(Frames), NEW y, NEW j,
         Up(s, x, k, y, j)
  PROVE  LET e == SendAbort(CliSend(k)) IN Up(s, x \o e.out, e, y, j)
<1> DEFINE n == FifoBlock(k)
           a == [k EXCEPT !.st = "UPLOAD_INITIATE_RSP"]
           c == [k EXCEPT !.blk = n, !.st = "UPLOAD_BLK_INITIATE_RSP"]
           fa == [Frame("upload") EXCEPT !.idx = k.idx]
           fc == [Frame("blkUpload") EXCEPT !.idx = k.idx, !.blk = n]
           r == CliSend(k)
           e == SendAbort(r)
<1>1. r = Send(a, fa) \/ r = Stop(k) \/ r = Send(c, fc)
  <2>1. k.st = "UPLOAD_INITIATE_REQ" => r = Send(a, fa)
    BY DEF CliSend, CliSendUpload
  <2>2. k.st = "UPLOAD_BLK_INITIATE_REQ" => r = IF n = 0 THEN Stop(k) ELSE Send(c, fc)
    BY DEF CliSend, CliSendUpload
  <2> HIDE DEF a, c, fa, fc, n, r
  <2> QED
    BY ONLY <2>1, <2>2, k.st \in UpRequest DEF UpRequest
<1>2. DOMAIN k = CliFields
  BY CliIs, CliFieldsAre DEF CliOK
<1>3. k.st \in CliUp
  BY DEF CliUp, UpAsked, UpRequest
<1>4. SrvUp(s) /\ k.ret # "ok"
  BY <1>3, UpKnows
<1>5. /\ a.st = "UPLOAD_INITIATE_RSP" /\ a.idx = k.idx /\ a.got = k.got /\ a.fifo = k.fifo
      /\ a.tran = k.tran /\ a.rx = k.rx /\ a.ret = k.ret /\ DOMAIN a = CliFields
  BY ONLY <1>2 DEF CliFields
<1>6. /\ c.st = "UPLOAD_BLK_INITIATE_RSP" /\ c.idx = k.idx /\ c.got = k.got /\ c.fifo = k.fifo
      /\ c.tran = k.tran /\ c.rx = k.rx /\ c.ret = k.ret /\ DOMAIN c = CliFields
  <2> HIDE DEF n
  <2> QED
    BY ONLY <1>2 DEF CliFields
<1>7. fa.c = "upload" /\ fa.idx = k.idx /\ fc.c = "blkUpload" /\ fc.idx = k.idx
  <2> HIDE DEF n
  <2> QED
    BY ONLY UploadSays
<1> SUFFICES Up(s, x \o e.out, e, y, j)
  OBVIOUS
<1> HIDE DEF a, c, fa, fc, n, r
<1>8. CASE r = Stop(k)
  <2>1. e.st \in Gone /\ e.ret # "ok"
    BY ONLY <1>2, <1>4, <1>8, EndIs DEF Gone
  <2> HIDE DEF e
  <2> QED
    BY ONLY <1>4, <2>1, CliUpGone
<1>9. ASSUME NEW b, NEW f, r = Send(b, f), DOMAIN b = CliFields,
             b.st \in {"UPLOAD_INITIATE_RSP", "UPLOAD_BLK_INITIATE_RSP"},
             b.idx = k.idx, b.got = k.got, b.fifo = k.fifo, b.tran = k.tran, b.rx = k.rx, b.ret = k.ret,
             f.c \in {"upload", "blkUpload"}, f.idx = k.idx
      PROVE  Up(s, x \o e.out, e, y, j)
  <2>1. SentFrom(r, b, f)
    BY ONLY <1>9, SentFromIs
  <2>2. r.out = <<f>> /\ r.st # "ABORT"
    BY ONLY <1>9, <2>1 DEF SentFrom
  <2>3. f \in Frames
    BY ONLY <2>2, SaidFrame, CliOK(k) DEF r
  <2>4. e = r
    BY ONLY <2>2, GoesOnIs
  <2>5. Up(s, x \o <<f>>, r, y, j)
    BY <1>9, <2>1, <2>3, AsksForUpload
  <2> HIDE DEF e
  <2> QED
    BY ONLY <2>2, <2>4, <2>5
<1> HIDE DEF e
<1>10. CASE r = Send(a, fa)
  BY ONLY <1>5, <1>7, <1>9, <1>10
<1>11. CASE r = Send(c, fc)
  BY ONLY <1>6, <1>7, <1>9, <1>11
<1> QED
  BY ONLY <1>1, <1>8, <1>10, <1>11

\* A step that sends nothing.
LEMMA SaysNothing ==
  ASSUME NEW k, k.out = <<>>, k.st # "ABORT", NEW s, NEW x \in Seq(Frames), NEW y, NEW j, Up(s, x, k, y, j),
         NEW r, r = k
  PROVE  Up(s, x \o SendAbort(r).out, SendAbort(r), y, j)
<1>1. SendAbort(r) = k
  BY GoesOnIs
<1>2. x \o <<>> = x
  BY EmptyCat
<1>3. Up(s, x \o k.out, k, y, j)
  BY ONLY <1>2, k.out = <<>>, Up(s, x, k, y, j)
<1> QED
  BY ONLY <1>1, <1>3

LEMMA UpRequestsSegment ==
  ASSUME NEW k, CliOK(k), k.out = <<>>, k.st = "UPLOAD_SEGMENT_REQ",
         NEW s, s.rx \in Frames \cup {None}, NEW x \in Seq(Frames), NEW y, NEW j,
         Up(s, x, k, y, j)
  PROVE  LET e == SendAbort(CliSend(k)) IN Up(s, x \o e.out, e, y, j)
<1> DEFINE b == [k EXCEPT !.st = "UPLOAD_SEGMENT_RSP"]
           f == [Frame("next") EXCEPT !.t = k.t]
           r == CliSend(k)
           e == SendAbort(r)
<1>1. r = k \/ r = Send(b, f)
  BY DEF CliSend, CliSendUpload
<1>2. DOMAIN k = CliFields
  BY CliIs, CliFieldsAre DEF CliOK
<1>3. k.st \in CliUp /\ k.st \in CliSegments
  BY DEF CliUp, UpSegment, CliSegments
<1>4. /\ SrvUp(s) /\ j \in Jobs /\ j.op = "upload" /\ k.idx = j.obj /\ k.ret # "ok"
      /\ UpSegments(s, x, k, j)
  BY <1>3, UpKnows
<1>5. UpReady(s, x, k, y)
  BY DEF Up
<1>6. /\ b.st = "UPLOAD_SEGMENT_RSP" /\ b.idx = k.idx /\ b.got = k.got /\ b.fifo = k.fifo /\ b.t = k.t
      /\ b.tran = k.tran /\ b.rx = k.rx /\ b.ret = k.ret /\ DOMAIN b = CliFields
  BY ONLY <1>2 DEF CliFields
<1>7. f.c = "next" /\ f.t = k.t
  BY ONLY UploadSays
<1> SUFFICES Up(s, x \o e.out, e, y, j)
  OBVIOUS
<1> HIDE DEF b, f, r
<1>8. CASE r = k
  BY <1>8, SaysNothing
<1>9. CASE r = Send(b, f)
  <2>1. SentFrom(r, b, f)
    BY ONLY <1>6, <1>9, SentFromIs
  <2>2. r.out = <<f>> /\ r.st = "UPLOAD_SEGMENT_RSP" /\ r.idx = j.obj /\ r.got = k.got /\ r.fifo = k.fifo
        /\ r.t = k.t /\ r.tran = k.tran /\ r.rx = k.rx /\ r.ret # "ok"
    BY ONLY <1>4, <1>6, <2>1 DEF SentFrom
  <2>3. f \in Frames
    <3>1. CliSend(k).out = <<f>>
      BY ONLY <2>2 DEF r
    <3> QED
      BY ONLY <3>1, SaidFrame, CliOK(k)
  <2>4. e = r
    BY ONLY <2>2, GoesOnIs
  <2>5. CliUpHas(r, j)
    BY ONLY <1>4, <2>2 DEF CliUpHas, UpAsked, UpBlock
  <2>6. UpAskedFor(f, s, r, j)
    <3>1. s.st = "UPLOAD_SEGMENT_REQ" => s.tran = k.tran /\ s.t = k.t
      BY ONLY <1>5, k.st = "UPLOAD_SEGMENT_REQ" DEF UpReady
    <3> QED
      BY ONLY <1>7, <2>2, <3>1 DEF UpAskedFor
  <2>7. UpSegments(s, x \o <<f>>, r, j)
    <3>1. f.c \notin Requests
      BY ONLY <1>7 DEF Requests
    <3>2. Still(s, x)
      BY ONLY <1>4 DEF UpSegments
    <3>3. Still(s, x \o <<f>>)
      BY ONLY <2>3, <3>1, <3>2, StillSaid, s.rx \in Frames \cup {None}, x \in Seq(Frames)
    <3>4. Had(r) = Had(k)
      BY ONLY <2>2 DEF Had
    <3> QED
      BY ONLY <1>4, <2>2, <3>3, <3>4 DEF UpSegments
  <2>8. r.st \in UpAsks
    BY ONLY <2>2 DEF UpAsks
  <2>9. Up(s, x \o <<f>>, r, y, j)
    BY ONLY <2>2, <2>3, <2>5, <2>6, <2>7, <2>8, AsksUp, Up(s, x, k, y, j), k.st = "UPLOAD_SEGMENT_REQ",
            s.rx \in Frames \cup {None}, x \in Seq(Frames)
  <2> HIDE DEF e
  <2> QED
    BY ONLY <2>2, <2>4, <2>9
<1> QED
  BY ONLY <1>1, <1>8, <1>9

\* In the middle of a block, and at its ends.
LEMMA UpBlockSays ==
  ASSUME NEW k, CliOK(k), k.st \in CliBlocks,
         NEW s, s.rx \in Frames \cup {None}, NEW x \in Seq(Frames), NEW y, NEW j,
         Up(s, x, k, y, j),
         NEW a, DOMAIN a = CliFields, a.st \in CliBlocks, a.st # "UPLOAD_BLK_INITIATE_REQ2",
         a.rx \in {k.rx, None}, a.idx = k.idx, a.ret = k.ret, a.crc = Had(a),
         NEW f, f.c \notin Requests, CliSend(k) = Send(a, f)
  PROVE  LET e == SendAbort(CliSend(k)) IN Up(s, x \o e.out, e, y, j)
<1> DEFINE r == CliSend(k)
           e == SendAbort(r)
<1>0. r = Send(a, f)
  OBVIOUS
<1> SUFFICES Up(s, x \o e.out, e, y, j)
  OBVIOUS
<1> HIDE DEF r
<1>1. SentFrom(r, a, f)
  BY ONLY <1>0, SentFromIs, DOMAIN a = CliFields
<1>2. /\ r.out = <<f>> /\ r.st = a.st /\ r.idx = k.idx /\ r.rx \in {k.rx, None} /\ r.ret = k.ret
      /\ r.crc = a.crc /\ r.got = a.got /\ r.fifo = a.fifo
  BY ONLY <1>1, a.rx \in {k.rx, None}, a.idx = k.idx, a.ret = k.ret DEF SentFrom
<1>3. r.crc = Had(r)
  BY ONLY <1>2, a.crc = Had(a) DEF Had
<1>4. f \in Frames
  <2>1. CliSend(k).out = <<f>>
    BY ONLY <1>2 DEF r
  <2> QED
    BY ONLY <2>1, SaidFrame, CliOK(k)
<1>5. e = r
  <2>1. r.st # "ABORT"
    BY ONLY <1>2, a.st \in CliBlocks DEF CliBlocks, UpBlock
  <2> QED
    BY ONLY <2>1, GoesOnIs
<1>6. Up(s, x \o <<f>>, r, y, j)
  BY ONLY <1>2, <1>3, <1>4, BlocksSayUp, Up(s, x, k, y, j), k.st \in CliBlocks, a.st \in CliBlocks,
          a.st # "UPLOAD_BLK_INITIATE_REQ2", f.c \notin Requests,
          s.rx \in Frames \cup {None}, x \in Seq(Frames)
<1> HIDE DEF e
<1> QED
  BY ONLY <1>2, <1>5, <1>6

LEMMA UpRequestsBlock ==
  ASSUME NEW k, CliOK(k), k.st = "UPLOAD_BLK_INITIATE_REQ2",
         NEW s, s.rx \in Frames \cup {None}, NEW x \in Seq(Frames), NEW y, NEW j,
         Up(s, x, k, y, j)
  PROVE  LET e == SendAbort(CliSend(k)) IN Up(s, x \o e.out, e, y, j)
<1> DEFINE d == [k EXCEPT !.seq = 0, !.crc = <<>>, !.rx = None, !.half = 0, !.st = "UPLOAD_BLK_SUBBLOCK_SREQ"]
           f == Frame("blkStart")
<1>1. CliSend(k) = Send(d, f)
  BY DEF CliSend, CliSendUpload
<1>2. DOMAIN k = CliFields
  BY CliIs, CliFieldsAre DEF CliOK
<1>3. CliUpHas(k, j)
  BY DEF Up
<1>4. k.got = <<>> /\ k.fifo = <<>>
  BY <1>3 DEF CliUpHas
<1>5. /\ d.st = "UPLOAD_BLK_SUBBLOCK_SREQ" /\ d.idx = k.idx /\ d.got = k.got /\ d.fifo = k.fifo
      /\ d.crc = <<>> /\ d.rx = None /\ d.ret = k.ret /\ DOMAIN d = CliFields
  BY ONLY <1>2 DEF CliFields
<1>6. f.c = "blkStart"
  BY ONLY UploadSays
<1> HIDE DEF d, f
<1>7. d.crc = Had(d)
  <2>1. <<>> \o <<>> = <<>>
    BY CatNone DEF Data
  <2> QED
    BY ONLY <1>4, <1>5, <2>1 DEF Had
<1>8. k.st \in CliBlocks /\ d.st \in CliBlocks /\ d.st # "UPLOAD_BLK_INITIATE_REQ2" /\ f.c \notin Requests
  BY <1>5, <1>6 DEF CliBlocks, UpBlock, Requests
<1> QED
  BY <1>1, <1>5, <1>7, <1>8, UpBlockSays

LEMMA UpAnswersBlock ==
  ASSUME NEW k, CliOK(k), k.out = <<>>, k.st = "UPLOAD_BLK_SUBBLOCK_CRSP",
         NEW s, s.rx \in Frames \cup {None}, NEW x \in Seq(Frames), NEW y, NEW j,
         Up(s, x, k, y, j)
  PROVE  LET e == SendAbort(CliSend(k)) IN Up(s, x \o e.out, e, y, j)
<1> DEFINE n == FifoBlock(k)
           f == [Frame("subBlock") EXCEPT !.seq = k.seq, !.blk = k.blk]
           g == [Frame("subBlock") EXCEPT !.seq = k.seq, !.blk = n]
           a == [k EXCEPT !.st = "UPLOAD_BLK_END_SREQ"]
           b == [k EXCEPT !.blk = n, !.seq = 0, !.rx = None, !.st = "UPLOAD_BLK_SUBBLOCK_SREQ"]
           r == CliSend(k)
           e == SendAbort(r)
<1>1. r = Send(a, f) \/ r = Stop(k) \/ r = k \/ r = Send(b, g)
  <2>1. r = IF k.fin = 1 THEN Send(a, f) ELSE IF k.ind > 0 /\ k.tran > k.ind THEN Stop(k)
          ELSE IF n < Cap /\ k.fifo # <<>> THEN k ELSE Send(b, g)
    BY DEF CliSend, CliSendUpload, AnswerUploadBlock
  <2> HIDE DEF a, b, f, g, n, r
  <2> QED
    BY ONLY <2>1
<1>2. DOMAIN k = CliFields
  BY CliIs, CliFieldsAre DEF CliOK
<1>3. k.st \in CliUp /\ k.st \in CliBlocks /\ k.st \in UpBlock \cup {"UPLOAD_BLK_END_SREQ"}
  BY DEF CliUp, UpBlock, CliBlocks
<1>4. SrvUp(s) /\ k.ret # "ok" /\ CliUpHas(k, j)
  BY <1>3, UpKnows
<1>5. k.crc = Had(k)
  BY ONLY <1>3, <1>4 DEF CliUpHas
<1>6. /\ a.st = "UPLOAD_BLK_END_SREQ" /\ a.idx = k.idx /\ a.got = k.got /\ a.fifo = k.fifo
      /\ a.crc = k.crc /\ a.rx = k.rx /\ a.ret = k.ret /\ DOMAIN a = CliFields
  BY ONLY <1>2 DEF CliFields
<1>7. /\ b.st = "UPLOAD_BLK_SUBBLOCK_SREQ" /\ b.idx = k.idx /\ b.got = k.got /\ b.fifo = k.fifo
      /\ b.crc = k.crc /\ b.rx = None /\ b.ret = k.ret /\ DOMAIN b = CliFields
  <2> HIDE DEF n
  <2> QED
    BY ONLY <1>2 DEF CliFields
<1>8. f.c = "subBlock" /\ g.c = "subBlock"
  <2> HIDE DEF n
  <2> QED
    BY ONLY UploadSays
<1> SUFFICES Up(s, x \o e.out, e, y, j)
  OBVIOUS
<1> HIDE DEF a, b, f, g, n
<1>9. /\ a.crc = Had(a) /\ b.crc = Had(b) /\ f.c \notin Requests /\ g.c \notin Requests
      /\ a.st \in CliBlocks /\ b.st \in CliBlocks
  BY ONLY <1>5, <1>6, <1>7, <1>8 DEF Had, Requests, CliBlocks, UpBlock
<1>10. CASE r = Stop(k)
  <2> HIDE DEF r
  <2>1. e.st \in Gone /\ e.ret # "ok"
    BY ONLY <1>2, <1>4, <1>10, EndIs DEF Gone
  <2> HIDE DEF e
  <2> QED
    BY ONLY <1>4, <2>1, CliUpGone
<1>11. CASE r = k
  <2> HIDE DEF r
  <2> QED
    BY <1>11, SaysNothing
<1>12. CASE r = Send(a, f)
  BY <1>3, <1>6, <1>9, <1>12, UpBlockSays
<1>13. CASE r = Send(b, g)
  BY <1>3, <1>7, <1>9, <1>13, UpBlockSays
<1> HIDE DEF r
<1> QED
  BY ONLY <1>1, <1>10, <1>11, <1>12, <1>13

LEMMA UpEnds ==
  ASSUME NEW k, CliOK(k), k.st = "UPLOAD_BLK_END_CRSP",
         NEW s, s.rx \in Frames \cup {None}, NEW x \in Seq(Frames), NEW y, NEW j,
         Up(s, x, k, y, j)
  PROVE  LET e == SendAbort(CliSend(k)) IN Up(s, x \o e.out, e, y, j)
<1> DEFINE a == End(k, "ok")
           f == Frame("blkEndOk")
           r == CliSend(k)
           e == SendAbort(r)
<1>1. r = Send(a, f)
  BY DEF CliSend, CliSendUpload
<1>2. DOMAIN k = CliFields
  BY CliIs, CliFieldsAre DEF CliOK
<1>3. SrvUp(s) /\ UpDone(s, x, k, j)
  BY DEF Up, Finished
<1>4. a.st = "IDLE" /\ a.got = k.got /\ a.fifo = k.fifo /\ DOMAIN a = CliFields
  BY ONLY <1>2 DEF CliFields, End
<1>5. f.c = "blkEndOk"
  BY ONLY UploadSays
<1> SUFFICES Up(s, x \o e.out, e, y, j)
  OBVIOUS
<1> HIDE DEF a, f, r
<1>6. SentFrom(r, a, f)
  BY ONLY <1>1, <1>4, SentFromIs
<1>7. r.out = <<f>> /\ r.st = "IDLE" /\ r.got = k.got /\ r.fifo = k.fifo
  BY ONLY <1>4, <1>6 DEF SentFrom
<1>8. f \in Frames
  <2>1. CliSend(k).out = <<f>>
    BY ONLY <1>7 DEF r
  <2> QED
    BY ONLY <2>1, SaidFrame, CliOK(k)
<1>9. UpDone(s, x \o <<f>>, r, j)
  <2>1. f.c \notin Requests
    BY ONLY <1>5 DEF Requests
  <2>2. Still(s, x)
    BY ONLY <1>3 DEF UpDone
  <2>3. Still(s, x \o <<f>>)
    BY ONLY <1>8, <2>1, <2>2, StillSaid, s.rx \in Frames \cup {None}, x \in Seq(Frames)
  <2> QED
    BY ONLY <1>3, <1>7, <2>3 DEF UpDone, Had
<1>10. Up(s, x \o <<f>>, r, y, j)
  BY ONLY <1>3, <1>7, <1>9, UpIsDone
<1>11. e = r
  BY ONLY <1>7, GoesOnIs
<1> HIDE DEF e
<1> QED
  BY ONLY <1>7, <1>10, <1>11

\* Whatever the client sends.
LEMMA CliGivesUploads ==
  ASSUME NEW k, CliOK(k), k.out = <<>>,
         NEW s, s.rx \in Frames \cup {None}, NEW x \in Seq(Frames), NEW y, NEW j,
         Up(s, x, k, y, j), k.st \in CliDown => j.op = "download"
  PROVE  LET e == SendAbort(CliSend(k)) IN Up(s, x \o e.out, e, y, j)
<1> DEFINE r == CliSend(k)
           e == SendAbort(r)
<1>1. k.st \in CliUp \cup CliDown \cup Gone /\ DOMAIN k = CliFields
  <2>1. k \in CliRecord
    BY DEF CliOK, CliBase
  <2>2. k.st \in States /\ DOMAIN k = CliFields
    BY ONLY <2>1, CliFieldsAre DEF CliRecord
  <2> QED
    BY ONLY <2>2
       DEF States, Others, CliDown, CliUp, UpAsked, UpSegment, UpBlock, UpRequest, UpStart,
                   DownRequest, DownStart, DownSegment, DownBlock, Gone
<1>2. SrvUp(s) /\ (k.ret = "ok" => k.st = "IDLE")
  BY DEF Up, CliUpHas
<1>3. CASE k.st \in CliUp
  <2>1. k.st \in {"UPLOAD_INITIATE_RSP", "UPLOAD_SEGMENT_RSP", "UPLOAD_BLK_INITIATE_RSP",
                  "UPLOAD_BLK_SUBBLOCK_SREQ", "UPLOAD_BLK_END_SREQ"}
        \/ k.st \in UpRequest
        \/ k.st \in {"UPLOAD_SEGMENT_REQ", "UPLOAD_BLK_INITIATE_REQ2", "UPLOAD_BLK_SUBBLOCK_CRSP",
                     "UPLOAD_BLK_END_CRSP"}
    BY <1>3 DEF CliUp, UpAsked, UpSegment, UpBlock, UpRequest
  <2>2. CASE k.st \in {"UPLOAD_INITIATE_RSP", "UPLOAD_SEGMENT_RSP", "UPLOAD_BLK_INITIATE_RSP",
                       "UPLOAD_BLK_SUBBLOCK_SREQ", "UPLOAD_BLK_END_SREQ"}
    <3>1. r = k
      BY <2>2 DEF CliSend, CliSendUpload
    <3>2. k.st # "ABORT"
      BY <2>2
    <3> HIDE DEF r
    <3>3. Up(s, x \o SendAbort(r).out, SendAbort(r), y, j)
      BY <3>1, <3>2, SaysNothing
    <3> QED
      BY ONLY <3>3 DEF r
  <2> HIDE DEF r
  <2> QED
    BY <2>1, <2>2, UpRequests, UpRequestsSegment, UpRequestsBlock, UpAnswersBlock, UpEnds DEF r
<1>4. CASE k.st = "IDLE"
  <2>1. r = k
    BY <1>4 DEF CliSend, CliSendUpload
  <2>2. k.st # "ABORT"
    BY <1>4
  <2> HIDE DEF r
  <2>3. Up(s, x \o SendAbort(r).out, SendAbort(r), y, j)
    BY <2>1, <2>2, SaysNothing
  <2> QED
    BY ONLY <2>3 DEF r
<1>5. CASE k.st \in CliDown \cup {"ABORT"}
  <2>1. k.ret # "ok"
    BY <1>2, <1>5, CliStatesAre
  <2>2. NoUpload(r, k)
    BY ONLY <1>1, <1>5, <2>1, SendsNoUpload
  <2> HIDE DEF r
  <2>3. NoUpload(e, k)
    BY ONLY <2>2, AbortsNoUpload
  <2> HIDE DEF e
  <2>4. Up(s, x \o e.out, e, y, j)
    BY ONLY <1>2, <2>3, NotUploading, k.st \in CliDown => j.op = "download"
  <2> QED
    BY ONLY <2>4 DEF e, r
<1> QED
  BY ONLY <1>1, <1>3, <1>4, <1>5 DEF Gone

\* The client's step ends.
LEMMA CliGoesOnUp ==
  ASSUME SdoInv, srv.out = <<>>, NEW e, CliOK(e),
         Up(srv, toSrv \o e.out, e, toCli, job), CliGoesOn(e)
  PROVE  UploadInv'
<1> DEFINE ret == IF e.out = <<abort>> THEN "abort" ELSE e.ret
           q == [e EXCEPT !.out = <<>>, !.ret = ret]
           u == toSrv \o e.out
<1>1. DOMAIN e = CliFields /\ e.rx \in Frames \cup {None} /\ e.out \in Seq(Frames)
  BY CliIs, CliFieldsAre DEF CliOK
<1>2. cli' = q /\ toSrv' = u /\ srv' = srv /\ toCli' = toCli /\ job' = job
  <2>1. cli' = [e EXCEPT !.out = <<>>, !.ret = IF e.out = <<abort>> THEN "abort" ELSE @]
    BY DEF CliGoesOn
  <2>2. cli' = q
    BY ONLY <1>1, <2>1 DEF CliFields
  <2> QED
    BY <2>2 DEF CliGoesOn
<1>3. ret = "ok" => e.ret = "ok"
  OBVIOUS
<1> HIDE DEF ret
<1>4. AsHad(q, e) /\ q.out = <<>> /\ q.rx = e.rx
  BY ONLY <1>1, <1>3 DEF AsHad, Had, CliFields
<1>5. u \in Seq(Frames)
  BY <1>1, TypesAre, ConcatProperties
<1>6. Up(srv, u, e, toCli, job)
  OBVIOUS
<1> HIDE DEF q, u
<1>7. Fewer(u, srv.rx, u, srv.rx) /\ Fewer(toCli, e.rx, toCli, e.rx)
  BY <1>1, <1>5, TypesAre, FewerFrames
<1>8. Up(srv, u, q, toCli, job)
  BY ONLY <1>4, <1>6, <1>7, AsAre, UpFewer
<1> QED
  BY ONLY <1>2, <1>4, <1>8, srv.out = <<>> DEF UploadInv

LEMMA CliMoveUp ==
  ASSUME SdoInv, srv.out = <<>>, NEW k, CliOK(k), k.out = <<>>,
         Up(srv, toSrv, k, toCli, job), k.st \in CliDown => job.op = "download", CliMove(k)
  PROVE  UploadInv'
<1> DEFINE e == SendAbort(CliSend(k))
<1>1. CliOK(e)
  <2>1. CliOK(CliSend(k))
    BY CliSendOK DEF CliStep
  <2> QED
    BY <2>1, CliSendAbortOK DEF CliStep
<1>2. Up(srv, toSrv \o e.out, e, toCli, job)
  BY CliGivesUploads, TypesAre
<1>3. Up(srv, toSrv \o k.out, k, toCli, job)
  BY TypesAre, EmptyCat
<1>4. CliGoesOn(e) \/ CliGoesOn(k)
  BY DEF CliMove
<1> HIDE DEF e
<1> QED
  BY <1>1, <1>2, <1>3, <1>4, CliGoesOnUp

LEMMA UploadCliProcess ==
  ASSUME SdoInv, UploadInv, CO_SDOclient_process
  PROVE  UploadInv'
<1> DEFINE k == IF cli.rx = None THEN cli ELSE CliTake(cli)
<1>1. CliMove(k) /\ cli.st # "IDLE"
  BY DEF CO_SDOclient_process
<1>2. cli.st \in CliDown => job.op = "download"
  BY DEF SdoInv
<1>3. Up(srv, toSrv, cli, toCli, job) /\ cli.out = <<>> /\ srv.out = <<>>
  BY DEF UploadInv
<1>4. CliOK(k) /\ k.out = <<>> /\ Up(srv, toSrv, k, toCli, job) /\ (k.st \in CliDown => cli.st \in CliDown)
  <2>1. CASE cli.rx = None
    BY <1>3, <2>1, TypesAre
  <2>2. CASE cli.rx # None
    <3>1. cli.rx \in Frames /\ CliOK(cli)
      BY <2>2, TypesAre
    <3>2. CliOK(CliTake(cli)) /\ (CliTake(cli).st \in CliDown => cli.st \in CliDown)
      BY ONLY <3>1, CliTakeOK DEF CliStep
    <3>3. CliTake(cli).out = cli.out
      BY ONLY <1>1, <3>1, TakenSameOut
    <3>4. Fewer(toSrv, srv.rx, toSrv, srv.rx) /\ SrvOK(srv) /\ toCli \in Seq(Frames)
      BY TypesAre, FewerFrames
    <3>5. Up(srv, toSrv, CliTake(cli), toCli, job)
      BY ONLY <1>1, <1>2, <1>3, <2>2, <3>1, <3>4, CliTakesUp
    <3> QED
      BY ONLY <1>3, <2>2, <3>2, <3>3, <3>5
  <2> QED
    BY ONLY <2>1, <2>2
<1> HIDE DEF k
<1> QED
  BY ONLY <1>1, <1>2, <1>3, <1>4, CliMoveUp, SdoInv

LEMMA UploadCliTimeout ==
  ASSUME SdoInv, UploadInv, CliTimeout
  PROVE  UploadInv'
<1> DEFINE c == Stop(cli)
           e == SendAbort(c)
<1>1. (CliGoesOn(c) \/ CliGoesOn(e)) /\ cli.st # "IDLE"
  BY DEF CliTimeout, CliGivesUp
<1>2. CliOK(c) /\ CliOK(e)
  <2>1. CliOK(c)
    BY TypesAre, CliEnds DEF CliOK
  <2> QED
    BY <2>1, CliSendAbortOK DEF CliStep
<1>3. DOMAIN cli = CliFields
  BY TypesAre, CliFieldsAre
<1>4. SrvUp(srv) /\ srv.out = <<>> /\ cli.ret # "ok"
  BY <1>1 DEF UploadInv, Up, CliUpHas
<1>5. c.st \in Gone /\ c.ret # "ok" /\ e.st \in Gone /\ e.ret # "ok"
  BY ONLY <1>3, <1>4, EndIs DEF Gone
<1> HIDE DEF c, e
<1>6. Up(srv, toSrv \o c.out, c, toCli, job) /\ Up(srv, toSrv \o e.out, e, toCli, job)
  BY ONLY <1>4, <1>5, CliUpGone
<1> QED
  BY ONLY <1>1, <1>2, <1>4, <1>6, CliGoesOnUp, SdoInv

\* In the middle of a block, what comes in goes into the fifo and the CRC alike.
LEMMA BlocksHold ==
  ASSUME NEW k, k.st \in UpBlock, NEW s, NEW x, NEW y, NEW j, Up(s, x, k, y, j),
         NEW q, q.st \in UpBlock, q.idx = k.idx, q.ret = k.ret, k.crc = Had(k) => q.crc = Had(q),
         NEW v, Held(v, q.rx) \subseteq Held(y, k.rx)
  PROVE  Up(s, x, q, v, j)
<1>1. /\ k.st \in CliUp /\ k.st \in CliBlocks /\ k.st \in UpBlock \cup {"UPLOAD_BLK_END_SREQ"}
      /\ q.st \in CliBlocks /\ q.st # "UPLOAD_BLK_INITIATE_REQ2"
  BY DEF CliUp, CliBlocks, UpBlock
<1>2. /\ SrvUp(s) /\ CliUpHas(k, j) /\ j \in Jobs /\ j.op = "upload" /\ k.idx = j.obj
      /\ k.ret # "ok" /\ UpBlocks(s, x, k, y, j)
  BY <1>1, UpKnows
<1>3. q.crc = Had(q)
  BY ONLY <1>1, <1>2, k.crc = Had(k) => q.crc = Had(q) DEF CliUpHas
<1>4. UpBlocks(s, x, q, v, j)
  BY ONLY <1>2, Held(v, q.rx) \subseteq Held(y, k.rx) DEF UpBlocks
<1> QED
  BY ONLY <1>1, <1>2, <1>3, <1>4, q.idx = k.idx, q.ret = k.ret, UpGoesOnBlocks

LEMMA UploadCliBlockTimeout ==
  ASSUME SdoInv, UploadInv, CliBlockTimeout
  PROVE  UploadInv'
<1> DEFINE c == [cli EXCEPT !.half = 1, !.st = "UPLOAD_BLK_SUBBLOCK_CRSP"]
<1>1. cli.st = "UPLOAD_BLK_SUBBLOCK_SREQ" /\ CliMove(c)
  BY DEF CliBlockTimeout
<1>2. /\ CliOK(cli) /\ CliBase(cli) /\ cli \in CliRecord /\ cli.more = <<>>
      /\ (cli.fin = 1 => Len(cli.lastSeg) = Seg) /\ DOMAIN cli = CliFields
  BY <1>1, CliFieldsAre DEF SdoInv, CliOK, CliBase, CliAt, CliUp, UpBlock
<1>3. /\ "UPLOAD_BLK_SUBBLOCK_CRSP" \in UpBlock /\ "UPLOAD_BLK_SUBBLOCK_CRSP" \in States
      /\ "UPLOAD_BLK_SUBBLOCK_CRSP" \notin CliDown /\ 1 \in Bit
      /\ "UPLOAD_BLK_SUBBLOCK_SREQ" \in UpBlock
  BY CliStatesAre DEF CliUp, UpBlock, Bit
<1>4. c \in CliRecord
  BY ONLY <1>2, <1>3 DEF CliRecord
<1>5. /\ c.st = "UPLOAD_BLK_SUBBLOCK_CRSP" /\ c.fifo = cli.fifo /\ c.nod = cli.nod /\ c.got = cli.got
      /\ c.more = cli.more /\ c.fin = cli.fin /\ c.lastSeg = cli.lastSeg /\ c.out = cli.out
      /\ c.ret = cli.ret /\ c.idx = cli.idx /\ c.crc = cli.crc /\ c.rx = cli.rx
  BY ONLY <1>2 DEF CliFields
<1> HIDE DEF c
<1>6. CliBase(c)
  BY ONLY <1>2, <1>4, <1>5 DEF CliBase
<1>7. c.fin = 1 => Len(c.lastSeg) = Seg
  BY ONLY <1>2, <1>5
<1>8. CliAt(c)
  BY ONLY <1>2, <1>3, <1>5, <1>7, CliAtIs
<1>9. CliOK(c) /\ c.st \notin CliDown
  BY ONLY <1>3, <1>5, <1>6, <1>8 DEF CliOK
<1>10. Up(srv, toSrv, cli, toCli, job) /\ cli.out = <<>> /\ srv.out = <<>>
  BY DEF UploadInv
<1>11. cli.crc = Had(cli) => c.crc = Had(c)
  BY ONLY <1>5 DEF Had
<1>12. Held(toCli, c.rx) \subseteq Held(toCli, cli.rx)
  BY ONLY <1>5
<1>13. Up(srv, toSrv, c, toCli, job)
  BY ONLY <1>1, <1>3, <1>5, <1>10, <1>11, <1>12, BlocksHold
<1> QED
  BY ONLY <1>1, <1>5, <1>9, <1>10, <1>13, CliMoveUp, SdoInv

\* A segment of a block comes in.
LEMMA BlockSegmentHeld ==
  ASSUME NEW k, CliOK(k), k.st = "UPLOAD_BLK_SUBBLOCK_SREQ", NEW f \in Frames,
         NEW q, q = [UploadedBlockSegment(k, f) EXCEPT !.half = 0]
  PROVE  /\ q.st \in UpBlock /\ q.idx = k.idx /\ q.ret = k.ret /\ q.rx \in {k.rx, None}
         /\ k.crc = Had(k) => q.crc = Had(q)
<1> DEFINE d == Front_(f.data, Low(Seg, Room(k.fifo)))
           fifo == k.fifo \o d
           crc == k.crc \o d
           st == IF f.seq = k.blk THEN "UPLOAD_BLK_SUBBLOCK_CRSP" ELSE k.st
           rx == IF f.seq = k.blk THEN None ELSE k.rx
           a == [k EXCEPT !.seq = f.seq, !.lastSeg = f.data, !.fin = 1, !.rx = None,
                      !.st = "UPLOAD_BLK_SUBBLOCK_CRSP"]
           b == [k EXCEPT !.seq = f.seq, !.fifo = @ \o d, !.crc = @ \o d, !.tran = @ + Seg,
                      !.st = IF f.seq = k.blk THEN "UPLOAD_BLK_SUBBLOCK_CRSP" ELSE @,
                      !.rx = IF f.seq = k.blk THEN None ELSE @]
           c == [k EXCEPT !.st = "UPLOAD_BLK_SUBBLOCK_CRSP", !.rx = None]
           r == UploadedBlockSegment(k, f)
<1>1. r \in {a, c, k} \/ (InTurn(k, f) /\ r = b)
  BY DEF UploadedBlockSegment
<1>2. DOMAIN k = CliFields /\ k \in CliRecord /\ k.fifo \in Data /\ k.crc \in Data /\ k.got \in Data
      /\ Fifo - Len(k.fifo) \in Nat
  <2>1. k \in CliRecord
    BY DEF CliOK, CliBase
  <2>2. k.got \in Data
    BY ONLY <2>1 DEF CliRecord
  <2> QED
    BY <2>1, <2>2, CliIs, CliFieldsAre DEF CliOK
<1>3. DOMAIN q = DOMAIN r /\ \A n \in DOMAIN r \ {"half"} : q[n] = r[n]
  OBVIOUS
<1>4. "UPLOAD_BLK_SUBBLOCK_SREQ" \in UpBlock /\ "UPLOAD_BLK_SUBBLOCK_CRSP" \in UpBlock
  BY DEF UpBlock
<1>5. b = [k EXCEPT !.seq = f.seq, !.fifo = fifo, !.crc = crc, !.tran = k.tran + Seg, !.st = st, !.rx = rx]
  BY ONLY <1>2 DEF CliFields
<1> HIDE DEF r, b, d, fifo, crc, st, rx
<1>6. /\ DOMAIN a = CliFields /\ a.st \in UpBlock /\ a.idx = k.idx /\ a.ret = k.ret /\ a.rx = None
      /\ a.got = k.got /\ a.fifo = k.fifo /\ a.crc = k.crc
  BY ONLY <1>2, <1>4 DEF CliFields
<1>7. /\ DOMAIN c = CliFields /\ c.st \in UpBlock /\ c.idx = k.idx /\ c.ret = k.ret /\ c.rx = None
      /\ c.got = k.got /\ c.fifo = k.fifo /\ c.crc = k.crc
  BY ONLY <1>2, <1>4 DEF CliFields
<1>8. /\ DOMAIN b = CliFields /\ b.st = st /\ b.idx = k.idx /\ b.ret = k.ret /\ b.rx = rx
      /\ b.got = k.got /\ b.fifo = fifo /\ b.crc = crc
  BY ONLY <1>2, <1>5 DEF CliFields
<1> HIDE DEF a, c
<1>9. ASSUME DOMAIN r = CliFields
      PROVE  /\ q.st = r.st /\ q.idx = r.idx /\ q.ret = r.ret /\ q.rx = r.rx
             /\ q.got = r.got /\ q.fifo = r.fifo /\ q.crc = r.crc
  BY ONLY <1>3, <1>9 DEF CliFields
<1>10. CASE r \in {a, c, k}
  BY ONLY <1>2, <1>4, <1>6, <1>7, <1>9, <1>10, k.st = "UPLOAD_BLK_SUBBLOCK_SREQ" DEF Had
<1>11. CASE InTurn(k, f) /\ r = b
  <2>1. d \in Data
    <3> DEFINE n == Low(Seg, Room(k.fifo))
    <3>1. f.c = "block"
      BY ONLY <1>11 DEF InTurn
    <3>2. f.data \in Data /\ Len(f.data) = Seg
      BY ONLY <3>1, f \in Frames, FrameIs DEF FrameOK
    <3>3. Seg \in Nat
      BY SdoAssumption
    <3>4. n \in Nat /\ n <= Seg
      BY ONLY <1>2, <3>3, LowIs DEF Room
    <3> HIDE DEF n
    <3>5. Front_(f.data, n) \in Data
      BY ONLY <3>2, <3>4, FrontIs
    <3> QED
      BY ONLY <3>5 DEF d, n
  <2>2. k.got \o fifo = Had(k) \o d
    <3> DEFINE had == k.got
               held == k.fifo
    <3>1. had \in Data /\ held \in Data
      BY ONLY <1>2
    <3>2. k.got \o fifo = had \o (held \o d) /\ Had(k) \o d = (had \o held) \o d
      BY ONLY DEF fifo, Had
    <3> HIDE DEF had, held
    <3>3. had \o (held \o d) = (had \o held) \o d
      BY ONLY <2>1, <3>1, HadGrows, ZenonT(40)
    <3> QED
      BY ONLY <3>2, <3>3
  <2>3. k.crc = Had(k) => b.crc = Had(b)
    <3>1. Had(b) = Had(k) \o d
      BY ONLY <1>8, <2>2 DEF Had
    <3>2. b.crc = k.crc \o d
      BY ONLY <1>8 DEF crc
    <3> QED
      BY ONLY <3>1, <3>2
  <2>4. st \in UpBlock /\ rx \in {k.rx, None}
    BY ONLY <1>4, k.st = "UPLOAD_BLK_SUBBLOCK_SREQ" DEF st, rx
  <2>5. /\ q.st = b.st /\ q.idx = b.idx /\ q.ret = b.ret /\ q.rx = b.rx
        /\ q.got = b.got /\ q.fifo = b.fifo /\ q.crc = b.crc
    BY ONLY <1>8, <1>9, <1>11
  <2>6. Had(q) = Had(b)
    BY ONLY <2>5 DEF Had
  <2> QED
    BY ONLY <1>8, <2>3, <2>4, <2>5, <2>6
<1> QED
  BY ONLY <1>1, <1>10, <1>11

LEMMA UploadCliReceive ==
  ASSUME SdoInv, UploadInv, CO_SDOclient_receive
  PROVE  UploadInv'
<1> DEFINE f == Head(toCli)
           got == UploadedBlockSegment(cli, f)
           stored == [got EXCEPT !.half = 0]
           heard == [cli EXCEPT !.rx = f]
           v == Tail(toCli)
<1>1. /\ toCli # <<>> /\ toCli' = v /\ srv' = srv /\ toSrv' = toSrv /\ job' = job
      /\ \/ cli' = cli
         \/ (cli.rx = None \/ f.c = "abort") /\ cli' = heard
         \/ cli.st = "UPLOAD_BLK_SUBBLOCK_SREQ" /\ cli' = stored
  BY DEF CO_SDOclient_receive
<1>2. f \in Frames /\ toCli \in Seq(Frames) /\ CliOK(cli) /\ DOMAIN cli = CliFields
  BY <1>1, HeadTailProperties, TypesAre, CliFieldsAre
<1>3. Up(srv, toSrv, cli, toCli, job) /\ srv.out = <<>> /\ cli.out = <<>>
  BY DEF UploadInv
<1>4. /\ Fewer(v, cli.rx, toCli, cli.rx) /\ Fewer(v, None, toCli, cli.rx)
      /\ cli.rx = None \/ f.c = "abort" => Fewer(v, f, toCli, cli.rx)
      /\ Fewer(toSrv, srv.rx, toSrv, srv.rx)
  BY <1>1, TypesAre, FewerFrames, AbortHeard
<1> HIDE DEF f, v
<1>5. cli.st = "UPLOAD_BLK_SUBBLOCK_SREQ" => Up(srv, toSrv, stored, v, job) /\ stored.out = <<>>
  <2> SUFFICES ASSUME cli.st = "UPLOAD_BLK_SUBBLOCK_SREQ"
               PROVE  Up(srv, toSrv, stored, v, job) /\ stored.out = <<>>
    OBVIOUS
  <2>1. stored.out = cli.out
    BY ONLY <1>2, UploadedBlockSegmentReturns
  <2>2. /\ stored.st \in UpBlock /\ stored.idx = cli.idx /\ stored.ret = cli.ret
        /\ stored.rx \in {cli.rx, None}
        /\ cli.crc = Had(cli) => stored.crc = Had(stored)
    BY ONLY <1>2, cli.st = "UPLOAD_BLK_SUBBLOCK_SREQ", BlockSegmentHeld
  <2> HIDE DEF stored
  <2>3. Held(v, stored.rx) \subseteq Held(toCli, cli.rx)
    BY ONLY <1>4, <2>2 DEF Fewer
  <2>4. cli.st \in UpBlock
    BY ONLY cli.st = "UPLOAD_BLK_SUBBLOCK_SREQ" DEF UpBlock
  <2>5. Up(srv, toSrv, stored, v, job)
    BY ONLY <1>3, <2>2, <2>3, <2>4, BlocksHold
  <2> QED
    BY ONLY <1>3, <2>1, <2>5
<1>6. Up(srv, toSrv, cli, v, job)
  BY ONLY <1>3, <1>4, AsAre, UpFewer
<1>7. cli.rx = None \/ f.c = "abort" => Up(srv, toSrv, heard, v, job) /\ heard.out = <<>>
  <2>1. AsHad(heard, cli) /\ heard.rx = f /\ heard.out = <<>>
    BY ONLY <1>2, <1>3 DEF CliFields, AsHad, Had
  <2> HIDE DEF heard
  <2> QED
    BY ONLY <1>3, <1>4, <2>1, AsAre, UpFewer
<1> HIDE DEF heard, stored
<1> QED
  BY ONLY <1>1, <1>3, <1>5, <1>6, <1>7 DEF UploadInv

\* The application refills the fifo of a download, and empties that of an upload.
LEMMA UploadRefill ==
  ASSUME SdoInv, UploadInv, Refill
  PROVE  UploadInv'
<1>1. /\ cli.more # <<>> /\ cli.st # "IDLE" /\ cli' = Fill(cli)
      /\ srv' = srv /\ toSrv' = toSrv /\ toCli' = toCli /\ job' = job
  BY DEF Refill, Partial
<1>2. Filled(Fill(cli), cli)
  BY TypesAre, FillDoes DEF CliOK
<1>3. cli'.st = cli.st /\ cli'.ret = cli.ret /\ cli'.out = cli.out
  BY ONLY <1>1, <1>2 DEF Filled
<1>4. cli.st \notin CliUp
  BY <1>1, TypesAre DEF CliOK, CliAt
<1>5. SrvUp(srv) /\ cli.ret # "ok" /\ cli.out = <<>> /\ srv.out = <<>>
  BY <1>1 DEF UploadInv, Up, CliUpHas
<1>6. Up(srv, toSrv, cli', toCli, job)
  BY ONLY <1>3, <1>4, <1>5, UpOver
<1> QED
  BY ONLY <1>1, <1>3, <1>5, <1>6 DEF UploadInv

LEMMA UploadTakeOut ==
  ASSUME SdoInv, UploadInv, TakeOut
  PROVE  UploadInv'
<1> DEFINE got == cli.got \o cli.fifo
           r == [cli EXCEPT !.got = got, !.fifo = <<>>]
<1>1. /\ cli.fifo # <<>> /\ cli' = [cli EXCEPT !.got = @ \o cli.fifo, !.fifo = <<>>]
      /\ srv' = srv /\ toSrv' = toSrv /\ toCli' = toCli /\ job' = job
  BY DEF TakeOut
<1>2. DOMAIN cli = CliFields /\ got \in Data
  <2>1. cli \in CliRecord /\ DOMAIN cli = CliFields
    BY TypesAre, CliFieldsAre
  <2>2. cli.got \in Data /\ cli.fifo \in Data
    BY ONLY <2>1 DEF CliRecord
  <2> QED
    BY <2>1, <2>2, CatIs
<1>3. cli' = r
  BY ONLY <1>1, <1>2 DEF CliFields
<1>4. got = Had(cli)
  BY DEF Had
<1> HIDE DEF got
<1>5. /\ r.st = cli.st /\ r.idx = cli.idx /\ r.tran = cli.tran /\ r.t = cli.t /\ r.crc = cli.crc
      /\ r.ret = cli.ret /\ r.out = cli.out /\ r.rx = cli.rx /\ r.got = got /\ r.fifo = <<>>
  BY ONLY <1>2 DEF CliFields
<1> HIDE DEF r
<1>6. Had(r) = Had(cli)
  <2>1. got \o <<>> = got
    BY ONLY <1>2, CatNone
  <2> QED
    BY ONLY <1>4, <1>5, <2>1 DEF Had
<1>7. AsHad(r, cli)
  BY ONLY <1>1, <1>5, <1>6 DEF AsHad
<1>8. Fewer(toSrv, srv.rx, toSrv, srv.rx) /\ Fewer(toCli, r.rx, toCli, cli.rx)
  BY <1>5, TypesAre, FewerFrames
<1>9. Up(srv, toSrv, r, toCli, job)
  BY ONLY <1>7, <1>8, AsAre, UpFewer, UploadInv DEF UploadInv
<1> QED
  BY ONLY <1>1, <1>3, <1>5, <1>9, UploadInv DEF UploadInv

LEMMA UploadClose ==
  ASSUME SdoInv, UploadInv, CO_SDOclientClose
  PROVE  UploadInv'
<1> DEFINE r == End(cli, "closed")
<1>1. /\ cli' = r /\ srv' = srv /\ toSrv' = toSrv /\ toCli' = toCli /\ job' = job
  BY DEF CO_SDOclientClose
<1>2. DOMAIN cli = CliFields
  BY TypesAre, CliFieldsAre
<1>3. r.st \in Gone /\ r.ret # "ok" /\ r.out = cli.out
  BY ONLY <1>2, EndIs, SameOut DEF Gone
<1> HIDE DEF r
<1>4. SrvUp(srv) /\ cli.out = <<>> /\ srv.out = <<>>
  BY DEF UploadInv, Up
<1>5. Up(srv, toSrv, r, toCli, job)
  BY ONLY <1>3, <1>4, CliUpGone
<1> QED
  BY ONLY <1>1, <1>3, <1>4, <1>5 DEF UploadInv

LEMMA UploadLose ==
  ASSUME SdoInv, UploadInv, Lose
  PROVE  UploadInv'
<1>1. /\ cli' = cli /\ srv' = srv /\ job' = job
      /\ \/ toSrv # <<>> /\ toSrv' = Tail(toSrv) /\ toCli' = toCli
         \/ toCli # <<>> /\ toCli' = Tail(toCli) /\ toSrv' = toSrv
  BY DEF Lose
<1>2. Fewer(toSrv', srv.rx, toSrv, srv.rx) /\ Fewer(toCli', cli.rx, toCli, cli.rx)
  BY <1>1, TypesAre, FewerFrames
<1>3. Up(srv, toSrv', cli, toCli', job)
  BY ONLY <1>2, AsAre, UpFewer, UploadInv DEF UploadInv
<1> QED
  BY ONLY <1>1, <1>3, UploadInv DEF UploadInv

\* An upload that is started when nothing is left of the last transfer.
LEMMA InitiatedUp ==
  ASSUME NEW s, SrvUp(s), s.st \in SrvWaits, NEW x, NEW y, Quiet(x, s.rx), Mute(y, None),
         NEW j \in Jobs, j.op = "upload",
         NEW q, q.rx = None, q.ret = "none", q.st \in UpRequest,
         q.idx = j.obj, q.tran = 0, q.got = <<>>, q.fifo = <<>>
  PROVE  Up(s, x, q, y, j)
<1>1. /\ q.st \notin UpAsks /\ q.st \notin CliSegments /\ q.st \notin CliBlocks
      /\ q.st # "UPLOAD_SEGMENT_REQ" /\ q.st \in UpAsked /\ q.st \notin UpBlock \cup {"UPLOAD_BLK_END_SREQ"}
      /\ ~Finished(q, j)
  BY DEF UpRequest, UpAsks, CliSegments, CliBlocks, UpBlock, UpAsked, Finished
<1>2. CliUpHas(q, j)
  BY ONLY <1>1, j \in Jobs, j.op = "upload", q.idx = j.obj, q.tran = 0, q.got = <<>>, q.fifo = <<>>,
          q.ret = "none" DEF CliUpHas
<1>3. UpReady(s, x, q, y)
  <2>1. s.st \in Old
    BY DEF Old
  <2> QED
    BY ONLY <1>1, <2>1, Quiet(x, s.rx), Mute(y, None), q.rx = None DEF UpReady
<1> QED
  BY ONLY <1>1, <1>2, <1>3, SrvUp(s) DEF Up

LEMMA UploadInitiate ==
  ASSUME SdoInv, UploadInv, Silence, NEW j \in Jobs, Initiate(j)
  PROVE  UploadInv'
<1> DEFINE k == [cli EXCEPT !.idx = j.obj, !.ind = j.ind, !.tran = 0, !.fin = 0, !.fifo = <<>>,
                            !.got = <<>>, !.more = j.data, !.rx = None, !.ret = "none"]
           ust == IF j.blk = 1 THEN "UPLOAD_BLK_INITIATE_REQ" ELSE "UPLOAD_INITIATE_REQ"
           dst == IF j.blk = 1 /\ (j.ind = 0 \/ j.ind > Pst)
                  THEN "DOWNLOAD_BLK_INITIATE_REQ" ELSE "DOWNLOAD_INITIATE_REQ"
           up == [k EXCEPT !.st = ust]
           down == [k EXCEPT !.st = dst]
<1>1. /\ job' = j /\ srv' = srv /\ toSrv' = toSrv /\ toCli' = toCli
      /\ cli' = IF j.op = "upload" THEN up ELSE Fill(down)
  BY DEF Initiate
<1>2. j.op \in {"upload", "download"}
  BY JobIs
<1>3. DOMAIN cli = CliFields
  BY TypesAre, CliFieldsAre
<1>4. /\ k.fifo = <<>> /\ k.got = <<>> /\ k.idx = j.obj /\ k.tran = 0 /\ k.rx = None
      /\ k.ret = "none" /\ k.out = cli.out /\ DOMAIN k = CliFields
  BY ONLY <1>3 DEF CliFields
<1> HIDE DEF k
<1>5. ust \in UpRequest /\ dst \in DownRequest
  BY DEF UpRequest, DownRequest
<1> HIDE DEF ust, dst
<1>6. /\ up.st = ust /\ up.fifo = <<>> /\ up.got = <<>> /\ up.idx = j.obj /\ up.tran = 0
      /\ up.rx = None /\ up.ret = "none" /\ up.out = cli.out
      /\ down.st = dst /\ down.ret = "none" /\ down.out = cli.out /\ DOMAIN down = CliFields
  BY ONLY <1>4 DEF CliFields
<1>7. SrvUp(srv) /\ srv.out = <<>> /\ cli.out = <<>>
  BY DEF UploadInv, Up
<1>8. Quiet(toSrv, srv.rx) /\ Mute(toCli, None) /\ srv.st \in SrvWaits
  <2>1. Quiet(toSrv, srv.rx) /\ Quiet(toCli, None) /\ srv.st \in SrvWaits
    BY DEF Silence, Quiet
  <2> QED
    BY ONLY <2>1, NoFrames
<1>9. CASE j.op = "upload"
  <2> HIDE DEF up, down
  <2>1. cli' = up
    BY ONLY <1>1, <1>9
  <2>2. Up(srv, toSrv, up, toCli, j)
    BY ONLY <1>5, <1>6, <1>7, <1>8, <1>9, InitiatedUp, j \in Jobs
  <2> QED
    BY ONLY <1>1, <1>6, <1>7, <2>1, <2>2 DEF UploadInv
<1>10. CASE j.op = "download"
  <2> DEFINE r == Fill(down)
  <2>1. cli' = r
    BY ONLY <1>1, <1>10
  <2> HIDE DEF down
  <2>2. r.st = down.st /\ r.ret = down.ret /\ r.out = down.out
    BY ONLY <1>6 DEF Fill, CliFields
  <2> HIDE DEF r
  <2>3. r.st \notin CliUp /\ r.ret # "ok" /\ r.out = <<>>
    BY ONLY <1>5, <1>6, <1>7, <2>2 DEF DownRequest, CliUp, UpAsked, UpSegment, UpBlock
  <2>4. Up(srv, toSrv, r, toCli, j)
    BY ONLY <1>7, <2>3, UpOver
  <2> QED
    BY ONLY <1>1, <1>7, <2>1, <2>3, <2>4 DEF UploadInv
<1> QED
  BY ONLY <1>2, <1>9, <1>10

LEMMA UploadInit ==
  ASSUME Init
  PROVE  UploadInv
<1>1. /\ cli.st = "IDLE" /\ cli.ret = "none" /\ cli.out = <<>>
      /\ srv.st = "IDLE" /\ srv.out = <<>> /\ srv.od = First /\ srv.buf = <<>>
  BY DEF Init
<1>2. SrvUp(srv)
  BY ONLY <1>1 DEF SrvUp, Sizes, SrvSegments, SrvBlocks, UpStart, UpBlock
<1>3. cli.st \notin CliUp /\ cli.ret # "ok"
  BY ONLY <1>1 DEF CliUp, UpAsked, UpSegment, UpBlock
<1> QED
  BY ONLY <1>1, <1>2, <1>3, UpOver DEF UploadInv

LEMMA UploadStep ==
  ASSUME SdoInv, UploadInv, TextsFit, [OrderlyNext]_vars
  PROVE  UploadInv'
<1>1. CASE Silence /\ \E j \in Jobs : Initiate(j)
  BY <1>1, UploadInitiate
<1>2. CASE Node
  BY <1>2, UploadSrvProcess, UploadSrvReceive, UploadCliProcess, UploadCliReceive, UploadRefill,
     UploadTakeOut DEF Node
<1>3. CASE Clock
  BY <1>3, UploadCliTimeout, UploadSrvTimeout, UploadCliBlockTimeout, UploadSrvBlockTimeout DEF Clock
<1>4. CASE CO_SDOclientClose
  BY <1>4, UploadClose
<1>5. CASE Lose
  BY <1>5, UploadLose
<1>6. CASE UNCHANGED vars
  BY <1>6 DEF vars, UploadInv
<1> QED
  BY <1>1, <1>2, <1>3, <1>4, <1>5, <1>6 DEF OrderlyNext

(***************************************************************************)
(* What an upload that CO_SDOclientUpload reports as done has brought is   *)
(* what the object holds, by segments or by blocks, of which any may have  *)
(* been sent again, whatever was lost on the way, timed out, was aborted   *)
(* or closed before.  Of a text that does not fit the server's buffer the  *)
(* end and its zero may be sent as two pieces, and the zero arrives too    *)
(* (CO_SDOserver.c:540-552), so texts are to fit.  Transfers start when    *)
(* nothing is left of the last one, and no frame is doubled.               *)
(***************************************************************************)
THEOREM UploadsAreWhole ==
  ASSUME TextsFit
  PROVE  OrderlySpec => []UploadsArrive
<1>1. Init => SdoInv /\ UploadInv
  BY SdoInvInit, UploadInit
<1>2. SdoInv /\ UploadInv /\ [OrderlyNext]_vars => SdoInv' /\ UploadInv'
  <2> SUFFICES ASSUME SdoInv, UploadInv, [OrderlyNext]_vars
               PROVE  SdoInv' /\ UploadInv'
    OBVIOUS
  <2>1. [Next]_vars
    BY DEF OrderlyNext, Next
  <2> QED
    BY <2>1, SdoInvStep, UploadStep
<1>3. UploadInv => UploadsArrive
  BY DEF UploadInv, Up, Finished, UpDone, Value, Had, UploadsArrive
<1> QED
  BY <1>1, <1>2, <1>3, PTL DEF OrderlySpec

=============================================================================
