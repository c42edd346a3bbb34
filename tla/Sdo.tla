-------------------------------- MODULE Sdo --------------------------------
(***************************************************************************)
(* CANopen's transfer of objects between an SDO client and an SDO server   *)
(* (CO_SDOclient.c, CO_SDOserver.c, CO_ODinterface.c): expedited,          *)
(* segmented and block transfers, down to the server's object dictionary   *)
(* and up from it.                                                         *)
(*                                                                         *)
(* Each end has a receive function, run by the CAN interrupt, and a        *)
(* process function, called in a loop: it takes the frame received, looks  *)
(* at its timers and sends at most one frame. Both wait for the other in   *)
(* turn; only a sub-block is sent without answers in between.              *)
(* A CRC is the sequence of the bytes it was computed over.                *)
(***************************************************************************)
EXTENDS Integers, Sequences, SequencesExt

CONSTANTS Obj, None,
          First,     \* what each object holds at first; its length is its size
          Str,       \* the objects that are strings
          ReadOnly,  \* the objects without ODA_SDO_W
          Seg,       \* data bytes of a segment (7)
          Exped,     \* data bytes of an expedited transfer (4)
          Buf,       \* CO_CONFIG_SDO_SRV_BUFFER_SIZE
          Fifo,      \* what the client's fifo can hold
          Cap,       \* the most segments of a sub-block (127)
          Pst,       \* CO_CONFIG_SDO_CLI_PST
          TxRoom,    \* the frames a node can have on their way
          Jobs,      \* the transfers the application asks for
          MaxJobs,   \* how many of them
          MaxFaults  \* frames lost or doubled, timers early, transfers given up

\* A segment is longer than expedited data; the build refuses a server's buffer
\* below 20 bytes and a client's below 7. The end of a text needs two.
ASSUME SdoAssumption ==
  /\ None \notin Obj
  /\ First \in [Obj -> Seq(Nat)]
  /\ Exped \in Nat \ {0} /\ Seg \in Nat /\ Exped < Seg
  /\ Buf \in Nat /\ Seg + 2 =< Buf
  /\ Fifo \in Nat /\ Seg =< Fifo
  /\ Cap \in Nat \ {0}
  /\ \A j \in Jobs :
       /\ j \in [op : {"upload", "download"}, obj : Obj, blk : {0, 1}, ind : Nat, data : Seq(Nat)]
       /\ j.op = "upload" => j.data = <<>>

VARIABLES cli,    \* CO_SDOclient_t
          srv,    \* CO_SDOserver_t and the object dictionary
          toSrv, toCli, \* frames on their way
          job,    \* the transfer asked for
          begun,  \* how many there were
          faults

vars == <<cli, srv, toSrv, toCli, job, begun, faults>>

blank == [c |-> "", idx |-> None, exp |-> 0, ind |-> 0, t |-> 0, last |-> 0,
          data |-> <<>>, seq |-> 0, blk |-> 0, crc |-> <<>>]
Frame(c) == [blank EXCEPT !.c = c]
abort == Frame("abort")

Low(a, b) == IF a < b THEN a ELSE b
Zeros(n) == [i \in 1..n |-> 0]
Pad(d) == d \o Zeros(Seg - Len(d))
Front_(d, n) == SubSeq(d, 1, n)
Rest(d, n) == SubSeq(d, n + 1, Len(d))
\* strlen, but never 0
TextLen(d) == LET z == {i \in 1..Len(d) : d[i] = 0}
              IN  IF z = {} THEN Len(d)
                  ELSE LET i == CHOOSE i \in z : \A k \in z : i =< k
                       IN  IF i = 1 THEN 1 ELSE i - 1
Text(o, d) == IF o \in Str THEN Front_(d, TextLen(d)) ELSE d

Stop(e) == [e EXCEPT !.st = "ABORT"]
Room(f) == Fifo - Len(f)

Init ==
  /\ cli = [st |-> "IDLE", idx |-> None, ind |-> 0, tran |-> 0, fin |-> 0, t |-> 0,
            fifo |-> <<>>, alt |-> 0, seq |-> 0, blk |-> 0, nod |-> 0, crc |-> <<>>,
            lastSeg |-> <<>>, rx |-> None, half |-> 0, out |-> <<>>, more |-> <<>>, got |-> <<>>,
            ret |-> "none"]
  /\ srv = [st |-> "IDLE", idx |-> None, ind |-> 0, tran |-> 0, fin |-> 0, t |-> 0,
            buf |-> <<>>, rd |-> 0, seq |-> 0, blk |-> 0, nod |-> 0, crc |-> <<>>,
            rx |-> None, half |-> 0, out |-> <<>>, pos |-> 0, len |-> 0, od |-> First]
  /\ toSrv = <<>> /\ toCli = <<>>
  /\ job = None /\ begun = 0 /\ faults = 0

-----------------------------------------------------------------------------
(* The server *)

\* OD_getSub and the attributes
OD_getSub(s, up) ==
  LET o == s.rx.idx IN
  IF o \notin Obj \/ (~up /\ o \in ReadOnly) THEN Stop(s)
  ELSE [s EXCEPT !.idx = o, !.len = Len(s.od[o]), !.pos = 0]

\* OD_writeOriginal: ret is "OK", "PARTIAL" or "LONG"
OD_writeOriginal(s, d) ==
  LET left == s.len - s.pos
      n == Len(d)
  IN  IF left < n THEN [e |-> s, ret |-> "LONG"]
      ELSE [e |-> [s EXCEPT !.od[s.idx] = Front_(@, s.pos) \o d \o Rest(@, s.pos + n),
                            !.pos = IF left > n THEN @ + n ELSE 0],
            ret |-> IF left > n THEN "PARTIAL" ELSE "OK"]

\* readFromOd: at least min bytes in the buffer, or all there are, of which
\* there must be one
readFromOd(s, min, sum) ==
  LET rest == Rest(s.buf, s.rd)
      room == Buf - Len(rest)
      left == s.len - s.pos
      read == SubSeq(s.od[s.idx], s.pos + 1, s.pos + Low(left, room))
      cut == s.idx \in Str /\ TextLen(read) < Len(read)
      new == IF cut THEN Front_(read, TextLen(read)) ELSE read
      part == (left > room /\ ~cut) \/ rest \o new = <<>>
  IN  IF s.fin = 1 \/ Len(rest) >= min THEN s
      ELSE IF part /\ Len(rest \o new) < min THEN Stop(s)
      ELSE [s EXCEPT !.buf = rest \o new, !.rd = 0, !.fin = IF part THEN 0 ELSE 1,
                     !.pos = IF left > room THEN @ + room ELSE 0,
                     !.len = IF cut THEN s.tran + Len(new) ELSE @,
                     !.crc = IF sum THEN @ \o new ELSE @]

\* the zeros that end a string shorter than its object
Terminator(s) ==
  IF s.fin = 1 /\ s.idx \in Str /\ s.tran < s.len /\ Len(s.buf) + 2 =< Buf
  THEN IF s.tran + 1 < s.len THEN <<0, 0>> ELSE <<0>>
  ELSE <<>>

SizeWrong(s) ==
  IF s.fin = 1
  THEN \/ s.ind > 0 /\ s.tran # s.ind
       \/ Terminator(s) = <<>> /\ s.tran # s.len
  ELSE s.ind > 0 /\ s.tran > s.ind

\* the block's CRC, compared when the client has sent its own
CrcIgnored(s, sum, crcClient) == FALSE
CrcWrong(s, sum, crcClient) == sum = 2 /\ s.crc \o s.buf # crcClient

\* validateAndWriteToOD; sum is 0 for none, 1 to compute and 2 to compare
validateAndWriteToOD(s, sum, crcClient) ==
  LET z == Terminator(s)
      sized == [s EXCEPT !.len = IF z = <<>> THEN @ ELSE s.tran + Len(z),
                         !.crc = IF sum > 0 THEN @ \o s.buf ELSE @]
      w == OD_writeOriginal(sized, s.buf \o z)
      written == [w.e EXCEPT !.buf = <<>>]
  IN  IF SizeWrong(s) \/ CrcWrong(s, sum, crcClient) THEN Stop(s)
      ELSE IF w.ret = "LONG" \/ (s.fin = 1) # (w.ret = "OK") THEN Stop(written)
      ELSE written

\* a new request: object, access, and for an upload its first data
NewRequest(s) ==
  LET up == s.rx.c \in {"upload", "blkUpload"}
      st == CASE s.rx.c = "download" -> "DOWNLOAD_INITIATE_REQ"
              [] s.rx.c = "upload" -> "UPLOAD_INITIATE_REQ"
              [] s.rx.c = "blkDownload" -> "DOWNLOAD_BLK_INITIATE_REQ"
              [] s.rx.c = "blkUpload" -> "UPLOAD_BLK_INITIATE_REQ"
              [] OTHER -> "ABORT"
      found == OD_getSub(s, up)
      ready == [found EXCEPT !.st = st]
      read == readFromOd([ready EXCEPT !.buf = <<>>, !.rd = 0, !.tran = 0, !.fin = 0], Seg, FALSE)
  IN  IF st = "ABORT" \/ found.st = "ABORT" THEN Stop(s)
      ELSE IF ~up THEN ready
      ELSE IF read.st = "ABORT" THEN read
      ELSE IF read.fin = 1 /\ read.len # Len(read.buf) THEN Stop(read)
      ELSE [read EXCEPT !.ind = IF read.fin = 0 /\ read.idx \in Str THEN 0 ELSE read.len]

\* a size the client indicates
Fits(s) == s.rx.ind = 0 \/ s.rx.ind = s.len \/ (s.rx.ind < s.len /\ s.idx \in Str)

\* DOWNLOAD_INITIATE_REQ: expedited data is written at once. Without a size
\* the object's own is taken, at most the four bytes there are.
InitiateDownload(s) ==
  LET n == IF s.rx.ind > 0 THEN s.rx.ind ELSE Low(s.len, Exped)
      short == s.idx \in Str /\ n < s.len
      z == IF ~short THEN <<>> ELSE IF s.len - n = 1 THEN <<0>> ELSE <<0, 0>>
      w == OD_writeOriginal([s EXCEPT !.len = IF short THEN n + Len(z) ELSE @],
                            Front_(s.rx.data, n) \o z)
  IN  IF s.rx.exp = 1
      THEN IF (~short /\ n # s.len) \/ w.ret # "OK" THEN Stop(s)
           ELSE [w.e EXCEPT !.st = "DOWNLOAD_INITIATE_RSP", !.fin = 1]
      ELSE IF ~Fits(s) THEN Stop(s)
      ELSE [s EXCEPT !.st = "DOWNLOAD_INITIATE_RSP", !.fin = 0, !.ind = s.rx.ind]

\* the segment expected next; the client compares alike
ToggleIgnored(e) == e.rx.c = "segment"
ToggleOk(e) == e.rx.c = "segment" /\ e.rx.t = e.t

DownloadSegment(s) ==
  LET a == [s EXCEPT !.fin = s.rx.last, !.buf = @ \o s.rx.data, !.tran = @ + Len(s.rx.data)]
      w == IF a.fin = 1 \/ Buf - Len(a.buf) < Seg + 2 THEN validateAndWriteToOD(a, 0, <<>>) ELSE a
  IN  IF ~ToggleOk(s) THEN Stop(s)
      ELSE IF a.tran > a.len THEN Stop(a)
      ELSE IF w.st = "ABORT" THEN w ELSE [w EXCEPT !.st = "DOWNLOAD_SEGMENT_RSP"]

\* DOWNLOAD_BLK_END_REQ: now the bytes of the last segment are known
EndBlockDownload(s) ==
  LET n == Len(s.buf) - s.rx.ind
      a == [s EXCEPT !.tran = @ - s.rx.ind, !.buf = Front_(@, n)]
      w == validateAndWriteToOD(a, 2, s.rx.crc)
  IN  IF s.rx.c # "blkEnd" \/ n =< 0 THEN Stop(s)
      ELSE IF w.st = "ABORT" THEN w ELSE [w EXCEPT !.st = "DOWNLOAD_BLK_END_RSP"]

\* UPLOAD_BLK_INITIATE_REQ: small objects go by segments after all
InitiateBlockUpload(s) ==
  IF s.ind > 0 /\ Pst >= s.ind THEN [s EXCEPT !.st = "UPLOAD_INITIATE_RSP"]
  ELSE IF s.fin = 0 /\ Len(s.buf) < s.rx.blk * Seg THEN Stop(s)
  ELSE [s EXCEPT !.crc = s.buf, !.blk = s.rx.blk, !.st = "UPLOAD_BLK_INITIATE_RSP"]

\* the client's answer to a sub-block: what it did not take is sent again
ConfirmSubBlock(s) ==
  LET lost == (s.seq - s.rx.seq) * Seg - s.nod
      a == IF s.rx.seq < s.seq THEN [s EXCEPT !.rd = @ - lost, !.tran = @ - lost] ELSE s
      r == readFromOd([a EXCEPT !.blk = s.rx.blk], s.rx.blk * Seg, TRUE)
  IN  IF s.rx.c # "subBlock" \/ s.rx.blk < 1 \/ s.rx.seq > s.seq THEN Stop(s)
      ELSE IF r.st = "ABORT" THEN r
      ELSE IF Len(r.buf) = r.rd THEN [r EXCEPT !.st = "UPLOAD_BLK_END_SREQ"]
      ELSE [r EXCEPT !.seq = 0, !.st = "UPLOAD_BLK_SUBBLOCK_SREQ"]

\* CO_SDOserver_process: the frame received
SrvTaken(s) ==
  CASE s.st = "ABORT" -> s
    [] s.st = "DOWNLOAD_INITIATE_REQ" -> InitiateDownload(s)
    [] s.st = "DOWNLOAD_SEGMENT_REQ" -> DownloadSegment(s)
    [] s.st = "UPLOAD_INITIATE_REQ" -> [s EXCEPT !.st = "UPLOAD_INITIATE_RSP"]
    [] s.st = "UPLOAD_SEGMENT_REQ" ->
         IF s.rx.c = "next" /\ s.rx.t = s.t
         THEN [s EXCEPT !.st = "UPLOAD_SEGMENT_RSP"] ELSE Stop(s)
    [] s.st = "DOWNLOAD_BLK_INITIATE_REQ" ->
         IF Fits(s)
         THEN [s EXCEPT !.st = "DOWNLOAD_BLK_INITIATE_RSP", !.ind = s.rx.ind, !.fin = 0]
         ELSE Stop(s)
    [] s.st = "DOWNLOAD_BLK_SUBBLOCK_REQ" -> s
    [] s.st = "DOWNLOAD_BLK_END_REQ" -> EndBlockDownload(s)
    [] s.st = "UPLOAD_BLK_INITIATE_REQ" -> InitiateBlockUpload(s)
    [] s.st = "UPLOAD_BLK_INITIATE_REQ2" ->
         IF s.rx.c = "blkStart"
         THEN [s EXCEPT !.seq = 0, !.st = "UPLOAD_BLK_SUBBLOCK_SREQ"] ELSE Stop(s)
    [] s.st \in {"UPLOAD_BLK_SUBBLOCK_SREQ", "UPLOAD_BLK_SUBBLOCK_CRSP"} ->
         ConfirmSubBlock(s)
    [] OTHER -> Stop(s)

SrvTake(s) == [SrvTaken(IF s.st = "IDLE" THEN NewRequest(s) ELSE s) EXCEPT !.rx = None]

Send(e, f) == [e EXCEPT !.out = <<f>>]

\* UPLOAD_INITIATE_RSP
AnswerUpload(s) ==
  IF s.ind > 0 /\ s.ind =< Exped
  THEN Send([s EXCEPT !.st = "IDLE"],
            [Frame("uploadOk") EXCEPT !.idx = s.idx, !.exp = 1, !.ind = s.ind, !.data = Front_(s.buf, s.ind)])
  ELSE Send([s EXCEPT !.st = "UPLOAD_SEGMENT_REQ", !.t = 0],
            [Frame("uploadOk") EXCEPT !.idx = s.idx, !.ind = s.ind])

\* UPLOAD_SEGMENT_RSP
AnswerSegment(s) ==
  LET r == readFromOd(s, Seg, FALSE)
      left == Len(r.buf) - r.rd
      last == left < Seg \/ (r.fin = 1 /\ left = Seg)
      n == Low(left, Seg)
      a == [r EXCEPT !.t = 1 - @, !.rd = @ + n, !.tran = @ + n,
                     !.st = IF last THEN "IDLE" ELSE "UPLOAD_SEGMENT_REQ"]
  IN  IF r.st = "ABORT" THEN r
      ELSE IF a.ind > 0 /\ (a.tran > a.ind \/ (last /\ a.tran < a.ind)) THEN Stop(a)
      ELSE Send(a, [Frame("segment") EXCEPT !.t = r.t, !.last = IF last THEN 1 ELSE 0,
                                            !.data = SubSeq(r.buf, r.rd + 1, r.rd + n)])

\* the segments of a sub-block; two bytes are kept for a string's end
BlockSizeNoEnd(s) == Low((Buf - Len(s.buf)) \div Seg, Cap)
BlockSize(s) == Low(((Buf - 2) - Len(s.buf)) \div Seg, Cap)

\* DOWNLOAD_BLK_SUBBLOCK_RSP: the buffer is emptied before the next sub-block,
\* unless the largest fits behind what it holds
AnswerSubBlock(s) ==
  LET empties == s.fin = 0 /\ BlockSize(s) < Cap /\ s.buf # <<>>
      w == IF empties THEN validateAndWriteToOD(s, 1, <<>>) ELSE s
      n == IF s.fin = 1 THEN s.blk ELSE BlockSize(w)
  IN  IF w.st = "ABORT" THEN w
      ELSE Send([w EXCEPT !.blk = n, !.seq = IF s.fin = 1 THEN @ ELSE 0,
                          !.rx = IF s.fin = 1 THEN @ ELSE None,
                          !.st = IF s.fin = 1 THEN "DOWNLOAD_BLK_END_REQ"
                                 ELSE "DOWNLOAD_BLK_SUBBLOCK_REQ"],
                [Frame("subBlock") EXCEPT !.seq = s.seq, !.blk = n])

\* UPLOAD_BLK_SUBBLOCK_SREQ: one segment of a sub-block
SendBlockSegment(s) ==
  LET left == Len(s.buf) - s.rd
      last == left < Seg \/ (s.fin = 1 /\ left = Seg)
      n == Low(left, Seg)
      a == [s EXCEPT !.seq = @ + 1, !.rd = @ + n, !.nod = Seg - n, !.tran = @ + n]
      done == a.rd = Len(a.buf)
  IN  IF a.ind > 0 /\ (a.tran > a.ind \/ (done /\ a.tran < a.ind)) THEN Stop(a)
      ELSE Send([a EXCEPT !.st = IF done \/ a.seq >= a.blk THEN "UPLOAD_BLK_SUBBLOCK_CRSP" ELSE @],
                [Frame("block") EXCEPT !.seq = a.seq, !.last = IF last THEN 1 ELSE 0,
                                       !.data = Pad(SubSeq(s.buf, s.rd + 1, s.rd + n))])

\* the frame sent
SrvSend(s) ==
  CASE s.st = "DOWNLOAD_INITIATE_RSP" ->
         Send(IF s.fin = 1 THEN [s EXCEPT !.st = "IDLE"]
              ELSE [s EXCEPT !.t = 0, !.tran = 0, !.buf = <<>>, !.rd = 0, !.st = "DOWNLOAD_SEGMENT_REQ"],
              [Frame("downloadOk") EXCEPT !.idx = s.idx])
    [] s.st = "DOWNLOAD_SEGMENT_RSP" ->
         Send([s EXCEPT !.t = 1 - @, !.st = IF s.fin = 1 THEN "IDLE" ELSE "DOWNLOAD_SEGMENT_REQ"],
              [Frame("segmentOk") EXCEPT !.t = s.t])
    [] s.st = "UPLOAD_INITIATE_RSP" -> AnswerUpload(s)
    [] s.st = "UPLOAD_SEGMENT_RSP" -> AnswerSegment(s)
    [] s.st = "DOWNLOAD_BLK_INITIATE_RSP" ->
         LET n == BlockSize([s EXCEPT !.buf = <<>>]) IN
         Send([s EXCEPT !.blk = n, !.tran = 0, !.fin = 0, !.buf = <<>>, !.rd = 0, !.seq = 0,
                        !.crc = <<>>, !.rx = None, !.half = 0, !.st = "DOWNLOAD_BLK_SUBBLOCK_REQ"],
              [Frame("blkDownloadOk") EXCEPT !.idx = s.idx, !.blk = n])
    [] s.st = "DOWNLOAD_BLK_SUBBLOCK_RSP" -> AnswerSubBlock(s)
    [] s.st = "DOWNLOAD_BLK_END_RSP" -> Send([s EXCEPT !.st = "IDLE"], Frame("blkEndOk"))
    [] s.st = "UPLOAD_BLK_INITIATE_RSP" ->
         Send([s EXCEPT !.st = "UPLOAD_BLK_INITIATE_REQ2"],
              [Frame("blkUploadOk") EXCEPT !.idx = s.idx, !.ind = s.ind])
    [] s.st = "UPLOAD_BLK_SUBBLOCK_SREQ" -> SendBlockSegment(s)
    [] s.st = "UPLOAD_BLK_END_SREQ" ->
         Send([s EXCEPT !.st = "UPLOAD_BLK_END_CRSP"],
              [Frame("blkEnd") EXCEPT !.ind = s.nod, !.crc = s.crc])
    [] OTHER -> s

\* what is left of an exchange that failed, on either end
SendAbortStays(e) == IF e.st = "ABORT" THEN Send(e, abort) ELSE e
SendAbort(e) == IF e.st = "ABORT" THEN Send([e EXCEPT !.st = "IDLE"], abort) ELSE e

Full(ch) == Len(ch) >= TxRoom

SrvGoesOn(s) ==
  /\ srv' = [s EXCEPT !.out = <<>>]
  /\ toCli' = toCli \o s.out
  /\ UNCHANGED <<cli, toSrv, job, begun>>

SrvMove(s) == SrvGoesOn(IF Full(toCli) THEN s ELSE SendAbort(SrvSend(s)))

SrvWaits == {"IDLE", "DOWNLOAD_SEGMENT_REQ", "UPLOAD_SEGMENT_REQ", "DOWNLOAD_BLK_SUBBLOCK_REQ",
             "DOWNLOAD_BLK_END_REQ", "UPLOAD_BLK_INITIATE_REQ2", "UPLOAD_BLK_SUBBLOCK_CRSP",
             "UPLOAD_BLK_END_CRSP"}

CO_SDOserver_process ==
  /\ srv.rx # None \/ (srv.st \notin SrvWaits /\ ~Full(toCli))
  /\ SrvMove(IF srv.rx = None THEN srv ELSE SrvTake(srv))
  /\ UNCHANGED faults

\* The number of a segment of a sub-block. A frame that is none, left from an
\* earlier transfer, has its command where the number would be; the model takes
\* it for a number that is not due.
InTurn(e, f) == f.c = "block" /\ f.seq =< e.blk /\ f.seq = e.seq + 1
OutOfTurn(e, f) == (f.c # "block" \/ f.seq # e.seq) /\ e.seq # 0

\* a segment of a sub-block, stored by the interrupt
StoreBlockSegment(s, f) ==
  LET a == [s EXCEPT !.seq = f.seq, !.buf = @ \o f.data, !.tran = @ + Seg]
  IN  IF InTurn(s, f)
      THEN [a EXCEPT !.fin = IF f.last = 1 THEN 1 ELSE @,
                     !.st = IF f.last = 1 \/ f.seq = s.blk THEN "DOWNLOAD_BLK_SUBBLOCK_RSP" ELSE @,
                     !.rx = IF f.last = 1 \/ f.seq = s.blk THEN None ELSE @]
      ELSE IF OutOfTurn(s, f)
      THEN [s EXCEPT !.st = "DOWNLOAD_BLK_SUBBLOCK_RSP", !.rx = None]
      ELSE s

BlockRoom(s) == Len(s.buf) =< Buf - (Seg + 2)

CO_SDO_receive ==
  /\ toSrv # <<>>
  /\ LET f == Head(toSrv) IN
     srv' = CASE f.c = "abort" -> [srv EXCEPT !.st = "IDLE"]
              [] f.c # "abort" /\ srv.rx # None -> srv
              [] f.c = "blkEndOk" /\ srv.rx = None /\ srv.st = "UPLOAD_BLK_END_CRSP" ->
                   [srv EXCEPT !.st = "IDLE"]
              [] f.c # "abort" /\ srv.rx = None /\ srv.st = "DOWNLOAD_BLK_SUBBLOCK_REQ" ->
                   IF BlockRoom(srv) THEN [StoreBlockSegment(srv, f) EXCEPT !.half = 0] ELSE srv
              [] f.c # "abort" /\ srv.rx = None /\ srv.st = "DOWNLOAD_BLK_SUBBLOCK_RSP" -> srv
              [] OTHER -> [srv EXCEPT !.rx = f]
  /\ toSrv' = Tail(toSrv)
  /\ UNCHANGED <<cli, toCli, job, begun, faults>>

-----------------------------------------------------------------------------
(* The client *)

Partial(k) == k.more # <<>>     \* bufferPartial of CO_SDOclientDownload

\* the application fills the fifo with what there is room for
Fill(k) == [k EXCEPT !.fifo = @ \o Front_(k.more, Low(Len(k.more), Room(@))),
                     !.more = Rest(@, Low(Len(@), Room(k.fifo)))]

CliWaits == {"IDLE", "DOWNLOAD_INITIATE_RSP", "DOWNLOAD_SEGMENT_RSP", "DOWNLOAD_BLK_INITIATE_RSP",
             "DOWNLOAD_BLK_SUBBLOCK_RSP", "DOWNLOAD_BLK_END_RSP", "UPLOAD_INITIATE_RSP",
             "UPLOAD_SEGMENT_RSP", "UPLOAD_BLK_INITIATE_RSP", "UPLOAD_BLK_SUBBLOCK_SREQ",
             "UPLOAD_BLK_END_SREQ"}

\* nobody has anything to do but to wait
Silence ==
  /\ toSrv = <<>> /\ toCli = <<>> /\ srv.rx = None
  /\ cli.rx = None \/ cli.st = "IDLE"
  /\ srv.st \in SrvWaits
  /\ cli.st \in CliWaits

\* CO_SDOclientDownloadInitiate, or CO_SDOclientUploadInitiate. An answer names
\* its object and nothing else: the application does not ask for the object of
\* the last transfer again while late frames of it may be on their way.
Initiate(j) ==
  /\ cli.st = "IDLE" /\ begun < MaxJobs
  /\ job # None /\ job.obj = j.obj => Silence
  /\ job' = j
  /\ begun' = begun + 1
  /\ LET k == [cli EXCEPT !.idx = j.obj, !.ind = j.ind, !.tran = 0, !.fin = 0, !.fifo = <<>>,
                          !.got = <<>>, !.more = j.data, !.rx = None, !.ret = "none"]
     IN cli' = IF j.op = "upload"
               THEN [k EXCEPT !.st = IF j.blk = 1 THEN "UPLOAD_BLK_INITIATE_REQ"
                                     ELSE "UPLOAD_INITIATE_REQ"]
               ELSE Fill([k EXCEPT !.st = IF j.blk = 1 /\ (j.ind = 0 \/ j.ind > Pst)
                                          THEN "DOWNLOAD_BLK_INITIATE_REQ"
                                          ELSE "DOWNLOAD_INITIATE_REQ"])
  /\ UNCHANGED <<srv, toSrv, toCli, faults>>

\* CO_SDOclientDownloadBufWrite and CO_SDOclientUploadBufRead. A segment sent
\* without being confirmed is still in the fifo.
Refill ==
  /\ cli.st # "IDLE" /\ Partial(cli) /\ Room(cli.fifo) > 0
  /\ cli' = Fill(cli)
  /\ UNCHANGED <<srv, toSrv, toCli, job, begun, faults>>

TakeOut ==
  /\ job # None /\ job.op = "upload" /\ cli.fifo # <<>>
  /\ cli' = [cli EXCEPT !.got = @ \o cli.fifo, !.fifo = <<>>]
  /\ UNCHANGED <<srv, toSrv, toCli, job, begun, faults>>

End(k, ret) == [k EXCEPT !.st = "IDLE", !.ret = ret]

\* UPLOAD_INITIATE_RSP, and the server's choice to answer a block upload so
UploadInitiated(k) ==
  IF k.rx.exp = 1
  THEN End([k EXCEPT !.fifo = @ \o Front_(k.rx.data, k.rx.ind), !.tran = k.rx.ind], "ok")
  ELSE [k EXCEPT !.ind = IF k.rx.ind > 0 THEN k.rx.ind ELSE @, !.t = 0, !.st = "UPLOAD_SEGMENT_REQ"]

\* UPLOAD_BLK_INITIATE_RSP
BlockUploadInitiated(k) ==
  CASE k.rx.c = "uploadOk" -> UploadInitiated(k)
    [] k.rx.c = "blkUploadOk" ->
         [k EXCEPT !.ind = IF k.rx.ind > 0 THEN k.rx.ind ELSE @, !.st = "UPLOAD_BLK_INITIATE_REQ2"]
    [] OTHER -> Stop(k)

\* UPLOAD_SEGMENT_RSP
UploadedSegment(k) ==
  LET n == Low(Len(k.rx.data), Room(k.fifo))
      a == [k EXCEPT !.t = 1 - @, !.fifo = @ \o Front_(k.rx.data, n), !.tran = @ + n]
  IN  IF ~ToggleOk(k) THEN Stop(k)
      ELSE IF n < Len(k.rx.data) \/ (a.ind > 0 /\ a.tran > a.ind) THEN Stop(a)
      ELSE IF k.rx.last = 0 THEN [a EXCEPT !.st = "UPLOAD_SEGMENT_REQ"]
      ELSE IF a.ind > 0 /\ a.tran < a.ind THEN Stop(a) ELSE End(a, "ok")

\* CO_fifo_altBegin and CO_fifo_altFinish after the server's answer: what it
\* took leaves the fifo, the rest is sent again
SubBlockDownloaded(k) ==
  LET lost == (k.seq - k.rx.seq) * Seg - k.nod
      again == k.rx.seq < k.seq
      taken == IF again THEN Low(k.rx.seq * Seg, Len(k.fifo)) ELSE k.alt
      a == [k EXCEPT !.tran = IF again THEN @ - lost ELSE @,
                     !.fin = IF again THEN 0 ELSE @,
                     !.crc = @ \o Front_(k.fifo, taken),
                     !.fifo = Rest(@, taken), !.alt = 0]
  IN  IF k.rx.c # "subBlock" \/ k.rx.seq > k.seq THEN Stop(k)
      ELSE IF a.fin = 1 THEN [a EXCEPT !.st = "DOWNLOAD_BLK_END_REQ"]
      ELSE [a EXCEPT !.blk = k.rx.blk, !.seq = 0, !.st = "DOWNLOAD_BLK_SUBBLOCK_REQ"]

\* UPLOAD_BLK_END_SREQ: the bytes of the last segment, the size and the CRC
BlockUploaded(k) ==
  LET d == Front_(k.lastSeg, Seg - k.rx.ind)
      n == Low(Len(d), Room(k.fifo))
      a == [k EXCEPT !.fifo = @ \o Front_(d, n), !.crc = @ \o Front_(d, n), !.tran = @ + Len(d)]
  IN  IF k.rx.c # "blkEnd" THEN Stop(k)
      ELSE IF (a.ind > 0 /\ a.tran # a.ind) \/ CrcWrong([crc |-> a.crc, buf |-> <<>>], 2, k.rx.crc)
      THEN Stop(a)
      ELSE [a EXCEPT !.st = "UPLOAD_BLK_END_CRSP"]

\* CO_SDOclientDownload and CO_SDOclientUpload: the frame received
CliTaken(k, mine) ==
  CASE k.rx.c = "abort" -> End(k, "abort")
    [] k.rx.c # "abort" /\ k.st = "DOWNLOAD_INITIATE_RSP" ->
         IF k.rx.c # "downloadOk" \/ ~mine THEN Stop(k)
         ELSE IF k.fin = 1 THEN End(k, "ok")
         ELSE [k EXCEPT !.t = 0, !.st = "DOWNLOAD_SEGMENT_REQ"]
    [] k.rx.c # "abort" /\ k.st = "DOWNLOAD_SEGMENT_RSP" ->
         IF k.rx.c # "segmentOk" \/ k.rx.t # k.t THEN Stop(k)
         ELSE IF k.fin = 1 THEN End([k EXCEPT !.t = 1 - @], "ok")
         ELSE [k EXCEPT !.t = 1 - @, !.st = "DOWNLOAD_SEGMENT_REQ"]
    [] k.rx.c # "abort" /\ k.st = "DOWNLOAD_BLK_INITIATE_RSP" ->
         IF k.rx.c # "blkDownloadOk" \/ ~mine THEN Stop(k)
         ELSE [k EXCEPT !.crc = <<>>, !.blk = k.rx.blk, !.seq = 0, !.alt = 0,
                        !.st = "DOWNLOAD_BLK_SUBBLOCK_REQ"]
    [] k.rx.c # "abort" /\ k.st \in {"DOWNLOAD_BLK_SUBBLOCK_REQ", "DOWNLOAD_BLK_SUBBLOCK_RSP"} ->
         SubBlockDownloaded(k)
    [] k.rx.c # "abort" /\ k.st = "DOWNLOAD_BLK_END_RSP" ->
         IF k.rx.c = "blkEndOk" THEN End(k, "ok") ELSE Stop(k)
    [] k.rx.c # "abort" /\ k.st = "UPLOAD_INITIATE_RSP" ->
         IF k.rx.c # "uploadOk" \/ ~mine THEN Stop(k) ELSE UploadInitiated(k)
    [] k.rx.c # "abort" /\ k.st = "UPLOAD_SEGMENT_RSP" -> UploadedSegment(k)
    [] k.rx.c # "abort" /\ k.st = "UPLOAD_BLK_INITIATE_RSP" ->
         IF mine THEN BlockUploadInitiated(k) ELSE Stop(k)
    [] k.rx.c # "abort" /\ k.st = "UPLOAD_BLK_SUBBLOCK_SREQ" -> k
    [] k.rx.c # "abort" /\ k.st = "UPLOAD_BLK_END_SREQ" -> BlockUploaded(k)
    [] OTHER -> Stop(k)

CliTake(k) == [CliTaken(k, k.rx.idx = k.idx) EXCEPT !.rx = None]

\* DOWNLOAD_INITIATE_REQ
RequestDownload(k) ==
  LET n == Len(k.fifo)
      f == [Frame("download") EXCEPT !.idx = k.idx]
  IN  IF ~((k.ind = 0 /\ n =< Exped) \/ (k.ind > 0 /\ k.ind =< Exped))
      THEN Send([k EXCEPT !.st = "DOWNLOAD_INITIATE_RSP"], [f EXCEPT !.ind = k.ind])
      ELSE IF n = 0 \/ (k.ind > 0 /\ k.ind # n) THEN End(k, "abort")
      ELSE Send([k EXCEPT !.fifo = <<>>, !.tran = n, !.fin = 1, !.st = "DOWNLOAD_INITIATE_RSP"],
                [f EXCEPT !.exp = 1, !.ind = IF k.ind > 0 THEN n ELSE 0,
                          !.data = k.fifo \o Zeros(Exped - n)])

\* DOWNLOAD_SEGMENT_REQ
RequestSegment(k) ==
  LET n == Low(Len(k.fifo), Seg)
      a == [k EXCEPT !.fifo = Rest(@, n), !.tran = @ + n]
      last == a.fifo = <<>> /\ ~Partial(k)
  IN  IF k.ind > 0 /\ (a.tran > k.ind \/ (last /\ a.tran < k.ind)) THEN Stop(k)
      ELSE Send([a EXCEPT !.fin = IF last THEN 1 ELSE @, !.st = "DOWNLOAD_SEGMENT_RSP"],
                [Frame("segment") EXCEPT !.t = k.t, !.last = IF last THEN 1 ELSE 0,
                                         !.data = Front_(k.fifo, n)])

\* DOWNLOAD_BLK_SUBBLOCK_REQ, with CO_fifo_altRead
RequestBlockSegment(k) ==
  LET left == Len(k.fifo) - k.alt
      n == Low(left, Seg)
      a == [k EXCEPT !.seq = @ + 1, !.alt = @ + n, !.nod = Seg - n, !.tran = @ + n]
      last == n = left /\ ~Partial(k)
  IN  IF left < Seg /\ Partial(k) THEN k
      ELSE IF k.ind > 0 /\ (a.tran > k.ind \/ (last /\ a.tran < k.ind)) THEN Stop(a)
      ELSE Send([a EXCEPT !.fin = IF last THEN 1 ELSE @,
                          !.st = IF last \/ a.seq >= a.blk THEN "DOWNLOAD_BLK_SUBBLOCK_RSP" ELSE @],
                [Frame("block") EXCEPT !.seq = a.seq, !.last = IF last THEN 1 ELSE 0,
                                       !.data = Pad(SubSeq(k.fifo, k.alt + 1, k.alt + n))])

\* the segments of a sub-block that the fifo has room for
FifoBlock(k) == Low(Room(k.fifo) \div Seg, Cap)

\* UPLOAD_BLK_SUBBLOCK_CRSP: the next sub-block waits for an empty fifo, or for
\* room for the largest
AnswerUploadBlock(k) ==
  LET n == FifoBlock(k) IN
  IF k.fin = 1
  THEN Send([k EXCEPT !.st = "UPLOAD_BLK_END_SREQ"],
            [Frame("subBlock") EXCEPT !.seq = k.seq, !.blk = k.blk])
  ELSE IF k.ind > 0 /\ k.tran > k.ind THEN Stop(k)
  ELSE IF n < Cap /\ k.fifo # <<>> THEN k
  ELSE Send([k EXCEPT !.blk = n, !.seq = 0, !.rx = None, !.st = "UPLOAD_BLK_SUBBLOCK_SREQ"],
            [Frame("subBlock") EXCEPT !.seq = k.seq, !.blk = n])

\* the requests of an upload
CliSendUpload(k) ==
  CASE k.st = "UPLOAD_INITIATE_REQ" ->
         Send([k EXCEPT !.st = "UPLOAD_INITIATE_RSP"], [Frame("upload") EXCEPT !.idx = k.idx])
    [] k.st = "UPLOAD_SEGMENT_REQ" ->
         IF Room(k.fifo) < Seg THEN k
         ELSE Send([k EXCEPT !.st = "UPLOAD_SEGMENT_RSP"], [Frame("next") EXCEPT !.t = k.t])
    [] k.st = "UPLOAD_BLK_INITIATE_REQ" ->
         LET n == FifoBlock(k) IN
         IF n = 0 THEN Stop(k)
         ELSE Send([k EXCEPT !.blk = n, !.st = "UPLOAD_BLK_INITIATE_RSP"],
                   [Frame("blkUpload") EXCEPT !.idx = k.idx, !.blk = n])
    [] k.st = "UPLOAD_BLK_INITIATE_REQ2" ->
         Send([k EXCEPT !.seq = 0, !.crc = <<>>, !.rx = None, !.half = 0, !.st = "UPLOAD_BLK_SUBBLOCK_SREQ"],
              Frame("blkStart"))
    [] k.st = "UPLOAD_BLK_SUBBLOCK_CRSP" -> AnswerUploadBlock(k)
    [] k.st = "UPLOAD_BLK_END_CRSP" -> Send(End(k, "ok"), Frame("blkEndOk"))
    [] OTHER -> k

\* the frame sent
CliSend(k) ==
  CASE k.st = "DOWNLOAD_INITIATE_REQ" -> RequestDownload(k)
    [] k.st = "DOWNLOAD_SEGMENT_REQ" -> RequestSegment(k)
    [] k.st = "DOWNLOAD_BLK_INITIATE_REQ" ->
         Send([k EXCEPT !.st = "DOWNLOAD_BLK_INITIATE_RSP"],
              [Frame("blkDownload") EXCEPT !.idx = k.idx, !.ind = k.ind])
    [] k.st = "DOWNLOAD_BLK_SUBBLOCK_REQ" -> RequestBlockSegment(k)
    [] k.st = "DOWNLOAD_BLK_END_REQ" ->
         Send([k EXCEPT !.st = "DOWNLOAD_BLK_END_RSP"],
              [Frame("blkEnd") EXCEPT !.ind = k.nod, !.crc = k.crc])
    [] OTHER -> CliSendUpload(k)

CliGoesOn(k) ==
  /\ cli' = [k EXCEPT !.out = <<>>, !.ret = IF k.out = <<abort>> THEN "abort" ELSE @]
  /\ toSrv' = toSrv \o k.out
  /\ UNCHANGED <<srv, toCli, job, begun>>

CliMove(k) == CliGoesOn(IF Full(toSrv) THEN k ELSE SendAbort(CliSend(k)))
CliGivesUp == CliGoesOn(IF Full(toSrv) THEN Stop(cli) ELSE SendAbort(Stop(cli)))

CO_SDOclient_process ==
  /\ cli.st # "IDLE" /\ (cli.rx # None \/ (cli.st \notin CliWaits /\ ~Full(toSrv)))
  /\ CliMove(IF cli.rx = None THEN cli ELSE CliTake(cli))
  /\ UNCHANGED faults

UploadedBlockSegment(k, f) ==
  IF InTurn(k, f)
  THEN IF f.last = 1
       THEN [k EXCEPT !.seq = f.seq, !.lastSeg = f.data, !.fin = 1, !.rx = None,
                      !.st = "UPLOAD_BLK_SUBBLOCK_CRSP"]
       ELSE LET d == Front_(f.data, Low(Seg, Room(k.fifo))) IN
            [k EXCEPT !.seq = f.seq, !.fifo = @ \o d, !.crc = @ \o d, !.tran = @ + Seg,
                      !.st = IF f.seq = k.blk THEN "UPLOAD_BLK_SUBBLOCK_CRSP" ELSE @,
                      !.rx = IF f.seq = k.blk THEN None ELSE @]
  ELSE IF OutOfTurn(k, f)
  THEN [k EXCEPT !.st = "UPLOAD_BLK_SUBBLOCK_CRSP", !.rx = None]
  ELSE k

CO_SDOclient_receive ==
  /\ toCli # <<>>
  /\ LET f == Head(toCli)
         heard == cli.st # "IDLE" /\ (cli.rx = None \/ f.c = "abort")
         stored == f.c # "abort" /\ cli.st = "UPLOAD_BLK_SUBBLOCK_SREQ"
         ignored == f.c # "abort" /\ cli.st = "UPLOAD_BLK_SUBBLOCK_CRSP"
     IN cli' = IF ~heard \/ ignored THEN cli
               ELSE IF stored THEN [UploadedBlockSegment(cli, f) EXCEPT !.half = 0]
               ELSE [cli EXCEPT !.rx = f]
  /\ toCli' = Tail(toCli)
  /\ UNCHANGED <<srv, toSrv, job, begun, faults>>

-----------------------------------------------------------------------------
(* Time and the bus. A timer that runs out while an answer is still to come *)
(* is a fault; otherwise only silence lets it.                              *)

Early == IF Silence THEN faults' = faults ELSE faults < MaxFaults /\ faults' = faults + 1
Fault == faults < MaxFaults /\ faults' = faults + 1

\* or the application gives up with send_abort
CliTimeout ==
  /\ cli.st \notin {"IDLE", "ABORT"} /\ cli.rx = None
  /\ CliGivesUp /\ Early

SrvTimeoutNotAtEnd ==
  /\ srv.st \notin {"IDLE", "ABORT", "UPLOAD_BLK_END_CRSP"} /\ srv.rx = None
  /\ SrvGoesOn(IF Full(toCli) THEN Stop(srv) ELSE SendAbort(Stop(srv))) /\ Early

SrvTimeout ==
  /\ srv.st \notin {"IDLE", "ABORT"} /\ srv.rx = None
  /\ SrvGoesOn(IF Full(toCli) THEN Stop(srv) ELSE SendAbort(Stop(srv))) /\ Early

\* The shorter one of a sub-block: its receiver answers with what it has. It is
\* 7/10 of the other, which goes on, so that it runs out once (half) and the
\* second time it is the other one that does.
SrvBlockTimeout ==
  /\ srv.st = "DOWNLOAD_BLK_SUBBLOCK_REQ" /\ srv.rx = None /\ srv.half = 0
  /\ SrvMove([srv EXCEPT !.half = 1, !.st = "DOWNLOAD_BLK_SUBBLOCK_RSP"]) /\ Early

CliBlockTimeout ==
  /\ cli.st = "UPLOAD_BLK_SUBBLOCK_SREQ" /\ cli.rx = None /\ cli.half = 0
  /\ CliMove([cli EXCEPT !.half = 1, !.st = "UPLOAD_BLK_SUBBLOCK_CRSP"]) /\ Early

\* the application gives up without telling the server
CO_SDOclientClose ==
  /\ cli.st # "IDLE" /\ Fault
  /\ cli' = End(cli, "closed")
  /\ UNCHANGED <<srv, toSrv, toCli, job, begun>>

Lose ==
  /\ Fault
  /\ \/ toSrv # <<>> /\ toSrv' = Tail(toSrv) /\ UNCHANGED toCli
     \/ toCli # <<>> /\ toCli' = Tail(toCli) /\ UNCHANGED toSrv
  /\ UNCHANGED <<cli, srv, job, begun>>

Double ==
  /\ Fault
  /\ \/ toSrv # <<>> /\ toSrv' = <<Head(toSrv)>> \o toSrv /\ UNCHANGED toCli
     \/ toCli # <<>> /\ toCli' = <<Head(toCli)>> \o toCli /\ UNCHANGED toSrv
  /\ UNCHANGED <<cli, srv, job, begun>>

Node ==
  \/ CO_SDOserver_process \/ CO_SDO_receive
  \/ CO_SDOclient_process \/ CO_SDOclient_receive \/ Refill \/ TakeOut

Clock == CliTimeout \/ SrvTimeout \/ CliBlockTimeout \/ SrvBlockTimeout

Next ==
  \/ \E j \in Jobs : Initiate(j)
  \/ Node \/ Clock
  \/ CO_SDOclientClose \/ Lose \/ Double

Spec == Init /\ [][Next]_vars

SrvDue == srv.rx # None \/ (srv.st \notin SrvWaits /\ ~Full(toCli))
Stuck(k) == k.st # "ABORT" /\ CliSend(k) = k
CliDue == cli.st # "IDLE" /\ (cli.rx # None \/ (cli.st \notin CliWaits /\ ~Full(toSrv) /\ ~Stuck(cli)))

\* Weak fairness, its ENABLED spelled out where the action is a whole step of
\* a transfer. Both process functions and the application's loop are called again and
\* again, interrupts are served, and timers run out.
FairSpec ==
  /\ Spec
  /\ []<>~SrvDue \/ []<><<CO_SDOserver_process>>_vars
  /\ []<>~CliDue \/ []<><<CO_SDOclient_process>>_vars
  /\ WF_vars(CO_SDO_receive) /\ WF_vars(CO_SDOclient_receive)
  /\ WF_vars(Refill) /\ WF_vars(TakeOut)
  /\ WF_vars(Silence /\ CliTimeout) /\ WF_vars(Silence /\ SrvTimeout)

\* Each transfer is started when nothing is left of the last one, and the bus
\* loses frames but doubles none.
OrderlyNext ==
  \/ Silence /\ \E j \in Jobs : Initiate(j)
  \/ Node \/ Clock
  \/ CO_SDOclientClose \/ Lose

OrderlySpec == Init /\ [][OrderlyNext]_vars

-----------------------------------------------------------------------------
\* A text, which a zero would end, has none and is not empty.
Plain(o, d) == o \in Str => d # <<>> /\ \A i \in 1..Len(d) : d[i] # 0

\* A download the protocol can be asked for. Of expedited data without a size the
\* server takes as much as the object holds, so that they have to be as long.
Fitting(j) ==
  /\ Plain(j.obj, j.data)
  /\ j.ind = 0 /\ Len(j.data) =< Exped =>
       IF j.obj \in Str THEN Len(j.data) =< Len(First[j.obj]) ELSE Len(j.data) = Len(First[j.obj])

\* Texts the server reads at once. Of a longer one whose end falls on the end of its
\* buffer it reads on and sends the zero too, as a read of nothing is not allowed.
TextsFit == \A o \in Str : Len(First[o]) =< Buf

\* A download the client reports as done is what the object holds: whatever
\* was lost, doubled, sent again or timed out on the way.
DownloadsArrive ==
  cli.ret = "ok" /\ job.op = "download" => Text(job.obj, srv.od[job.obj]) = job.data

\* An upload the client reports as done has given the application the value
\* of the object.
UploadsArrive ==
  cli.ret = "ok" /\ job.op = "upload" =>
    cli.got \o cli.fifo = Text(job.obj, srv.od[job.obj])

\* CO_SDOserver.c:81 "There is always enough space in buffer", in
\* CO_SDO_receive, and CO_SDOclient.c:101 "There is always enough space in
\* fifo buffer": of every sub-block that an end has asked for.
SubBlocksFit ==
  /\ srv.st = "DOWNLOAD_BLK_SUBBLOCK_REQ" =>
       Len(srv.buf) + (srv.blk - srv.seq) * Seg =< Buf - 2
  /\ cli.st = "UPLOAD_BLK_SUBBLOCK_SREQ" =>
       Len(cli.fifo) + (cli.blk - cli.seq) * Seg =< Fifo

\* Every transfer ends, for the application and for the server.
TransfersEnd == cli.st # "IDLE" ~> cli.st = "IDLE"
ServerFreed == srv.st # "IDLE" ~> srv.st = "IDLE"
=============================================================================
