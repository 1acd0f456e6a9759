---------------------------- MODULE RequestScan ----------------------------
(***************************************************************************)
(* How the reactor cuts requests out of a byte stream (reactor.hpp): the   *)
(* incremental search for "\r\n\r\n" in on_client_event(), the carving in  *)
(* dispatch_to_worker(), and drain_into_buffer() with                      *)
(* check_buffered_request() after a response.  Bytes are "r", "n" and "x"  *)
(* (anything else).  A read event is a burst of any number of read() calls *)
(* that ends at EAGAIN; the stream may be fragmented at any byte.          *)
(***************************************************************************)
EXTENDS Naturals, Sequences

CONSTANTS
  Streams,     \* what a client may send
  ReadSize,    \* sizeof(buf)
  MaxRequest   \* Connection_max_request()

ASSUME ScanAssumption ==
  /\ \A b \in Streams : b \in Seq({"r", "n", "x"})
  /\ ReadSize \in Nat \ {0} /\ MaxRequest \in Nat

VARIABLES
  sent,          \* everything the client sends
  rest,          \* the part that has not been read yet
  read_buf,
  scan_pos,
  got_complete,
  late,          \* ghost: the event has read on after it saw the end of a request
  mode,          \* "idle", "reading", "dispatched", "draining", "closed"
  carved         \* the requests handed to workers, [bytes, late, at]; ghosts: late of
                 \* the event, and where in the stream the request began

scan_vars == <<sent, rest, read_buf, scan_pos, got_complete, late, mode, carved>>

needle_len == 4
Needle == <<"r", "n", "r", "n">>

(* Offset of the first needle at or after `from`, or Len(b) if there is none:
   offsets count bytes before a position, as in the code. *)
Hits(b, from) == {i \in from..(Len(b) - needle_len) : SubSeq(b, i+1, i+needle_len) = Needle}
Found(b, from) == Hits(b, from) # {}
LastHit(b, from) ==   \* a slip: the search does not stop
  CHOOSE i \in Hits(b, from) : \A j \in Hits(b, from) : j <= i
FirstHit(b, from) == CHOOSE i \in Hits(b, from) : \A j \in Hits(b, from) : i <= j

ScanInit ==
  /\ sent \in Streams /\ rest = sent
  /\ read_buf = <<>> /\ scan_pos = 0 /\ got_complete = FALSE
  /\ late = FALSE /\ mode = "idle" /\ carved = <<>>

(* Where the search resumes: three bytes before the old end, but not before
   scan_pos.  The slip forgets the overlap. *)
Overlap(n) == IF n >= needle_len - 1 THEN n - (needle_len - 1) ELSE 0
ScanFromEnd(prev_len) == IF prev_len >= scan_pos THEN prev_len ELSE scan_pos
ScanFrom(prev_len) ==
  IF Overlap(prev_len) >= scan_pos THEN Overlap(prev_len) ELSE scan_pos

(* One read() of on_client_event() that returns n bytes. *)
ReadEvent(n) ==
  LET b == read_buf \o SubSeq(rest, 1, n)
      from == ScanFrom(Len(read_buf))
  IN  /\ mode \in {"idle", "reading"}
      /\ n <= Len(rest)
      /\ rest' = SubSeq(rest, n+1, Len(rest)) /\ read_buf' = b
      /\ mode' = IF Len(b) > MaxRequest THEN "closed" ELSE "reading"
      /\ late' = (late \/ got_complete)
      /\ scan_pos' = IF Found(b, from) THEN FirstHit(b, from) + needle_len
                     ELSE Overlap(Len(b))
      /\ got_complete' = (got_complete \/ Found(b, from))
      /\ UNCHANGED <<sent, carved>>

(* dispatch_to_worker(): [0, scan_pos) goes to a worker, or everything when
   scan_pos is 0; the rest moves to the front. *)
Carve(b, pos) ==
  LET req_len == IF pos = 0 THEN Len(b) ELSE pos
  IN  /\ carved' = Append(carved, [bytes |-> SubSeq(b, 1, req_len), late |-> late,
                                     at |-> Len(sent) - Len(b) - Len(rest)])
      /\ read_buf' = SubSeq(b, req_len + 1, Len(b)) /\ scan_pos' = 0
      /\ mode' = "dispatched"

(* EAGAIN: dispatch if a needle was seen in this event. *)
EndOfEvent ==
  /\ mode = "reading" /\ late' = FALSE /\ got_complete' = FALSE
  /\ IF got_complete THEN Carve(read_buf, scan_pos)
     ELSE mode' = "idle" /\ UNCHANGED <<read_buf, scan_pos, carved>>
  /\ UNCHANGED <<sent, rest>>

(* The response is out: finish_response() drains, without scanning, ... *)
FinishResponse ==
  /\ mode = "dispatched" /\ mode' = "draining"
  /\ UNCHANGED <<sent, rest, read_buf, scan_pos, got_complete, late, carved>>

DrainRead(n) ==
  /\ mode = "draining" /\ n <= Len(rest)
  /\ read_buf' = read_buf \o SubSeq(rest, 1, n)
  /\ rest' = SubSeq(rest, n+1, Len(rest))
  /\ mode' = IF Len(read_buf') > MaxRequest THEN "closed" ELSE "draining"
  /\ UNCHANGED <<sent, scan_pos, got_complete, late, carved>>

LacksRequest(b) == ~Found(b, 0)

CheckBuffered ==
  /\ mode = "draining"
  /\ IF LacksRequest(read_buf)
     THEN mode' = "idle" /\ UNCHANGED <<read_buf, scan_pos, carved>>
     ELSE Carve(read_buf, FirstHit(read_buf, 0) + needle_len)
  /\ UNCHANGED <<sent, rest, got_complete, late>>

ScanNext ==
  \/ \E n \in 1..ReadSize : ReadEvent(n) \/ DrainRead(n)
  \/ EndOfEvent \/ FinishResponse \/ CheckBuffered

ScanSpec == ScanInit /\ [][ScanNext]_scan_vars

-----------------------------------------------------------------------------

(* scan_pos stays inside the buffer, whichever way a stream is fragmented
   (PooledBuffer's scan_pos and size are set independently). *)
ScanTypeOK ==
  /\ read_buf \in Seq({"r", "n", "x"}) /\ rest \in Seq({"r", "n", "x"})
  /\ scan_pos \in 0..Len(read_buf)
  /\ late \in BOOLEAN /\ got_complete \in BOOLEAN
  /\ mode \in {"idle", "reading", "dispatched", "draining", "closed"}

(* Where the first i requests end in the stream. *)
CutAfter(i) == IF i = 0 THEN 0 ELSE carved[i].at + Len(carved[i].bytes)

(* Nothing is lost, duplicated or reordered between the socket and the workers:
   the requests follow one another in the stream, and what is buffered or unread
   follows the last.  And the stream is cut after requests: a worker gets the
   bytes up to and including the first "\r\n\r\n", however many reads they took,
   when its event read nothing more after it had seen that end, or the request was
   buffered.  (An event that reads on cuts elsewhere: see the README.) *)
OneRequestEach ==
  /\ read_buf \o rest = SubSeq(sent, CutAfter(Len(carved)) + 1, Len(sent))
  /\ \A i \in DOMAIN carved :
       LET b == carved[i].bytes
       IN  /\ carved[i].at = CutAfter(i - 1)
           /\ b = SubSeq(sent, CutAfter(i - 1) + 1, CutAfter(i))
           /\ ~carved[i].late => Hits(b, 0) = {Len(b) - needle_len}

(* No complete request is left behind in the buffer of an idle connection, for
   which no further edge would fire; in particular the incremental search finds
   a needle that straddles two reads. *)
NothingStuck == mode = "idle" => ~Found(read_buf, 0)

=============================================================================
