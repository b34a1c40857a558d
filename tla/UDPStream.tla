------------------------------ MODULE UDPStream ------------------------------
(***************************************************************************)
(* A file sent over UDP: the two state machines udp_stream() at the ends,  *)
(* the OutboxFile and the InboxFile they serve, and the network between    *)
(* them, which loses, delays and reorders datagrams (transport/udp/        *)
(* udp_stream.py, udp_file_queue.py).                                      *)
(*                                                                         *)
(* The sender cuts the file into blocks, sends each until it is acked, and *)
(* reads on when its buffer has room.  The receiver keeps the blocks that  *)
(* come too early and writes the ones that follow the last one written.    *)
(* The first ack that carries the EOF flag, or that comes for a stream the *)
(* receiver has closed, ends the sender.                                   *)
(*                                                                         *)
(* Clocks are left out: what is sent again and when an ack is due are      *)
(* choices, and a stream may time out whenever nothing is on the way to it.*)
(* A datagram lost is one not sent: a choice of the sender.  A duplicate   *)
(* is a block that was sent again.  The event "timeout" is handled when it *)
(* is sent, the udp_session() stays CONNECTED, the disk takes every write, *)
(* and a value nothing reads again is reset.                               *)
(***************************************************************************)
EXTENDS Naturals, Sequences, FiniteSets

CONSTANTS
    Size,        \* the blocks of the file
    Chunk,       \* blocks that OutboxFile.process() reads at once (8)
    Buffer,      \* blocks that fit in OUTPUT_BUFFER_SIZE (33)
    Window,      \* BLOCKS_PER_ACK * WINDOW_SIZE (80)
    Group,       \* BLOCKS_PER_ACK (8)
    MaxAcks      \* bound: acks on the way

ASSUME StreamAssumption ==
    /\ Size \in Nat \ {0} /\ Chunk \in Nat \ {0} /\ Buffer \in Nat /\ Chunk <= Buffer
    /\ Window \in Nat /\ Group \in Nat \ {0} /\ MaxAcks \in Nat

VARIABLES
    out,         \* the stream that sends, and its OutboxFile
    inp,         \* the stream that receives, and its InboxFile
    written,     \* what was written to the file of the receiver
    data,        \* the blocks on the way
    acks         \* the acks on the way

vars == <<out, inp, written, data, acks>>

\* "later" holds the events that wait in the reactor, "asked" tells of the
\* Deferred of interface_register_file_..(), "reports" counts the calls of
\* interface_unregister_file_..()
Open == {"DOWNTIME", "SENDING", "PAUSE"}
Ack(ids, eof, pause) == [ids |-> ids, eof |-> eof, pause |-> pause, closed |-> FALSE]
ZeroAck == [ids |-> {}, eof |-> FALSE, pause |-> FALSE, closed |-> TRUE]

-----------------------------------------------------------------------------
(* The sender *)

\* output_acked_block_id_current
FirstAcked(o) ==
    CHOOSE n \in 0..o.pushed : 1..n \cap o.blocks = {} /\ (n = o.pushed \/ n + 1 \in o.blocks)

Boundary(c) == c % Chunk = 0 \/ c = Size
\* on_consume() does not raise BufferOverflow for the chunks up to block c
Fits(o, c) == Cardinality(o.blocks) + (c - o.pushed) <= Buffer
Following(c) == IF c + Chunk < Size THEN c + Chunk ELSE Size

\* How far OutboxFile.process() may get: to the end of the file, until the buffer
\* is full, or until too many of the blocks sent were lost
Reaches(o, acked) ==
    {c \in o.pushed..Size :
        /\ c = o.pushed \/ (Boundary(c) /\ Fits(o, c))
        /\ c = Size \/ ~Fits(o, Following(c)) \/ c - acked > Window}

MutPush(o, c) == [o EXCEPT !.blocks = @ \cup (o.pushed .. c), !.pushed = c]
\* doPushBlocks()
Push(o, c) == [o EXCEPT !.blocks = @ \cup (o.pushed + 1 .. c), !.pushed = c]

\* on_outbox_file_done(), on_inbox_file_done() and the ones for time-outs: as
\* long as the file is not registered nothing is reported and nothing closed
Reported(file) ==
    IF file.asked = "pending" THEN file
    ELSE [file EXCEPT !.later = @ \cup {"close"}, !.reports = @ + 1]

\* doReportSendDone() or doReportSendTimeout(), and doCloseStream()
SendEnds(o, status) ==
    Reported([o EXCEPT !.state = "COMPLETION", !.status = status, !.blocks = {},
                       !.pushed = 0, !.delivered = 0, !.eof = FALSE])
IsDone(o) == o.delivered = Size

\* doResendBlocks(): any of the blocks not acked, or the end when nothing came
\* for SENDING_TIMEOUT, which no datagram is delayed for
ResendBlocks(o) == out' = o /\ \E sent \in SUBSET o.blocks : data' = data \cup sent
GiveUp(o) ==
    /\ o.blocks # {} /\ acks = {}
    /\ out' = SendEnds([o EXCEPT !.timeout = TRUE], "failed")
    /\ UNCHANGED data

\* process_sessions(): the file is read
ProcessFile ==
    /\ out.state \in Open
    /\ \E c \in Reaches(out, FirstAcked(out)) :
          /\ c > out.pushed
          /\ IF out.state = "PAUSE" THEN out' = Push(out, c) /\ UNCHANGED data
             ELSE ResendBlocks([Push(out, c) EXCEPT !.state = "SENDING"])
    /\ UNCHANGED <<inp, written, acks>>

\* 'iterate', from process_streams()
SendIterate ==
    /\ out.state = "SENDING"
    /\ ResendBlocks(out) \/ GiveUp(out)
    /\ UNCHANGED <<inp, written, acks>>

MutTaken(o, m) ==
    LET hits == {b \in o.blocks : \E i \in m.ids : b <= i}
        rest == [o EXCEPT !.blocks = @ \ hits, !.delivered = @ + Cardinality(hits)]
        more == hits # {} /\ ~IsDone(rest) /\ ~rest.cancelled
        ends == m.eof \/ m.closed \/ (hits # {} /\ ~more)
    IN {[Push(rest, c) EXCEPT !.eof = @ \/ ends] :
            c \in IF more THEN Reaches(rest, FirstAcked(o)) ELSE {o.pushed}}
\* on_ack_received() before the event: a block acked is popped and counted, and
\* the file is read on when it is not all delivered
Taken(o, m) ==
    LET hits == m.ids \cap o.blocks
        rest == [o EXCEPT !.blocks = @ \ hits, !.delivered = @ + Cardinality(hits)]
        more == hits # {} /\ ~IsDone(rest) /\ ~rest.cancelled
        ends == m.eof \/ m.closed \/ (hits # {} /\ ~more)
    IN {[Push(rest, c) EXCEPT !.eof = @ \/ ends] :
            c \in IF more THEN Reaches(rest, FirstAcked(o)) ELSE {o.pushed}}

AckReceived ==
    /\ \E m \in acks :
        /\ acks' = acks \ {m}
        /\ IF out.state \notin {"SENDING", "PAUSE"} THEN UNCHANGED <<out, data>>
           ELSE \E o \in Taken(out, m) :
              \/ /\ o.eof
                 /\ out' = SendEnds(o, IF IsDone(o) THEN "finished" ELSE "failed")
                 /\ UNCHANGED data
              \/ /\ ~o.eof /\ ~m.pause /\ o.state = "SENDING"
                 /\ ResendBlocks(o)
              \/ /\ ~o.eof /\ m.pause /\ o.state = "SENDING"
                 /\ ResendBlocks([o EXCEPT !.state = "PAUSE", !.later = @ \cup {"resume"}])
                 /\ o.pushed = out.pushed => UNCHANGED data
              \/ /\ ~o.eof /\ o.state = "PAUSE"
                 /\ out' = o /\ UNCHANGED data
    /\ UNCHANGED <<inp, written>>

MutSendResumes ==
    /\ "resume" \in out.later
    /\ LET o == [out EXCEPT !.later = @ \ {"resume"}] IN
       IF out.state = "PAUSE" /\ out.blocks # {}
       THEN ResendBlocks([o EXCEPT !.state = "SENDING"]) \/ GiveUp([o EXCEPT !.state = "SENDING"])
       ELSE out' = o /\ UNCHANGED data
    /\ UNCHANGED <<inp, written, acks>>
\* 'resume', which doResumeLater() has sent with callLater()
SendResumes ==
    /\ "resume" \in out.later
    /\ LET o == [out EXCEPT !.later = @ \ {"resume"}] IN
       IF out.state = "PAUSE"
       THEN ResendBlocks([o EXCEPT !.state = "SENDING"]) \/ GiveUp([o EXCEPT !.state = "SENDING"])
       ELSE out' = o /\ UNCHANGED data
    /\ UNCHANGED <<inp, written, acks>>

\* cancel_file_sending()
Cancel ==
    /\ out.asked = "yes" /\ out.state \in Open /\ ~out.cancelled
    /\ out' = [out EXCEPT !.cancelled = TRUE, !.status = "failed"]
    /\ UNCHANGED <<inp, written, data, acks>>

-----------------------------------------------------------------------------
(* The receiver *)

\* on_block_received() before the event
Stored(i, b) ==
    IF b \in i.blocks \/ b < i.current THEN i.blocks ELSE i.blocks \cup {b}
\* The last of the blocks that follow one another
Follows(i, b, n) ==
    IF b = i.current + 1
    THEN i.current + 1 .. n \subseteq Stored(i, b) /\ n + 1 \notin Stored(i, b)
    ELSE n = i.current
MutKept(i, b, n) ==
    [i EXCEPT !.current = n, !.blocks = Stored(i, b) \ (i.current + 1 .. n),
              !.toAck = @ \cup {b}, !.eof = @ \/ b = Size]
Kept(i, b, n) ==
    [i EXCEPT !.current = n, !.blocks = Stored(i, b) \ (i.current + 1 .. n),
              !.toAck = @ \cup {b}, !.eof = @ \/ n = Size]

\* _send_ack(); a receiver over its limit asks for a pause
SendAck(i, pauses) ==
    /\ i.toAck # {} \/ i.eof
    /\ inp' = [i EXCEPT !.toAck = {}]
    /\ \E pause \in pauses, lost \in BOOLEAN :
          acks' = IF lost THEN acks ELSE acks \cup {Ack(i.toAck, i.eof, pause)}
    /\ Cardinality(acks') <= MaxAcks

\* doReportReceiveDone() or doReportReceiveTimeout(), and doCloseStream()
ReceiveEnds(i, status) ==
    Reported([i EXCEPT !.state = "COMPLETION", !.status = status,
                       !.blocks = {}, !.toAck = {}, !.eof = FALSE])

BlockReceived(b) ==
    /\ b \in data /\ data' = data \ {b}
    /\ \/ /\ inp.state = "CLOSED"
          /\ acks' \in {acks, acks \cup {ZeroAck}} /\ Cardinality(acks') <= MaxAcks
          /\ UNCHANGED <<inp, written>>
       \/ /\ inp.state # "CLOSED"
          /\ \E n \in inp.current..Size :
             /\ Follows(inp, b, n)
             /\ written' = written \o [k \in 1..n - inp.current |-> inp.current + k]
             /\ LET i == Kept(inp, b, n) IN
                \/ /\ inp.state = "NONE"
                   /\ SendAck([i EXCEPT !.state = "RECEIVING", !.asked = "pending"], {FALSE})
                \/ /\ inp.state = "RECEIVING" /\ ~i.eof
                   /\ \/ SendAck(i, BOOLEAN)
                      \/ Cardinality(i.toAck) < Group /\ inp' = i /\ UNCHANGED acks
                \/ /\ inp.state = "RECEIVING" /\ i.eof
                   /\ inp' = ReceiveEnds(i, "finished")
                   /\ \E pause, lost \in BOOLEAN :
                         acks' = IF lost THEN acks
                                 ELSE acks \cup {Ack(i.toAck, i.eof, pause)}
                   /\ Cardinality(acks') <= MaxAcks
                \/ /\ inp.state = "COMPLETION"
                   /\ inp' = [i EXCEPT !.toAck = {}, !.eof = FALSE] /\ UNCHANGED acks
    /\ UNCHANGED <<out>>

ReceiveIterate ==
    /\ inp.state = "RECEIVING"
    /\ \/ SendAck(inp, BOOLEAN)
       \/ /\ data = {}
          /\ inp' = ReceiveEnds([inp EXCEPT !.timeout = TRUE], "failed")
          /\ UNCHANGED acks
    /\ UNCHANGED <<out, written, data>>

-----------------------------------------------------------------------------
(* Both *)

\* on_outbox_file_registered() and on_inbox_file_registered(): what ended before
\* is reported and closed now
MutRegistered(file) == [file EXCEPT !.asked = "yes"]
Registered(file) ==
    LET f == [file EXCEPT !.asked = "yes"]
    IN IF file.status = "open" THEN f ELSE Reported(f)
SendRegistered ==
    /\ out.asked = "pending" /\ out' = Registered(out)
    /\ UNCHANGED <<inp, written, data, acks>>
ReceiveRegistered ==
    /\ inp.asked = "pending" /\ inp' = Registered(inp)
    /\ UNCHANGED <<out, written, data, acks>>

\* 'close' and doDestroyMe()
Closed(file) == [file EXCEPT !.state = "CLOSED", !.blocks = {}, !.later = {}]
SendCloses ==
    /\ "close" \in out.later /\ out' = Closed(out)
    /\ UNCHANGED <<inp, written, data, acks>>
ReceiveCloses ==
    /\ "close" \in inp.later /\ inp' = Closed(inp)
    /\ UNCHANGED <<out, written, data, acks>>

-----------------------------------------------------------------------------
Init ==
    /\ out = [state |-> "DOWNTIME", eof |-> FALSE, blocks |-> {}, pushed |-> 0,
              delivered |-> 0, status |-> "open", timeout |-> FALSE,
              cancelled |-> FALSE, asked |-> "pending", reports |-> 0, later |-> {}]
    /\ inp = [state |-> "NONE", eof |-> FALSE, blocks |-> {}, current |-> 0,
              toAck |-> {}, status |-> "open", timeout |-> FALSE, asked |-> "no",
              reports |-> 0, later |-> {}]
    /\ written = <<>> /\ data = {} /\ acks = {}

Next ==
    \/ ProcessFile \/ SendIterate \/ AckReceived
    \/ SendResumes \/ Cancel
    \/ \E b \in data : BlockReceived(b)
    \/ ReceiveIterate
    \/ SendRegistered \/ ReceiveRegistered \/ SendCloses \/ ReceiveCloses

Spec == Init /\ [][Next]_vars

\* The oldest block is sent again at the latest after 6 seconds
KeepAlive ==
    SendIterate /\ \E b \in out.blocks \cap data' : \A c \in out.blocks : b <= c
SendQuiet == SendIterate /\ out'.timeout
ReceiveQuiet == ReceiveIterate /\ inp'.timeout
Acknowledged == (\E b \in data : BlockReceived(b)) /\ acks' # acks
NextReceived == inp.current + 1 \in data /\ BlockReceived(inp.current + 1)
Due == \/ ProcessFile \/ SendResumes \/ SendRegistered \/ SendCloses
       \/ ReceiveRegistered \/ ReceiveCloses

\* Of datagrams that are sent again and again some arrive; the reactor runs what
\* is due; the Deferred of a registration fires; the times of silence end
FairSpec ==
    /\ Spec
    /\ WF_vars(Due) /\ WF_vars(KeepAlive)
    /\ WF_vars(SendQuiet) /\ WF_vars(ReceiveQuiet)
    /\ SF_vars(NextReceived) /\ SF_vars(Acknowledged)
    /\ SF_vars(ReceiveIterate /\ acks' # acks) /\ SF_vars(AckReceived)

-----------------------------------------------------------------------------
(* Properties *)

\* The values the code gives its variables: a block not acked was pushed, the
\* receiver keeps only blocks of the file, and the bytes delivered are those of
\* the blocks pushed and not waited for any more
TypeOK ==
    /\ out.state \in Open \cup {"COMPLETION", "CLOSED"}
    /\ inp.state \in {"NONE", "RECEIVING", "COMPLETION", "CLOSED"}
    /\ out.status \in {"open", "finished", "failed"}
    /\ inp.status \in {"open", "finished", "failed"}
    /\ out.pushed \in 0..Size /\ out.blocks \subseteq 1..out.pushed
    /\ out.delivered \in 0..Size /\ inp.current \in 0..Size
    /\ inp.blocks \subseteq 1..Size /\ inp.toAck \subseteq 1..Size
    /\ out.asked \in {"pending", "yes"} /\ inp.asked \in {"no", "pending", "yes"}
    /\ out.later \subseteq {"resume", "close"}
    /\ inp.later \subseteq {"close"}
    /\ data \subseteq 1..Size
    /\ \A m \in acks : m.ids \subseteq 1..Size
    /\ out.state \in Open => Cardinality(out.blocks) = out.pushed - out.delivered

\* The two streams implement the transfer of a file: the file is written in order,
\* and a file sent is "finished" only when the other side has all of it
Transfer == INSTANCE FileTransfer WITH sender <- out.status, receiver <- inp.status
TransferSpec == Transfer!Spec

\* A transfer that was registered is unregistered once,
\* and before its stream is gone, whether the registration or the end comes first
Unregistered(file) ==
    /\ file.state = "CLOSED" => file.asked # "pending"
    /\ file.reports =
          IF file.asked = "yes" /\ file.state \in {"COMPLETION", "CLOSED"} THEN 1 ELSE 0
ReportedOnce == Unregistered(out) /\ Unregistered(inp)

\* Whatever the network does, both streams are closed in the end
StreamsEnd == <>(out.state = "CLOSED") /\ []<>(inp.state \in {"NONE", "CLOSED"})

\* While both streams live, a block that the sender waits for no more is with the
\* receiver: a block lost for both would end a good transfer in a time-out
NothingForgotten ==
    out.state \in Open /\ inp.state \in {"NONE", "RECEIVING"} =>
        \A b \in 1..out.pushed : b \in out.blocks \/ b <= inp.current \/ b \in inp.blocks
=============================================================================
