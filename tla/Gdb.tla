-------------------------------- MODULE Gdb ---------------------------------
(***************************************************************************)
(* The gdb server's end of a connection (class BaseHandler of              *)
(* comms/gdb.py): what it makes of the bytes that recv() returns, however  *)
(* TCP cuts and joins what the client sent, which message or reply each    *)
(* packet becomes, and the files that Debugger serves.                     *)
(*                                                                         *)
(* Bytes are their values.  A packet's contents are cut down to what the   *)
(* server tells apart: its first byte, for 'Z', 'z' and 'v' one more, and  *)
(* for 'X' the binary data.                                                *)
(***************************************************************************)
EXTENDS Integers, Sequences, SequencesExt, FiniteSets, TLC

CONSTANTS
    Payload,       \* contents of the packets that the client sends
    Data,          \* binary data that it writes with 'X' packets
    File,          \* bytes of the file that get_file() builds
    MaxSend,       \* bound: packets, acknowledgements and interrupts it sends
    MaxFd          \* file descriptors: 10 in handle_file_open

Dollar    == 36
Hash      == 35
Star      == 42
Colon     == 58
Escape    == 125
Interrupt == 3
Ack       == 43
BadAck    == 45
Acks      == {Ack, BadAck}

\* The client's text packets are not empty and hold none of the bytes that frame
\* or escape a packet, and no interrupt; 'X' packets are made from Data.  There
\* are ten descriptors.
ASSUME GdbAssumption ==
    /\ Payload \cup Data \cup {File} \subseteq Seq(0 .. 255)
    /\ \A p \in Payload :
          p # <<>> /\ p[1] # 88 /\ ToSet(p) \cap {Dollar, Hash, Escape, Interrupt} = {}
    /\ MaxSend \in Nat /\ MaxFd \in 0 .. 10

VARIABLES
    wire,      \* bytes under way to the server
    sent,      \* history: what the client sent, <<>> for no packet
    alive,     \* the session; an exception ends it
    data,      \* history: the bytes of the last read
    handled,   \* history: the commands that the last read brought the Debugger
    stops,     \* history: interrupts acted on by the last read
    out,       \* history: what was sent for the last read, call by call
    open_fds

vars == <<wire, sent, alive, data, handled, stops, out, open_fds>>

-----------------------------------------------------------------------------
(* Bytes.                                                                  *)

checksum(bytes) == FoldLeft(LAMBDA sum, byte : (sum + byte) % 256, 0, bytes)

\* c ^ 0x20.
Flip(c) == IF (c \div 32) % 2 = 1 THEN c - 32 ELSE c + 32

\* The digit of "{:02x}" for n, and the value of a digit for int(_, 16).
Digit(n) == IF n < 10 THEN 48 + n ELSE 87 + n
Digits   == {Digit(n) : n \in 0 .. 15} \cup 65 .. 70
Value(d) == IF d < 58 THEN d - 48 ELSE IF d < 71 THEN d - 55 ELSE d - 87

\* "%x" of n.
Hexadecimal(n) ==
    LET Of[k \in 0 .. n] == IF k < 16 THEN <<Digit(k)>> ELSE Append(Of[k \div 16], Digit(k % 16))
    IN  Of[n]

\* format_gdb_message(), which the client's packets look like as well.
format_gdb_message(bytes) ==
    LET sum == checksum(bytes)
    IN  <<Dollar>> \o bytes \o <<Hash, Digit(sum \div 16), Digit(sum % 16)>>

\* escape() for '#', '$', '}' and '*'.
escape(bytes) ==
    FoldLeft(LAMBDA done, byte : done \o (IF byte \in {Hash, Dollar, Escape, Star}
                                          THEN <<Escape, Flip(byte)>> ELSE <<byte>>),
             <<>>, bytes)

\* unescape() undoes it for '#', '$' and '}'.  Every byte that an escape takes
\* with it is gone when its turn comes.
UnescapeByte(bytes, s, i) ==
    IF s.skip THEN [s EXCEPT !.skip = FALSE]
    ELSE IF bytes[i] = Escape /\ i < Len(bytes) /\ Flip(bytes[i + 1]) \in {Hash, Dollar, Escape}
    THEN [out |-> Append(s.out, Flip(bytes[i + 1])), skip |-> TRUE]
    ELSE [out |-> Append(s.out, bytes[i]), skip |-> FALSE]
unescape(bytes) ==
    FoldLeft(LAMBDA s, i : UnescapeByte(bytes, s, i), [out |-> <<>>, skip |-> FALSE],
             [i \in 1 .. Len(bytes) |-> i]).out

-----------------------------------------------------------------------------
(* Cutting what was read into messages.                                    *)

\* Mutant of ScanByte: a packet that ends the read is taken for unfinished.
ScanByte_OffByOne(bytes, s, i) ==
    LET byte == bytes[i]
        unescaped == i > 1 /\ bytes[i - 1] # Escape
    IN  IF s.skip > 0 THEN [s EXCEPT !.skip = @ - 1]
        ELSE IF s.raised \/ (byte \in Acks /\ s.message = <<>>) THEN s
        ELSE IF byte = Dollar /\ s.message # <<>> /\ unescaped
        THEN [s EXCEPT !.messages = Append(@, [bytes |-> s.message, list |-> s.list]),
                       !.message = <<>>, !.list = FALSE]
        ELSE IF byte = Hash /\ unescaped /\ i + 2 < Len(bytes)
        THEN IF s.list THEN [s EXCEPT !.raised = TRUE]
             ELSE [s EXCEPT !.messages = Append(@, [bytes |-> s.message \o SubSeq(bytes, i, i + 2),
                                                    list |-> FALSE]),
                            !.message = <<>>, !.list = TRUE, !.skip = 3]
        ELSE [s EXCEPT !.message = Append(@, byte)]

\* The loop of process_data() at byte i.  After a packet "message" is a list,
\* not a bytearray, and the byte behind the checksum is skipped; adding bytes
\* to a list raises.
ScanByte(bytes, s, i) ==
    LET byte == bytes[i]
        unescaped == i > 1 /\ bytes[i - 1] # Escape
    IN  IF s.skip > 0 THEN [s EXCEPT !.skip = @ - 1]
        ELSE IF s.raised \/ (byte \in Acks /\ s.message = <<>>) THEN s
        ELSE IF byte = Dollar /\ s.message # <<>> /\ unescaped
        THEN [s EXCEPT !.messages = Append(@, [bytes |-> s.message, list |-> s.list]),
                       !.message = <<>>, !.list = FALSE]
        ELSE IF byte = Hash /\ unescaped /\ i + 2 <= Len(bytes)
        THEN IF s.list THEN [s EXCEPT !.raised = TRUE]
             ELSE [s EXCEPT !.messages = Append(@, [bytes |-> s.message \o SubSeq(bytes, i, i + 2),
                                                    list |-> FALSE]),
                            !.message = <<>>, !.list = TRUE, !.skip = 3]
        ELSE [s EXCEPT !.message = Append(@, byte)]

\* Mutant of Scan: what is left of an unfinished packet is handled as well.
Scan_KeepsRest(bytes) ==
    LET start == [skip |-> 0, raised |-> FALSE, message |-> <<>>, list |-> FALSE, messages |-> <<>>]
        end   == FoldLeft(LAMBDA s, i : ScanByte(bytes, s, i), start, [i \in 1 .. Len(bytes) |-> i])
    IN  IF end.message # <<>>
        THEN [end EXCEPT !.messages = Append(@, [bytes |-> end.message, list |-> FALSE])]
        ELSE end

\* process_data() up to its second loop.  What is left of an unfinished packet
\* is dropped.
Scan(bytes) ==
    LET start == [skip |-> 0, raised |-> FALSE, message |-> <<>>, list |-> FALSE, messages |-> <<>>]
        end   == FoldLeft(LAMBDA s, i : ScanByte(bytes, s, i), start, [i \in 1 .. Len(bytes) |-> i])
    IN  IF end.message = <<Interrupt>> /\ ~end.list
        THEN [end EXCEPT !.messages = Append(@, [bytes |-> end.message, list |-> FALSE])]
        ELSE end

\* int(data[-2:], 16) has a value.
Numeral(m) ==
    LET n == Len(m)
    IN  /\ m[n] \in Digits
        /\ n > 1 => m[n - 1] \in Digits \cup Acks
SumOf(m) ==
    LET n == Len(m)
    IN  IF n = 1 THEN Value(m[n])
        ELSE IF m[n - 1] \in Digits THEN 16 * Value(m[n - 1]) + Value(m[n])
        ELSE IF m[n - 1] = BadAck THEN -Value(m[n]) ELSE Value(m[n])

\* data[1:-3].
Contents(m) == SubSeq(m, 2, Len(m) - 3)

\* Mutant of Verdict: the checksum is not compared.
Verdict_NoChecksum(m) ==
    IF ~m.list /\ m.bytes = <<Interrupt>> THEN "stop"
    ELSE IF m.list \/ ~Numeral(m.bytes) THEN "raise"
    ELSE IF m.bytes[1] # Dollar THEN "bad"
    ELSE IF Contents(m.bytes) = <<>> THEN "raise"
    ELSE "good"

\* message_factory(), up to the choice of a handler: the interrupt, an
\* exception, a packet to send again, or one to act on.
Verdict(m) ==
    IF ~m.list /\ m.bytes = <<Interrupt>> THEN "stop"
    ELSE IF m.list \/ ~Numeral(m.bytes) THEN "raise"
    ELSE IF m.bytes[1] # Dollar \/ checksum(Contents(m.bytes)) # SumOf(m.bytes) THEN "bad"
    ELSE IF Contents(m.bytes) = <<>> THEN "raise"
    ELSE "good"

-----------------------------------------------------------------------------
(* Acting on a packet.                                                     *)

\* Types: the first byte of each packet that the server knows.
Types ==
    [HALTED_REASON |-> 63, CONTINUE |-> 99, CONTINUE_SIGNAL |-> 67, DETACH |-> 68, STEP |-> 115,
     READ_REGISTERS |-> 103, WRITE_REGISTERS |-> 71, READ_REGISTER |-> 112, WRITE_REGISTER |-> 80,
     READ_MEM |-> 109, WRITE_MEM |-> 77, WRITE_MEM_BIN |-> 88, QUERY |-> 113, SET_THREAD |-> 72,
     EXTENDED |-> 118, DEL_BREAKPOINT |-> 90, ADD_BREAKPOINT |-> 122]

\* BaseHandler.handlers has one for each of them.
handlers == {Types[name] : name \in DOMAIN Types}

\* A split() whose two parts are unpacked raises unless there are two.
Splits(p, byte) == Cardinality({i \in DOMAIN p : p[i] = byte}) = 1

ReadMemory(p)        == Splits(p, 44)
SetRegister(p)       == Splits(p, 61)
WriteMemory(p)       == Splits(p, Colon)
WriteMemoryBinary(p) == Splits(p, Colon)
ContinueSignal(p)    == Splits(p, 59)

\* The constructor of p's message raises: binary data with a ':' in them, and
\* a signal without an address.
Unparsed(p) ==
    \/ p[1] = Types.READ_MEM /\ ~ReadMemory(p)
    \/ p[1] = Types.WRITE_REGISTER /\ ~SetRegister(p)
    \/ p[1] = Types.WRITE_MEM /\ ~WriteMemory(p)
    \/ p[1] = Types.WRITE_MEM_BIN /\ ~WriteMemoryBinary(p)
    \/ p[1] = Types.CONTINUE_SIGNAL /\ ~ContinueSignal(p)

\* The Debugger's handler raises: handle_set_regs() takes two values out of
\* each register, and RegisterValue has no regs for to_binary() to print.
Unhandled(p) == p[1] \in {Types.WRITE_REGISTERS, Types.READ_REGISTER}

\* What the Debugger is given: a binary write's data are unescaped.
Received(p) == IF p[1] = Types.WRITE_MEM_BIN THEN <<88, Colon>> \o unescape(SubSeq(p, 3, Len(p))) ELSE p

\* send() or reply() with a packet.
Reply(s, bytes) == [s EXCEPT !.out = Append(@, format_gdb_message(bytes))]
EmptyMessage == <<>>
OK           == <<79, 75>>
StopReply    == <<83, 48, 53>>
Hex          == <<48, 48>>        \* values of registers or memory
FileResponse(result) == <<70>> \o (IF result < 0 THEN <<BadAck, Digit(-result)>> ELSE <<Digit(result)>>)

\* Mutant of PreadResponse: the chunk is sent as it is.
PreadResponse_Raw(chunk) == <<70>> \o Hexadecimal(Len(chunk)) \o <<59>> \o chunk

PreadResponse(chunk) == <<70>> \o Hexadecimal(Len(chunk)) \o <<59>> \o escape(chunk)

\* The size is the one field of a stat that is not constant; it is packed into
\* eight bytes, of which the lower half stands here.
FstatResponse(length) ==
    PreadResponse(<<224>> \o [i \in 1 .. 4 |-> (length \div <<16777216, 65536, 256, 1>>[i]) % 256])

\* vFile:open, with the lowest free descriptor.
handle_file_open(s) ==
    LET free == (0 .. MaxFd - 1) \ s.open_fds
        fd   == CHOOSE f \in free : \A g \in free : f <= g
    IN  IF free = {} THEN Reply(s, EmptyMessage)
        ELSE Reply([s EXCEPT !.open_fds = @ \cup {fd}], FileResponse(fd))

handle_file_close(s, fd) ==
    Reply([s EXCEPT !.open_fds = @ \ {fd}], FileResponse(IF fd \in s.open_fds THEN 0 ELSE -1))

handle_file_fstat(s, fd) ==
    Reply(s, IF fd \in s.open_fds THEN FstatResponse(Len(File)) ELSE FileResponse(-1))

handle_file_pread(s, fd) ==
    Reply(s, IF fd \in s.open_fds THEN PreadResponse(File) ELSE FileResponse(-1))

\* CloseFile, FstatFile, PreadFile: the descriptor, a digit.
Fd(p) == p[3] - 48

\* handle_extended() and handle_file(): 'o', 'c', 'f' and 'p' stand for the
\* file operations, 's' for setfs.
handle_extended(s, p) ==
    CASE p[2] = 111 -> handle_file_open(s)
      [] p[2] = 99  -> handle_file_close(s, Fd(p))
      [] p[2] = 102 -> handle_file_fstat(s, Fd(p))
      [] p[2] = 112 -> handle_file_pread(s, Fd(p))
      [] p[2] = 115 -> Reply(s, FileResponse(0))
      [] OTHER      -> Reply(s, EmptyMessage)

\* handle_set_breakpoints(), handle_unset_breakpoints(): kinds '0' to '4'.
bp_messages == 48 .. 52
handle_breakpoints(s, p) == Reply(s, IF p[2] \in bp_messages THEN OK ELSE EmptyMessage)

\* handle_query(): the text of an answer is left out.
handle_query(s, p) == Reply(s, IF p[2] \in {67, 83} THEN OK ELSE EmptyMessage)

\* The handler of the first byte, and the Debugger's when it makes a message.
Act(s, p) ==
    LET type == p[1]
    IN  CASE type = Types.QUERY    -> handle_query(s, p)
          [] type = Types.EXTENDED -> handle_extended(s, p)
          [] type \in {Types.ADD_BREAKPOINT, Types.DEL_BREAKPOINT} -> handle_breakpoints(s, p)
          [] type = Types.DETACH   -> Reply([s EXCEPT !.alive = "detached"], OK)
          [] type \in {Types.CONTINUE, Types.CONTINUE_SIGNAL}  -> s
          [] type \in {Types.HALTED_REASON, Types.STEP}        -> Reply(s, StopReply)
          [] type \in {Types.READ_REGISTERS, Types.READ_MEM}   -> Reply(s, Hex)
          [] OTHER -> Reply(s, OK)

\* message_factory() from the choice of a handler on.  A packet of an unknown
\* kind gets no answer.
Dispatch(s, p) ==
    IF p[1] \notin handlers THEN s
    ELSE IF Unparsed(p) THEN [s EXCEPT !.alive = "raised"]
    ELSE LET taken == [s EXCEPT !.handled = Append(@, Received(p))]
         IN  IF Unhandled(p) THEN [taken EXCEPT !.alive = "raised"] ELSE Act(taken, p)

\* One round of the second loop of process_data(): the acknowledgement comes
\* before the checksum is looked at.
HandleMessage(s, m) ==
    LET acked == [s EXCEPT !.out = Append(@, <<Ack>>)]
    IN  IF s.alive = "raised" THEN s
        ELSE CASE Verdict(m) = "stop"  -> Reply([acked EXCEPT !.stops = @ + 1], StopReply)
               [] Verdict(m) = "raise" -> [acked EXCEPT !.alive = "raised"]
               [] Verdict(m) = "bad"   -> [acked EXCEPT !.out = Append(@, <<BadAck>>)]
               [] Verdict(m) = "good"  -> Dispatch(acked, Contents(m.bytes))

\* read_message() with n bytes there to be read.
read_message(n) ==
    /\ alive = "open"
    /\ data' = SubSeq(wire, 1, n)
    /\ wire' = SubSeq(wire, n + 1, Len(wire))
    /\ LET scan  == Scan(data')
           start == [alive |-> IF scan.raised THEN "raised" ELSE alive, handled |-> <<>>, stops |-> 0,
                     out |-> <<>>, open_fds |-> open_fds]
           end   == FoldLeft(HandleMessage, start, scan.messages)
       IN  /\ alive' = end.alive
           /\ handled' = end.handled
           /\ stops' = end.stops
           /\ out' = end.out
           /\ open_fds' = end.open_fds
    /\ UNCHANGED sent

-----------------------------------------------------------------------------
(* The client.                                                             *)

\* A packet for contents p; 'X' packets carry escaped data.
Send(bytes, what) ==
    /\ alive = "open"
    /\ Len(sent) < MaxSend
    /\ wire' = wire \o bytes
    /\ sent' = Append(sent, what)
    /\ UNCHANGED <<alive, data, handled, stops, out, open_fds>>

SendPacket(p) == Send(format_gdb_message(p), p)
SendBinary(d) == Send(format_gdb_message(<<88, Colon>> \o escape(d)), <<88, Colon>> \o d)

\* A byte of the checksum is spoilt on the way.
SendSpoilt(p) ==
    LET m == format_gdb_message(p)
    IN  Send([m EXCEPT ![Len(m)] = IF @ = 48 THEN 49 ELSE 48], <<>>)

SendAck(ack)  == Send(<<ack>>, <<>>)
SendInterrupt == Send(<<Interrupt>>, <<Interrupt>>)

Init ==
    /\ wire = <<>>
    /\ sent = <<>>
    /\ alive = "open"
    /\ data = <<>>
    /\ handled = <<>>
    /\ stops = 0
    /\ out = <<>>
    /\ open_fds = {}

Next ==
    \/ \E p \in Payload : SendPacket(p) \/ SendSpoilt(p)
    \/ \E d \in Data : SendBinary(d)
    \/ \E ack \in Acks : SendAck(ack)
    \/ SendInterrupt
    \/ \E n \in 1 .. Len(wire) : read_message(n)

Spec == Init /\ [][Next]_vars

-----------------------------------------------------------------------------
(* Properties.                                                             *)

\* Binary data as they come out of escape() and unescape(): a '*' is escaped by
\* the one and left alone by the other.
Starred(bytes) ==
    FoldLeft(LAMBDA done, byte : done \o (IF byte = Star THEN <<Escape, Flip(Star)>> ELSE <<byte>>),
             <<>>, bytes)

\* What the client sent has the byte of an interrupt on the wire: it is one, or
\* binary data with that byte, or with a '#', which escape() turns into it.
HoldsInterrupt(q) ==
    q = <<Interrupt>> \/ (q[1] = 88 /\ Interrupt \in ToSet(escape(SubSeq(q, 3, Len(q)))))

\* However the stream is cut, the Debugger is never given a command, or binary
\* data, that the client has not sent: no two packets are joined and no part of
\* one is taken for a whole.  Escaped data come out as they went in, but for a
\* '*'.  A Stop is the exception: a byte 3 of binary data that a read brings by
\* itself is one (StopsWereSent), but it comes from no other packet, checksum or
\* acknowledgement.
OnlyWhatWasSent ==
    /\ \A p \in ToSet(handled) :
          \E q \in ToSet(sent) \ {<<>>} :
              p = IF q[1] = 88 THEN <<88, Colon>> \o Starred(SubSeq(q, 3, Len(q))) ELSE q
    /\ stops > 0 => \E q \in ToSet(sent) \ {<<>>} : HoldsInterrupt(q)

\* process_data() says of a message that is the byte 3 "They asked for an
\* interruption": the Debugger is only stopped when the client has asked for it.
\* This does not hold, for binary data (GdbStop.cfg).
StopsWereSent == stops > 0 => <<Interrupt>> \in ToSet(sent)

\* A read that brings acknowledgements and then one whole packet.
Brings(p) ==
    \E i \in 0 .. Len(data) :
        /\ \A j \in 1 .. i : data[j] \in Acks
        /\ SubSeq(data, i + 1, Len(data)) = format_gdb_message(p)

\* The server acts once on a packet that arrives whole.
WholePacketsHandled ==
    \A p \in ToSet(sent) \ {<<>>, <<Interrupt>>} :
        /\ p[1] # 88 /\ Brings(p) /\ p[1] \in handlers /\ ~Unparsed(p) => handled = <<p>>
        /\ p[1] = 88 /\ Brings(<<88, Colon>> \o escape(SubSeq(p, 3, Len(p)))) /\ ~Unparsed(p)
               => Len(handled) = 1 /\ alive = "open"

\* What the client makes of a reply: it ends at the first '#', its checksum is
\* right, and an escape stands for the byte behind it.
ReadByte(s, byte) ==
    IF s.escaped THEN [out |-> Append(s.out, Flip(byte)), escaped |-> FALSE]
    ELSE IF byte = Escape THEN [s EXCEPT !.escaped = TRUE]
    ELSE [s EXCEPT !.out = Append(@, byte)]
ClientReads(m) ==
    LET body == SubSeq(m, 2, Len(m) - 3)
    IN  IF /\ Hash \notin ToSet(body) /\ Dollar \notin ToSet(body)
           /\ SubSeq(m, Len(m) - 1, Len(m)) = <<Digit(checksum(body) \div 16), Digit(checksum(body) % 16)>>
        THEN FoldLeft(ReadByte, [out |-> <<>>, escaped |-> FALSE], body).out
        ELSE <<Hash>>

\* Whatever bytes the file has, the client reads every reply to its end, and
\* gets the file when it asks for it with an open descriptor.
RepliesReadable ==
    /\ \A i \in DOMAIN out : Len(out[i]) > 1 => ClientReads(out[i]) # <<Hash>>
    /\ \A fd \in open_fds :
          Brings(<<118, 112, 48 + fd>>) => ClientReads(Last(out)) = <<70>> \o Hexadecimal(Len(File)) \o <<59>> \o File

\* The session survives every way of cutting one packet: only a read that has
\* the start of a packet behind something else can end it, or a command that
\* raises by itself.
SurvivesCutting ==
    alive = "raised" =>
        \/ \E i, j \in 1 .. Len(data) : i < j /\ data[i] \notin Acks /\ data[j] = Dollar
        \/ \E p \in ToSet(sent) : p # <<>> /\ p[1] \in handlers /\ (Unparsed(p) \/ Unhandled(p))
=============================================================================
