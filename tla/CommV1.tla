------------------------------- MODULE CommV1 -------------------------------
(***************************************************************************)
(* The receive parser of one v1 link (code/data_source/comm/comm_v1.c),    *)
(* fed by a host over a byte stream that loses and alters bytes and falls  *)
(* silent.  The parser is modelled byte by byte, because its hazards are   *)
(* those of a byte stream: the start byte 0xE9 also occurs inside frames,  *)
(* a lost or altered byte shifts every field after it, and what arrives    *)
(* next is read in whatever state the last byte left behind.               *)
(*                                                                         *)
(* A byte is [value, sum].  Its value is read by the state that meets it:  *)
(* any value is some header, some length, some command.  The five fields   *)
(* the parser tells apart in MSG_L1..L3 are one byte here, the "kind".     *)
(* The checksum is ideal: a byte in the SUM state is right when it was     *)
(* made as the sum of exactly the bytes the parser holds, so the frames an *)
(* 8-bit sum fails to catch are not part of the model.                     *)
(*                                                                         *)
(* Left out: compression (a frame either decodes or does not), the reply   *)
(* of CODEC_SELECT, the transmit path, and the 32-bit tick.                *)
(***************************************************************************)
EXTENDS Integers, Sequences, SequencesExt, FiniteSetsExt

CONSTANTS
    SeqCount,   \* 8 in the code: three bits of SEQ
    MaxData,    \* 256 in the code: the payload LEN 0 stands for
    SOP,        \* 0xE9
    Payloads,   \* what the host sends as DATA
    Requests,   \* the destinations and kinds the host sends
    Noise,      \* what a damaged byte may turn into
    MaxFrames, MaxFaults, MaxSessions  \* bounds of the model

Destinations == <<"broadcast", "local", "routed", "foreign">>
Kinds == <<"command",      \* CMD = 1: a known command without DATA
           "data",         \* a known command with DATA
           "unknown",      \* no function is registered for the command
           "badCodec",     \* a reserved codec, or a compressed pure command
           "elsewhere",    \* the dynamic address is another device's
           "select",       \* CODEC_SELECT, without DATA
           "undecodable",  \* DATA its codec does not accept
           "compressed">>
Bare == {"command", "select"}

ByteMod == SeqCount * Len(Destinations)
Seqs == 0 .. SeqCount - 1
None == -1

ASSUME CommAssumption ==
    /\ SeqCount \in Nat \ {0, 1} /\ MaxData \in 1 .. ByteMod - 1
    /\ ByteMod >= Len(Kinds) /\ SOP \in 0 .. ByteMod - 1
    /\ \A data \in Payloads : data \in Seq(0 .. ByteMod - 1) /\ Len(data) \in 1 .. MaxData
    /\ Requests \subseteq [dst : Range(Destinations), kind : Range(Kinds)]
    /\ Noise \subseteq 0 .. ByteMod - 1

VARIABLES
    ctx,       \* comm_v1_ctx_t but for the two fields below
    blocks,    \* the link's transport hands over blocks, not bytes
    lastSeq,   \* last_seq, None while last_seq_valid is 0
    late,      \* more than COMM_V1_FRAME_TIMEOUT_TICK since last_rx_tick
    wire,      \* bytes sent and not yet handed to the parser
    sent,      \* frames the host has made, numbered by their place
    acted,     \* frames dispatched, forwarded or answered this session
    owed,      \* numbers of the frames the parser has no excuse to drop
    clear,     \* no byte has gone wrong since the line was last quiet
    faults, sessions

parser == <<ctx, lastSeq, acted>>
vars == <<blocks, parser, late, wire, sent, owed, clear, faults, sessions>>

-----------------------------------------------------------------------------
\* How a byte reads in each state.

SeqField(value) == value % SeqCount
DstOf(value) == Destinations[(value \div SeqCount) + 1]
KindOf(value) == Kinds[(value % Len(Kinds)) + 1]
LenOf(value) == IF value = 0 \/ value > MaxData THEN MaxData ELSE value

\* What comm_v1_send puts on the wire, and the sum of it.
Code(name, table) == (CHOOSE i \in DOMAIN table : table[i] = name) - 1
Encoded(frame) ==
    <<SOP, frame.seq + SeqCount * Code(frame.dst, Destinations), Code(frame.kind, Kinds)>>
        \o (IF frame.kind \in Bare THEN <<>>
            ELSE <<Len(frame.data) % MaxData>> \o frame.data)
\* comm_sum_encode: 0x00 and 0xFF are sent as 0x55 and 0xAA.
Checksum(body) ==
    LET sum == FoldSeq(+, 0, body) % ByteMod
        third == (ByteMod - 1) \div 3
    IN  CASE sum = 0 -> third [] sum = ByteMod - 1 -> 2 * third [] OTHER -> sum
Plain(value) == [value |-> value, sum |-> <<>>, frame |-> 0]
Framed(frame, number) ==
    LET body == Encoded(frame)
    IN  [i \in 1 .. Len(body) |-> Plain(body[i])]
        \o <<[value |-> Checksum(body), sum |-> body, frame |-> number]>>

IdleCtx == [status |-> "IDLE", seq |-> 0, dst |-> "foreign", kind |-> "command",
            len |-> 0, data |-> <<>>, buffer |-> <<>>]

Init ==
    /\ blocks \in BOOLEAN
    /\ ctx = IdleCtx /\ lastSeq = None /\ late = FALSE
    /\ wire = <<>> /\ sent = <<>> /\ acted = <<>>
    /\ owed = {} /\ clear = TRUE
    /\ faults = 0 /\ sessions = 1

-----------------------------------------------------------------------------
\* The parser: comm_v1_run on the byte b.

\* comm_v1_reset keeps last_seq.
Reset == ctx' = IdleCtx /\ UNCHANGED <<lastSeq, acted>>

\* Mutant: half a frame is never given up.
Awake_NoTimeout == ctx
\* A half frame older than the timeout is given up before the byte is read.
Awake == IF late THEN IdleCtx ELSE ctx

\* The context takes the byte into the wire buffer and moves on.
Take(now, b, status) == [now EXCEPT !.buffer = Append(@, b.value), !.status = status]
Goes(next) == ctx' = next /\ UNCHANGED <<lastSeq, acted>>

Start(now, b) ==
    /\ now.status = "IDLE"
    /\ IF b.value = SOP THEN Goes(Take(now, b, "L0")) ELSE Goes(now)

\* Mutant: the header is taken whatever SEQ was acted on last.
NewSeq_Always(seq) == TRUE
NewSeq(seq) == seq # lastSeq

Header(now, b) ==
    LET seq == SeqField(b.value)
        dst == DstOf(b.value)
    IN  /\ now.status = "L0"
        /\ IF NewSeq(seq) /\ dst # "foreign"
           THEN Goes([Take(now, b, "REST") EXCEPT !.seq = seq, !.dst = dst])
           ELSE Reset

\* Only local delivery checks the dynamic address.
HeaderRefused(kind, dst) ==
    \/ kind = "badCodec"
    \/ kind = "elsewhere" /\ dst # "routed"

Rest(now, b) ==
    LET kind == KindOf(b.value)
    IN  /\ now.status = "REST"
        /\ IF HeaderRefused(kind, now.dst) THEN Reset
           ELSE Goes([Take(now, b, IF kind \in Bare THEN "SUM" ELSE "LEN")
                          EXCEPT !.kind = kind])

Length(now, b) ==
    /\ now.status = "LEN"
    /\ Goes([Take(now, b, "DATA") EXCEPT !.len = LenOf(b.value)])

\* n bytes of payload, one at a time or as a block.
Stored(now, bytes) ==
    LET values == [i \in DOMAIN bytes |-> bytes[i].value]
        left == now.len - Len(bytes)
    IN  [now EXCEPT !.data = @ \o values, !.buffer = @ \o values, !.len = left,
                    !.status = IF left = 0 THEN "SUM" ELSE "DATA"]

Data(now, b) ==
    /\ now.status = "DATA"
    /\ Goes(Stored(now, <<b>>))

\* Mutant: the sum byte is not compared.
Intact_Always(now, b) == TRUE
Intact(now, b) == b.sum = now.buffer

\* Compressed DATA is decoded before the frame is routed, so a router drops
\* what it cannot decode itself; CODEC_SELECT is answered whoever it is for.
BodyRefused(kind, dst) ==
    \/ kind = "undecodable"
    \/ kind = "unknown" /\ dst # "routed"

Acted(now, b) ==
    [number |-> b.frame, seq |-> now.seq, dst |-> now.dst, kind |-> now.kind, data |-> now.data]

\* Mutant: the last SEQ is recorded before the sum is compared.
Sum_SeqFirst(now, b) ==
    /\ now.status = "SUM"
    /\ ctx' = IdleCtx
    /\ lastSeq' = now.seq
    /\ acted' = IF Intact(now, b) /\ ~BodyRefused(now.kind, now.dst)
                THEN Append(acted, Acted(now, b)) ELSE acted

\* Only a frame that is acted on becomes the last SEQ.
Sum(now, b) ==
    /\ now.status = "SUM"
    /\ IF Intact(now, b) /\ ~BodyRefused(now.kind, now.dst)
       THEN /\ ctx' = IdleCtx
            /\ lastSeq' = now.seq
            /\ acted' = Append(acted, Acted(now, b))
       ELSE Reset

Settled == owed' = owed \ {acted'[i].number : i \in DOMAIN acted'}

\* comm_v1_run: one byte.
RunByte ==
    /\ wire # <<>>
    /\ ~(blocks /\ ctx.status = "DATA")
    /\ LET now == Awake
           b == Head(wire)
       IN  \/ Start(now, b) \/ Header(now, b) \/ Rest(now, b)
           \/ Length(now, b) \/ Data(now, b) \/ Sum(now, b)
    /\ wire' = Tail(wire)
    /\ late' = FALSE
    /\ Settled
    /\ UNCHANGED <<blocks, sent, clear, faults, sessions>>

\* comm_v1_run_buffer: in DATA the block is copied as it comes, however late
\* it is, and counts as fresh input.
RunBlock ==
    /\ wire # <<>>
    /\ blocks /\ ctx.status = "DATA"
    /\ \E n \in 1 .. Len(wire) :
        /\ n <= ctx.len
        /\ Goes(Stored(ctx, SubSeq(wire, 1, n)))
        /\ wire' = SubSeq(wire, n + 1, Len(wire))
    /\ late' = FALSE
    /\ UNCHANGED <<blocks, sent, owed, clear, faults, sessions>>

-----------------------------------------------------------------------------
\* The host and the line (external).

\* The last SEQ the parser will hold once it has read what is owed.
SeqAhead ==
    IF owed # {} THEN sent[Max(owed)].seq
    ELSE IF acted = <<>> THEN None ELSE Last(acted).seq

\* The parser reads such a frame to its sum ...
ReadWhole(frame) ==
    /\ frame.dst # "foreign" /\ frame.seq # SeqAhead
    /\ ~HeaderRefused(frame.kind, frame.dst)
\* ... and has to act on it.
Due(frame) == clear /\ ReadWhole(frame) /\ ~BodyRefused(frame.kind, frame.dst)

\* After a frame the parser skips from the middle on, it looks for the next
\* start byte in the rest of that frame: the line is clear only up to there.
Transmit(frame, number) ==
    /\ wire' = wire \o Framed(frame, number)
    /\ owed' = IF Due(frame) THEN owed \cup {number} ELSE owed
    /\ clear' = (clear /\ ReadWhole(frame))
    /\ UNCHANGED <<blocks, parser, late, faults, sessions>>

\* The wire is kept short so that the model is finite.
CanSend == Len(wire) <= 1

Send ==
    /\ CanSend /\ Len(sent) < MaxFrames
    /\ \E request \in Requests, data \in Payloads :
        LET frame == [seq |-> (Len(sent) + 1) % SeqCount, dst |-> request.dst,
                      kind |-> request.kind,
                      data |-> IF request.kind \in Bare THEN <<>> ELSE data]
        IN  /\ sent' = Append(sent, frame)
            /\ Transmit(frame, Len(sent) + 1)

\* A host that misses an answer repeats its last frame, SEQ and all.
Resend ==
    /\ CanSend /\ sent # <<>>
    /\ Transmit(Last(sent), Len(sent))
    /\ UNCHANGED sent

Disturbed(bytes) ==
    /\ faults < MaxFaults
    /\ faults' = faults + 1
    /\ wire' = bytes
    /\ owed' = {} /\ clear' = FALSE
    /\ UNCHANGED <<blocks, parser, late, sent, sessions>>

Lose == \E i \in DOMAIN wire : Disturbed(RemoveAt(wire, i))
Corrupt ==
    \E i \in DOMAIN wire, value \in Noise :
        /\ Disturbed([wire EXCEPT ![i] = Plain(value)])

\* More than the timeout passes without a byte.  The line is clear again when
\* nothing was on its way; otherwise the pause is in the middle of a frame.
Quiet ==
    /\ ~late
    /\ late' = TRUE
    /\ clear' = (wire = <<>>)
    /\ owed' = IF wire = <<>> THEN owed ELSE {}
    /\ UNCHANGED <<blocks, parser, wire, sent, faults, sessions>>

\* A new connection: comm_v1_reset_session, on a stream that starts empty.
NewSession ==
    /\ sessions < MaxSessions
    /\ sessions' = sessions + 1
    /\ ctx' = IdleCtx /\ lastSeq' = None /\ acted' = <<>>
    /\ wire' = <<>> /\ owed' = {} /\ clear' = TRUE
    /\ UNCHANGED <<blocks, late, sent, faults>>

Next ==
    \/ RunByte \/ RunBlock
    \/ Send \/ Resend \/ Lose \/ Corrupt \/ Quiet \/ NewSession

Spec == Init /\ [][Next]_vars

-----------------------------------------------------------------------------
\* Whatever happens to the bytes, the parser acts only on frames that were
\* sent, field for field as they were sent, in the order they were first
\* sent, and on none twice in a session however often it is repeated.
ActsExactly ==
    \A i \in DOMAIN acted :
        /\ acted[i].number \in DOMAIN sent
        /\ LET frame == sent[acted[i].number]
           IN  acted[i] = [number |-> acted[i].number, seq |-> frame.seq, dst |-> frame.dst,
                           kind |-> frame.kind, data |-> frame.data]
        /\ i > 1 => acted[i - 1].number < acted[i].number

\* Whatever was lost or altered before, once the line has been quiet for the
\* timeout, every whole frame for this node that comes with a new SEQ is
\* acted on: nothing left of the past swallows it.
RecoversAfterTimeout == wire = <<>> => owed = {}

\* So it is on a link that feeds the parser byte by byte (comm_v1_run).
BytesRecover == ~blocks => RecoversAfterTimeout
=============================================================================
