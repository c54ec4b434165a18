------------------------------- MODULE LogHarvest -------------------------------
(***************************************************************************)
(* How the log of a running Pico reaches the PC.  The firmware keeps the   *)
(* last part of what it logged in a ring (diag_log.c), and answers GET_LOG *)
(* with the ring in chunks, as often as its reply gate lets it             *)
(* (net_udp.c).  Two readers ask for it: a stream that feeds a Pico in the *)
(* debug persona, over and over, into a file of USB packets                *)
(* (cmd_run/debug_harvest.rs, debug_packets.rs), and a bundle, which asks  *)
(* once for the log and then for packets (cmd_bundle/pico_diag.rs,         *)
(* capture.rs).  Each request has a socket of its own.                     *)
(*                                                                         *)
(* The log is lines 1, 2, ...; line n is the two units 2n-1 and 2n, and a  *)
(* chunk may begin or end between them.  Every line counts as a packet     *)
(* line; a line of which the beginning is gone does not.  Datagrams are    *)
(* lost, overtaken and repeated, but a request is heard once: the counter  *)
(* of a paired Pico sees to that.                                          *)
(***************************************************************************)
EXTENDS ReplyGate, Sequences, FiniteSets, SequencesExt, FiniteSetsExt

CONSTANTS
    RingUnits,    \* DIAG_LOG_RING_SIZE
    ChunkUnits,   \* LOG_CHUNK_MAX_PAYLOAD
    MaxLines      \* bound: how much the Pico logs

ASSUME LogAssumption ==
    {RingUnits, ChunkUnits} \subseteq Nat \ {0} /\ MaxLines \in Nat

Readers == {"stream", "bundle"}

VARIABLES
    logged,   \* lines logged since boot
    asks,     \* requests under way: of whom, and whether the socket is still open
    net,      \* chunks under way, or repeated, to an open socket
    sock,     \* per reader: whether its socket is open, the chunks it has, got_last
    sink,     \* the packet file: none, open or disabled, its lines
    record,   \* history: the last harvest record, of the file or the bundle
    gaps,     \* history: whether a harvest record said that chunks are missing
    bundle    \* the bundle: its step, the best failure so far, the log it captured

vars == <<gateVars, logged, asks, net, sock, sink, record, gaps, bundle>>
pico == <<gateVars, logged>>

-----------------------------------------------------------------------------
(* The firmware.                                                           *)

Closed == [open |-> FALSE, got |-> {}, last |-> FALSE]
Opened == [Closed EXCEPT !.open = TRUE]

\* diag_log_snapshot: the ring, and how much it has lost since boot.
Lost == IF 2 * logged > RingUnits THEN 2 * logged - RingUnits ELSE 0

\* LogChunk: what decode finds in a datagram that passes its CRC.
Chunk(i) ==
    LET size == 2 * logged - Lost
        total == IF size = 0 THEN 1 ELSE (size + ChunkUnits - 1) \div ChunkUnits
        first == Lost + i * ChunkUnits + 1
    IN [index |-> i, total |-> total, last |-> i = total - 1,
        lost |-> IF i = 0 THEN Lost ELSE 0, first |-> first,
        upto |-> Min({2 * logged, first + ChunkUnits - 1})]

\* diag_log_printf, by anything else the firmware does.
Log ==
    /\ logged < MaxLines /\ logged' = logged + 1
    /\ UNCHANGED <<gateVars, asks, net, sock, sink, record, gaps, bundle>>

\* send_log_chunks logs a line after the snapshot, and gives up when there is no
\* memory for a chunk.  Nobody hears what goes to a closed socket.
SendLogChunks(r, open) ==
    /\ Allow
    /\ logged' = logged + 1
    /\ \E sent \in 0..Chunk(0).total :
          net' = IF open THEN net \cup {[to |-> r, chunk |-> Chunk(i)] : i \in 0..(sent - 1)}
                 ELSE net

\* note_log_reply_dropped
DropReply == Refuse /\ logged' = logged + 1 /\ UNCHANGED net

OnGetLog(r, open) ==
    /\ <<r, open>> \in asks /\ logged < MaxLines
    /\ asks' = asks \ {<<r, open>>}
    /\ SendLogChunks(r, open) \/ DropReply
    /\ UNCHANGED <<sock, sink, record, gaps, bundle>>

Tick == GateTick /\ UNCHANGED <<logged, asks, net, sock, sink, record, gaps, bundle>>

-----------------------------------------------------------------------------
(* A reader's socket.                                                      *)

Open(r) ==
    /\ sock' = [sock EXCEPT ![r] = Opened]
    /\ asks' = asks \cup {<<r, TRUE>>}
    /\ UNCHANGED net

\* What is under way to a socket that is closed stays unread.
Close(r) ==
    /\ sock' = [sock EXCEPT ![r] = Closed]
    /\ asks' = {IF a[1] = r THEN <<r, FALSE>> ELSE a : a \in asks}
    /\ net' = {d \in net : d.to # r}

\* The receive loop, the same for both readers: it ends with the last chunk.
Receive(d) ==
    LET s == sock[d.to] IN
    /\ s.open /\ ~s.last
    /\ sock' = [sock EXCEPT ![d.to].got = @ \cup {d.chunk}, ![d.to].last = d.chunk.last]
    /\ UNCHANGED <<pico, asks, net, sink, record, gaps, bundle>>

\* The chunks one after the other: those that are missing leave no gap.
Text(got) ==
    FlattenSeq([k \in 1..Cardinality(got) |->
        LET c == CHOOSE x \in got : Cardinality({y \in got : y.index < x.index}) = k - 1
        IN [n \in 1..(c.upto - c.first + 1) |-> c.first + n - 1]])

LostOf(got) == IF \E c \in got : c.index = 0
               THEN (CHOOSE c \in got : c.index = 0).lost ELSE 0

\* assemble_diag_log_snapshot: chunk 0 says how many there are.
Assemble(got, last) ==
    LET expected == {c.total : c \in {x \in got : x.index = 0}} IN
    [text |-> Text(got), lost |-> LostOf(got), count |-> Cardinality(got),
     expected |-> expected, last |-> last,
     missing |-> (UNION {0..(n - 1) : n \in expected}) \ {c.index : c \in got}]

\* Mutant: the last chunk is there, and none that chunk 0 promises is missing.
NothingMissing(s) == s.last /\ s.missing = {}

\* chunk_complete of a harvest record (harvest_ok_json).
ChunkComplete(s) == s.last /\ s.expected = {s.count} /\ s.missing = {}

\* str::lines of a text: a line ends with an even unit, or with the text.
LinesOf(text) ==
    LET ends(i, j) == /\ i <= j
                      /\ i > 1 => text[i - 1] % 2 = 0
                      /\ \A k \in i..(j - 1) : text[k] % 2 = 1
                      /\ text[j] % 2 = 0 \/ j = Len(text)
    IN UNION {{SubSeq(text, i, j) : j \in {x \in DOMAIN text : ends(i, x)}} :
                 i \in DOMAIN text}

\* Mutant: a line of which the beginning is gone counts as well.
ExtractAnything(text) == LinesOf(text)

\* extract_usb_packet_lines: from the first beginning of a line on.
Extract(text) == {l \in LinesOf(text) : l[1] % 2 = 1}

-----------------------------------------------------------------------------
(* The stream.                                                             *)

GivenUp == [state |-> "disabled", lines |-> {}]
Mute == [complete |-> FALSE, text |-> <<>>, lost |-> 0]

\* DebugPacketSink::create, in a directory where the oldest files make room.
CreateSink == {[state |-> "open", lines |-> {}], GivenUp}

\* append_lines: each line once.  A file that cannot be written is disabled for
\* good, with some of the new lines, which nobody looks at.
AppendLines(lines) == {[sink EXCEPT !.lines = @ \cup lines], GivenUp}

\* ensure_debug_packet_sink_for_target, at the start of the stream.
EnsureSink ==
    /\ sink.state = "none"
    /\ sink' \in CreateSink
    /\ UNCHANGED <<pico, asks, net, sock, record, gaps, bundle>>

\* The harvest branch of the loop, if there is a debug route with a sink and no
\* harvest under way: capture_run_diag_log asks.
HarvestTick ==
    /\ sink.state = "open" /\ ~sock["stream"].open
    /\ Open("stream")
    /\ UNCHANGED <<pico, sink, record, gaps, bundle>>

RecordOf(s) == [complete |-> ChunkComplete(s), text |-> s.text, lost |-> s.lost]

\* append_harvest_ok
NoteHarvest(s) ==
    /\ record' = RecordOf(s)
    /\ gaps' = (gaps \/ ~ChunkComplete(s))

\* apply_debug_packet_harvests, for a result with chunks: new lines first, then
\* the record.
ApplyHarvest(s) ==
    /\ sink' \in AppendLines(Extract(s.text))
    /\ IF sink' = GivenUp THEN UNCHANGED <<record, gaps>> ELSE NoteHarvest(s)

\* collect_debug_packet_harvests: got_last, or 1200 ms are over, or the socket
\* fails; an error is written as one, or disables the sink.
HarvestEnds ==
    /\ sock["stream"].open /\ Close("stream")
    /\ \/ /\ sock["stream"].got # {}
          /\ ApplyHarvest(Assemble(sock["stream"].got, sock["stream"].last))
       \/ /\ sink' \in {sink, GivenUp}
          /\ UNCHANGED <<record, gaps>>
    /\ UNCHANGED <<pico, bundle>>

\* send_to or prepare fails before anything is asked (a Pico whose key this PC
\* does not have is refused by check_access).
HarvestRefused ==
    /\ sink.state = "open" /\ ~sock["stream"].open
    /\ sink' = GivenUp
    /\ UNCHANGED <<pico, asks, net, sock, record, gaps, bundle>>

-----------------------------------------------------------------------------
(* The bundle.                                                             *)

Outcome(kind) == [kind |-> kind, text |-> <<>>, lost |-> 0]
IsCaptured(o) == o.kind \in {"Captured", "Empty"}

\* failure_rank: how far a path got.
FailureRank(o) ==
    CASE IsCaptured(o) -> 100
      [] o.kind \in {"SetupProbeFailed", "VendorTransferFailed", "UdpProbeFailed"} -> 60
      [] o.kind \in {"SetupOpenFailed", "VendorOpenFailed"} -> 50
      [] o.kind = "UdpUnsupported" -> 45
      [] o.kind = "UdpDiscoveryFailed" -> 40
      [] o.kind = "NoLastPicoInConfig" -> 20
      [] o.kind \in {"NoSetupPort", "VendorNotFound"} -> 10

\* choose_failed_diag_outcome, one candidate after the other.
Better(best, o) == IF FailureRank(o) > FailureRank(best) THEN o ELSE best

\* try_capture_setup_cdc: no port, one that does not open, one that does not
\* answer HELLO or GET_LOG_BUFFER, or the log of another Pico.
SetupCdc == {"NoSetupPort", "SetupOpenFailed", "SetupProbeFailed", "Empty", "Captured"}

\* capture_diag_blocking: no device, one that is not ours to open, a transfer that
\* fails or is shorter than its header, a log without or with text.
CaptureDiag == {"NotFound", "OpenFailed", "TransferFailed", "Empty", "Captured"}

\* try_capture_vendor_control
VendorControl ==
    {CASE o = "NotFound" -> "VendorNotFound" [] o = "OpenFailed" -> "VendorOpenFailed"
       [] o = "TransferFailed" -> "VendorTransferFailed" [] OTHER -> o : o \in CaptureDiag}

\* unicast_for_ack: nobody answers at the address, or a Pico of an old version.
UnicastForAck == {"none", "old", "new"}
\* broadcast_for_ack: whoever answers first will do.
BroadcastForAck == {"none", "found"}
\* What config.toml knows of a Pico seen last: last_pico and its last_ip.
SavedAddress == {"no pico", "no address", "address"}

\* try_capture_run_udp, up to the request: who is there is found by broadcast, or
\* at the address of last time, and asked once more for its version.
TryRunUdp(saved, broadcast, unicast, ack) ==
    CASE saved = "no pico" -> "NoLastPicoInConfig"
      [] saved = "no address" /\ broadcast = "none" -> "NoLastPicoInConfig"
      [] saved = "address" /\ broadcast = "none" /\ unicast = "none" -> "UdpDiscoveryFailed"
      [] OTHER -> CASE ack = "none" -> "UdpDiscoveryFailed"
                    [] ack = "old" -> "UdpUnsupported"
                    [] ack = "new" -> "asked"

\* capture_run_udp_for_target: a Pico that a scan has just found.
TryTarget(ack) == TryRunUdp("address", "found", "none", ack)

Bundle == [at |-> "start", best |-> Outcome("none"), told |-> Outcome("none")]
Tell(o) == bundle' = [Bundle EXCEPT !.at = "told", !.told = o]
Quiet == UNCHANGED <<pico, asks, net, sock, sink, record, gaps>>

\* capture_pico_diag: the paths in order, the first that captures wins.  Setup
\* and vendor control reach a Pico in setup mode on the cable.
CaptureSetupCdc ==
    /\ bundle.at = "start"
    /\ \E kind \in SetupCdc :
          IF IsCaptured(Outcome(kind)) THEN Tell(Outcome(kind))
          ELSE bundle' = [bundle EXCEPT !.at = "vendor", !.best = Outcome(kind)]
    /\ Quiet

CaptureVendorControl ==
    /\ bundle.at = "vendor"
    /\ \E kind \in VendorControl :
          IF IsCaptured(Outcome(kind)) THEN Tell(Outcome(kind))
          ELSE bundle' = [bundle EXCEPT !.at = "udp", !.best = Better(@, Outcome(kind))]
    /\ Quiet

\* What the last path gives: it wins if it captures, else the best failure does.
UdpOutcome(o) == Tell(IF IsCaptured(o) \/ bundle.best.kind = "none" THEN o
                      ELSE Better(bundle.best, o))

\* For a Pico of the survey no other path is tried.
CaptureTarget ==
    /\ bundle.at = "start"
    /\ bundle' = [bundle EXCEPT !.at = "udp"]
    /\ Quiet

CaptureRunUdp ==
    /\ bundle.at = "udp"
    /\ \E ack \in UnicastForAck :
       \E kind \in IF bundle.best.kind = "none" THEN {TryTarget(ack)}
                  ELSE {TryRunUdp(saved, broadcast, unicast, ack) :
                           saved \in SavedAddress, broadcast \in BroadcastForAck,
                           unicast \in UnicastForAck} :
          \/ kind # "asked" /\ UdpOutcome(Outcome(kind)) /\ Quiet
          \/ /\ kind = "asked" /\ Open("bundle")
             /\ bundle' = [bundle EXCEPT !.at = "chunks"]
             /\ UNCHANGED <<pico, sink, record, gaps>>

\* capture_log_chunks: got_last, or 4000 ms are over, or access or socket fails.
CaptureLogChunks ==
    /\ bundle.at = "chunks" /\ Close("bundle")
    /\ LET text == Text(sock["bundle"].got) IN
       \/ /\ sock["bundle"].got # {}
          /\ UdpOutcome([kind |-> IF text = <<>> THEN "Empty" ELSE "Captured",
                         text |-> text,
                         lost |-> IF text = <<>> THEN 0 ELSE LostOf(sock["bundle"].got)])
       \/ UdpOutcome(Outcome("UdpProbeFailed"))
    /\ UNCHANGED <<pico, sink, record, gaps>>

\* harvest_usb_packets_for_target asks once more, for a Pico in the debug persona;
\* without an answer the packets of the log captured before are taken.
AskForPackets ==
    /\ bundle.at = "told" /\ Open("bundle")
    /\ bundle' = [bundle EXCEPT !.at = "packets"]
    /\ UNCHANGED <<pico, sink, record, gaps>>

HarvestPackets ==
    /\ bundle.at = "packets" /\ Close("bundle")
    /\ bundle' = [Bundle EXCEPT !.at = "done"]
    /\ \/ /\ sock["bundle"].got # {}
          /\ record' = RecordOf(Assemble(sock["bundle"].got, sock["bundle"].last))
       \/ UNCHANGED record
    /\ UNCHANGED <<pico, sink, gaps>>

-----------------------------------------------------------------------------
Init ==
    /\ GateInit
    /\ logged = 0 /\ asks = {} /\ net = {}
    /\ sock = [r \in Readers |-> Closed]
    /\ sink = [state |-> "none", lines |-> {}]
    /\ record = Mute /\ gaps = FALSE
    /\ bundle = Bundle

Next ==
    \/ Log \/ Tick
    \/ \E r \in Readers, open \in BOOLEAN : OnGetLog(r, open)
    \/ \E d \in net : Receive(d)
    \/ EnsureSink \/ HarvestTick \/ HarvestEnds \/ HarvestRefused
    \/ CaptureSetupCdc \/ CaptureVendorControl \/ CaptureTarget
    \/ CaptureRunUdp \/ CaptureLogChunks
    \/ AskForPackets \/ HarvestPackets

Spec == Init /\ [][Next]_vars

-----------------------------------------------------------------------------
\* The text is the log from the first unit that is not lost on, without a gap.
IsSnapshot(text, lost) == \A k \in DOMAIN text : text[k] = lost + k

Whole(line) == Len(line) = 2 /\ line[2] = line[1] + 1

\* A harvest record that says chunk_complete tells the truth, whichever chunks were
\* lost, repeated or overtaken by the last one, and wherever the ring began: its
\* text is one snapshot of the ring, and what is not in it is in lost_bytes
\* (assemble_diag_log_snapshot, harvest_ok_json).
CompleteIsWhole == record.complete => IsSnapshot(record.text, record.lost)

\* The packet file holds only lines the Pico has logged, unless one of its records
\* says that chunks were missing, or the file was given up in the middle of a
\* write (extract_usb_packet_lines, append_lines).
FileHoldsRealLines ==
    sink.state = "open" /\ ~gaps => \A l \in sink.lines : Whole(l)

\* What the comment in diag_log.c:10-13 says of the log in a bundle: what has been
\* cut off is visible from the lost-bytes counter.
TruncationIsVisible ==
    bundle.told.kind = "Captured" => IsSnapshot(bundle.told.text, bundle.told.lost)
=============================================================================
