------------------------------ MODULE Receiver ------------------------------
(* What lora_read makes of the bytes the radio module delivers: it cuts the  *)
(* stream at the pauses between bytes, takes a piece too short to be a frame *)
(* for a fragment, and drops the next piece after one.  The module may pause *)
(* inside a packet, or deliver two without a pause.                          *)
EXTENDS Integers, Sequences, FiniteSets

CONSTANTS
    Lengths,    \* lengths of packets on the air, the RSSI byte included
    FrameMin,   \* _LORA_RX_FRAME_MIN: shorter than this plus one is a fragment
    BufferSize, \* bytes one read takes at most
    Splits,     \* pauses the module may make inside one packet
    MaxBytes    \* bound on the bytes waiting when a packet comes

ReceiverAssumption ==
    /\ {FrameMin, BufferSize} \cup Lengths \subseteq Nat \ {0}
    /\ {Splits, MaxBytes} \subseteq Nat

VARIABLES
    on,         \* the uart is started and the module listens
    stream,     \* bytes not read: place in the packet, a pause before it
    desynced,   \* _lora_rx_desynced
    handed      \* history: the last piece read (handed up as a frame, its first
                \* byte, after a fragment of its packet) and what it leaves torn

vars == <<on, stream, desynced, handed>>

Init ==
    /\ on = FALSE /\ stream = <<>> /\ desynced = FALSE
    /\ handed = [frame |-> FALSE, from |-> 1, after |-> FALSE, torn |-> FALSE]

\* lora_start; the flag of a fragment is not touched.
Listen == ~on /\ on' = TRUE /\ UNCHANGED <<stream, desynced, handed>>

\* lora_stop, with the bytes not read.
Stop ==
    /\ on /\ on' = FALSE
    /\ stream' = <<>>
    /\ handed' = [handed EXCEPT !.frame = FALSE, !.torn = FALSE]
    /\ UNCHANGED desynced

\* The module delivers a packet: with pauses inside it, or none before it.
Deliver ==
    /\ on /\ Len(stream) <= MaxBytes
    /\ \E n \in Lengths, merged \in BOOLEAN :
       \E pauses \in {p \in SUBSET (2 .. n) : Cardinality(p) <= Splits} :
          stream' = stream \o [i \in 1 .. n |->
              [at |-> i, of |-> n, gap |-> i \in pauses \/ (i = 1 /\ ~merged)]]
    /\ UNCHANGED <<on, desynced, handed>>

\* How many bytes lora_read takes: up to a pause, or the caller's buffer.
Taken ==
    LET ends == {i \in 1 .. Len(stream) : i = Len(stream) \/ stream[i + 1].gap}
        pause == CHOOSE i \in ends : \A j \in ends : i <= j
    IN  IF pause > BufferSize THEN BufferSize ELSE pause

Rest(n) == SubSeq(stream, n + 1, Len(stream))

\* History: among the n bytes that go, is the last packet one of which a
\* fragment was read, here or before, and which goes on.
Torn(n, fragment) ==
    LET last == stream[n]
        here == \E i \in 1 .. n : stream[i].at = 1
    IN  last.at < last.of /\ (fragment \/ (handed.torn /\ ~here))

\* _e22_rssi_dbm: a reading under the floor is one that wrapped.
RssiDbm(raw) == IF raw - 256 < -148 THEN 0 ELSE raw - 256

\* lora_read, with something to read
Read ==
    /\ on /\ stream # <<>>
    /\ LET n == Taken
           whole == n >= FrameMin + 1
       IN  /\ desynced' = ~whole
           /\ handed' = [frame |-> whole /\ ~desynced, from |-> stream[1].at,
                         after |-> handed.torn, torn |-> Torn(n, ~whole)]
           /\ stream' = Rest(n)
    /\ UNCHANGED on

\* lora_read_channel_rssi flushes what has arrived before its command, and what
\* arrives before the answer spoils it; either way those bytes are gone.
ReadChannelRssi ==
    /\ on /\ stream # <<>>
    /\ \E n \in 1 .. Len(stream) :
          /\ stream' = Rest(n)
          /\ handed' = [handed EXCEPT !.frame = FALSE, !.torn = Torn(n, FALSE)]
    /\ UNCHANGED <<on, desynced>>

Next == Listen \/ Stop \/ Deliver \/ Read \/ ReadChannelRssi

Spec == Init /\ [][Next]_vars

-----------------------------------------------------------------------------
\* The rest of a packet of which a fragment was read is not handed up as a
\* frame, whatever is flushed, stopped or merged in between.
TailsAreDropped == ~(handed.frame /\ handed.from > 1 /\ handed.after)
=============================================================================
