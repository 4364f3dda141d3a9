--------------------------- MODULE ConsoleUpload ---------------------------
(* A file over the console (iotdata_node_console_content.h on the sink of    *)
(* iotdata_node_console.h): data lines with an offset each, credit a window  *)
(* ahead, no acknowledgement of what was taken and no resync.  The cable     *)
(* loses and bends lines, the receive ring drops what does not fit, the host *)
(* may stop or go away; the loop's ticks come between any two lines.         *)
(* One unit of length is the payload of a line.                              *)
EXTENDS Integers, Sequences

CONSTANTS
    Size,       \* lines of the file
    Window,     \* how far ahead of the credit the host may run
    Ring,       \* lines the receive ring holds
    Timeout,    \* IOTDATA_NODE_CONTENT_INSERT_TIMEOUT_S
    Attempts,   \* uploads the host starts
    MaxFaults   \* lines lost or bent

UploadAssumption == {Size, Window, Timeout} \subseteq Nat \ {0} /\ Ring = Window + 1

VARIABLES
    host,       \* the sender: phase, next line, credit, uploads begun
    cable,      \* lines in the receive ring
    up,         \* the upload as the sink sees it: active, seen, acked
    rx,         \* the store's insert
    sink,       \* the console's bytes go to the sink
    down,       \* lines of a download still to print, 0 without one
    landed,     \* history: files that arrived, "whole" or "broken"
    obeyed,     \* history: a line of the transfer was dispatched as a command
    faults, strayed, overrun   \* history: faults; an offset bent; a line not fitting

vars == <<host, cable, up, rx, sink, down, landed, obeyed, faults, strayed, overrun>>
hostVars == <<host, faults, strayed>>

Line(kind, off, good) == [kind |-> kind, off |-> off, good |-> good]
Word(kind) == Line(kind, 0, TRUE)
NoUpload == [active |-> FALSE, seen |-> 0, acked |-> 0]
NoInsert == [active |-> FALSE, failed |-> FALSE, ready |-> FALSE, offset |-> 0,
             whole |-> TRUE, age |-> 0]

Init ==
    /\ host = [phase |-> "idle", next |-> 0, credit |-> 0, begun |-> 0]
    /\ cable = <<>> /\ up = NoUpload /\ rx = NoInsert
    /\ sink = FALSE /\ down = 0
    /\ landed = {} /\ obeyed = FALSE
    /\ faults = 0 /\ strayed = FALSE /\ overrun = FALSE

-----------------------------------------------------------------------------
(* The host and the cable.                                                   *)

\* A data line that does not fit the ring is dropped; words are short.
Long(line) == line.kind \in {"data", "bent"}
Put(line) ==
    IF ~Long(line) \/ Len(SelectSeq(cable, Long)) < Ring THEN cable' = Append(cable, line) /\ UNCHANGED overrun
    ELSE UNCHANGED cable /\ overrun' = TRUE

HostAsks ==
    /\ host.phase \in {"idle", "done"} /\ host.begun < Attempts
    /\ Put(Word("insert"))
    /\ host' = [phase |-> "asked", next |-> 0, credit |-> 0, begun |-> host.begun + 1]
    /\ UNCHANGED <<up, rx, sink, down, landed, obeyed, faults, strayed>>

\* A line as it was meant, lost, or bent: its text, its bytes, its offset.
HostSends ==
    /\ host.phase = "sending" /\ host.next < Size
    /\ host.next < host.credit + Window
    /\ host' = [host EXCEPT !.next = @ + 1]
    /\ \/ Put(Line("data", host.next, TRUE)) /\ UNCHANGED <<faults, strayed>>
       \/ /\ faults < MaxFaults /\ faults' = faults + 1
          /\ \/ UNCHANGED <<cable, overrun, strayed>>
             \/ Put(Word("junk")) /\ UNCHANGED strayed
             \/ Put(Word("bent")) /\ UNCHANGED strayed
             \/ Put(Line("data", host.next, FALSE)) /\ UNCHANGED strayed
             \/ /\ \E off \in 0 .. Size : Put(Line("data", off, TRUE))
                /\ strayed' = TRUE
    /\ UNCHANGED <<up, rx, sink, down, landed, obeyed>>

\* It loses its nerve, or reads that it is over, or is gone.
HostStops ==
    /\ host.phase \in {"asked", "sending"}
    /\ host' = [host EXCEPT !.phase = "done"]
    /\ \/ Put(Word("end"))
       \/ UNCHANGED <<cable, overrun>>
    /\ UNCHANGED <<up, rx, sink, down, landed, obeyed, faults, strayed>>

-----------------------------------------------------------------------------
(* The console: a line to the sink while there is one, else to the verbs.    *)

Abort(i) == IF i.active THEN [i EXCEPT !.failed = TRUE] ELSE i

\* iotdata_node_content_insert_write, for one line
Written(i, line, works) ==
    IF ~i.active \/ i.ready \/ i.failed THEN i
    ELSE IF line.off # i.offset \/ line.off >= Size \/ ~works
         THEN [i EXCEPT !.failed = TRUE]
         ELSE [i EXCEPT !.offset = @ + 1, !.age = 0, !.whole = @ /\ line.good,
                        !.ready = i.offset + 1 = Size]

\* _iotdata_node_console_content_up_line on a data line: the credit counts what
\* was offered, taken or not.
Offered(line) ==
    LET seen == IF line.off + 1 > up.seen THEN line.off + 1 ELSE up.seen
        acks == seen >= Size \/ seen - up.acked >= Window
    IN  /\ up' = [active |-> seen < Size, seen |-> seen,
                  acked |-> IF acks THEN seen ELSE up.acked]
        /\ host' = IF acks /\ host.phase = "sending" THEN [host EXCEPT !.credit = seen]
                   ELSE host
        /\ \E works \in BOOLEAN : rx' = Written(rx, line, works)

SinkTakes ==
    /\ sink /\ up.active /\ cable # <<>>
    /\ cable' = Tail(cable)
    /\ LET line == Head(cable)
       IN  CASE line.kind = "data" -> Offered(line)
             [] line.kind = "bent" -> rx' = Abort(rx) /\ UNCHANGED <<up, host>>
             [] line.kind = "end" -> /\ rx' = Abort(rx)
                                     /\ up' = [up EXCEPT !.active = FALSE]
                                     /\ UNCHANGED host
             [] OTHER -> UNCHANGED <<rx, up, host>>
    /\ UNCHANGED <<sink, down, landed, obeyed, faults, strayed, overrun>>

\* It takes less than it was offered: the console is back.
SinkStandsDown ==
    /\ sink /\ ~up.active /\ cable # <<>>
    /\ sink' = FALSE
    /\ UNCHANGED <<host, cable, up, rx, down, landed, obeyed, faults, strayed, overrun>>

\* A line to the verbs: `content insert`, refused while the console is busy or
\* the store is; anything else of the transfer is not a command.
Dispatch ==
    /\ ~sink /\ cable # <<>>
    /\ cable' = Tail(cable)
    /\ IF Head(cable).kind = "insert"
       THEN /\ UNCHANGED obeyed
            /\ \/ /\ down = 0 /\ ~rx.active
                  /\ rx' = [NoInsert EXCEPT !.active = TRUE]
                  /\ up' = [NoUpload EXCEPT !.active = TRUE] /\ sink' = TRUE
                  /\ host' = IF host.phase = "asked" THEN [host EXCEPT !.phase = "sending"]
                             ELSE host
               \/ /\ UNCHANGED <<up, rx, sink>>
                  /\ host' = IF host.phase = "asked" THEN [host EXCEPT !.phase = "done"]
                             ELSE host
       ELSE /\ obeyed' = (obeyed \/ Head(cable).kind \in {"data", "bent"})
            /\ UNCHANGED <<up, rx, sink, host>>
    /\ UNCHANGED <<down, landed, faults, strayed, overrun>>

\* `content download`, and a line of it a pass: a read that fails ends it.
Download ==
    /\ ~sink /\ ~up.active /\ down = 0 /\ "whole" \in landed
    /\ down' \in {Size, Size - 1}
    /\ UNCHANGED <<hostVars, cable, up, rx, sink, landed, obeyed, overrun>>

DownloadLine ==
    /\ down > 0 /\ down' \in {down - 1, 0}
    /\ UNCHANGED <<hostVars, cable, up, rx, sink, landed, obeyed, overrun>>

-----------------------------------------------------------------------------
(* The loop: time, the content tick, the console's tick behind it.           *)

Later ==
    /\ rx.active /\ rx.age < Timeout
    /\ rx' = [rx EXCEPT !.age = @ + 1]
    /\ UNCHANGED <<hostVars, cable, up, sink, down, landed, obeyed, overrun>>

Failed == rx.failed \/ (~rx.ready /\ rx.age >= Timeout)
ProvenByLength == rx.ready   \* a slip

Proven == rx.ready /\ rx.whole    \* the checksum
Resolved == rx.active /\ (Failed \/ rx.ready)

Tick ==
    /\ Resolved \/ (up.active /\ ~rx.active) \/ (sink /\ ~up.active)
    /\ rx' = IF Resolved THEN NoInsert ELSE rx
    /\ landed' = IF Resolved /\ ~Failed /\ Proven
                 THEN landed \cup {IF rx.whole /\ rx.offset = Size THEN "whole" ELSE "broken"}
                 ELSE landed
    /\ up' = [up EXCEPT !.active = @ /\ rx'.active]
    /\ sink' = (sink /\ up'.active)
    /\ UNCHANGED <<hostVars, cable, down, obeyed, overrun>>

Console == SinkTakes \/ SinkStandsDown \/ Dispatch

Next ==
    \/ HostAsks \/ HostSends \/ HostStops
    \/ Console \/ Download \/ DownloadLine
    \/ Later \/ Tick

Spec == Init /\ [][Next]_vars
        /\ WF_vars(Console) /\ WF_vars(Later) /\ WF_vars(Tick)

-----------------------------------------------------------------------------
\* A file that arrived is the file that was sent.
OnlyTheFileArrives == "broken" \notin landed

\* A host that keeps to its credit overruns the ring only behind a line whose
\* offset was bent into more credit than was earned.
CreditFitsTheRing == overrun => strayed

\* The sink is never left over from an upload, nor an upload without its sink.
SinkHasItsUpload == up.active => sink

UploadIsSound == OnlyTheFileArrives /\ CreditFitsTheRing /\ SinkHasItsUpload

\* Whatever the host does, the console comes back.
ConsoleComesBack == sink ~> ~sink

\* "Once a line is refused the insert is doomed, and the receiver's refusal
\* STICKS: it keeps consuming to the declared end and discards ... the
\* alternative is reading the remaining 190 KB of base64 as console commands."
DataIsNeverObeyed == strayed \/ host.begun > 1 \/ ~obeyed
=============================================================================
