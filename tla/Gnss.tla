-------------------------------- MODULE Gnss --------------------------------
(* The satellite receiver (d_interface_at6558.h over d_interface_nmea0183.h):*)
(* who holds the UART it may share with the radio, and the read that picks   *)
(* one position and one time out of the sentences that arrive.               *)
EXTENDS Integers, FiniteSets

CONSTANTS
    Shared,     \* BOOLEAN: _gnss_shares_radio_uart
    Strategies, \* gnss_strategy_t: quality, sats, hdop (0: do not care)
    Fixes,      \* GGA sentences: quality, sats, hdop, place
    Window      \* sentences that fit into the time of one read

\* A field that does not parse is 0, a coordinate that does not is "nan".
GnssAssumption ==
    /\ Shared \in BOOLEAN /\ Window \in Nat
    /\ \A s \in Strategies \cup Fixes : {s.quality, s.sats, s.hdop} \subseteq Nat
    /\ \A f \in Fixes : f.place \in {"in", "out", "nan"}

VARIABLES
    uart,       \* s_uart_installed of the receiver's port
    parked,     \* the radio is held in deep sleep by this driver
    pps,        \* the PPS pin is an input
    owner,      \* how the caller came by the port: "none", "start", "attach"
    read,       \* the read in progress or the last one
    passed      \* history: the fixes of this read that came whole

vars == <<uart, parked, pps, owner, read, passed>>

NoFix == [quality |-> 0, sats |-> 0, hdop |-> 0, place |-> "in"]
Quiet == [phase |-> "idle", posn |-> FALSE, time |-> FALSE, strategy |-> CHOOSE s \in Strategies : TRUE,
          gga |-> FALSE, rmc |-> FALSE, fix |-> NoFix, utc |-> "none", left |-> 0, answer |-> "none"]

Init ==
    /\ uart = FALSE /\ parked = FALSE /\ pps = FALSE
    /\ owner = "none"
    /\ read = Quiet /\ passed = {}

-----------------------------------------------------------------------------
(* The port.  hw_uart_start aborts on a port that is installed, hw_uart_stop *)
(* on one that is not: the caller keeps to that.                             *)
Restore == uart' = FALSE /\ pps' = FALSE /\ parked' = FALSE /\ owner' = "none"

\* gnss_setup neither parks the radio nor touches the pin.  The commands that
\* silence the receiver are the last: when one fails the port is left installed.
Setup ==
    /\ ~uart /\ owner = "none"
    /\ \E quieted \in BOOLEAN : uart' = ~quieted
    /\ UNCHANGED <<parked, pps, owner, read, passed>>

\* gnss_start and gnss_attach up to hw_uart_start, which may fail and leaves
\* the radio parked and the pin enabled then; a flush that fails is cleaned up
\* by gnss_start only.
Take(how, result) ==
    /\ ~uart /\ owner = "none"
    /\ \/ result = "ok" /\ owner' = how /\ uart' = TRUE /\ parked' = Shared /\ pps' = TRUE
       \/ result = "uart" /\ UNCHANGED <<uart, owner>> /\ parked' = Shared /\ pps' = TRUE
       \/ result = "flush" /\ how = "start" /\ Restore
       \/ result = "flush" /\ how = "attach" /\ UNCHANGED owner
             /\ uart' = TRUE /\ parked' = Shared /\ pps' = TRUE
    /\ UNCHANGED <<read, passed>>

Results == {"ok", "uart", "flush"}
Start == \E result \in Results : Take("start", result)
Attach == \E result \in Results : Take("attach", result)

\* gnss_stop and gnss_detach; the first also sends the receiver to sleep.  A
\* caller that was refused may call either when the port is installed.
GiveBack ==
    /\ uart /\ read.phase # "reading"
    /\ Restore
    /\ UNCHANGED <<read, passed>>

-----------------------------------------------------------------------------
(* gnss_read                                                                 *)

Begin ==
    /\ owner # "none" /\ read.phase = "idle"
    /\ \E s \in Strategies, posn, time \in BOOLEAN :
          read' = [Quiet EXCEPT !.phase = "reading", !.posn = posn, !.time = time,
                                !.strategy = s, !.gga = ~posn, !.rmc = ~time, !.left = Window]
    /\ passed' = {}
    /\ UNCHANGED <<uart, parked, pps, owner>>

Accepts(s, f) ==
    /\ f.quality # 0
    /\ s.sats > 0 => f.sats >= s.sats
    /\ s.hdop > 0 => f.hdop <= s.hdop

\* An HDOP of 0 is a field that was absent, and does not meet a ceiling.
AbsentIsPerfect(s, f) == s.hdop > 0 => f.hdop <= s.hdop
ShowsItsHdop(s, f) == s.hdop > 0 => f.hdop > 0 /\ f.hdop <= s.hdop

\* _gnss_validate, in the order of its tests
Verdict(r) ==
    LET s == r.strategy
    IN  CASE r.posn /\ ~r.gga -> "no_fix"
          [] r.posn /\ r.fix.place # "in" -> "bad"
          [] r.posn /\ r.fix.quality < s.quality -> "bad"
          [] r.posn /\ s.sats > 0 /\ r.fix.sats < s.sats -> "bad"
          [] r.posn /\ ~ShowsItsHdop(s, r.fix) -> "bad"
          [] r.time /\ ~r.rmc -> "timeout"
          [] OTHER -> "ok"

\* A sentence was used: the read ends as soon as it has what was asked for.
Close(r) == IF r.gga /\ r.rmc THEN [r EXCEPT !.phase = "idle", !.answer = Verdict(r)] ELSE r

\* The first fix that keeps to the ceilings is the one; min_quality is not
\* asked here.
Gga ==
    /\ read.phase = "reading" /\ read.left > 0
    /\ \E f \in Fixes :
          /\ passed' = passed \cup {f}
          /\ read' = IF ~read.gga /\ Accepts(read.strategy, f)
                     THEN Close([read EXCEPT !.fix = f, !.gga = TRUE, !.left = @ - 1])
                     ELSE [read EXCEPT !.left = @ - 1]
    /\ UNCHANGED <<uart, parked, pps, owner>>

\* An active RMC with its time; one without a date gives a time of year 1900.
Rmc ==
    /\ read.phase = "reading" /\ read.left > 0
    /\ \E utc \in {"now", "undated"} :
          read' = IF ~read.rmc THEN Close([read EXCEPT !.utc = utc, !.rmc = TRUE, !.left = @ - 1])
                  ELSE [read EXCEPT !.left = @ - 1]
    /\ UNCHANGED <<uart, parked, pps, owner, passed>>

\* An active RMC whose time field is shorter than six: nmea_parse_rmc passes a
\* NULL on and _nmea_parse_datetime reads it.  The processor stops.
RmcWithoutTime ==
    /\ read.phase = "reading" /\ read.left > 0 /\ ~read.rmc
    /\ uart' = FALSE /\ parked' = FALSE /\ pps' = FALSE
    /\ owner' = "none"
    /\ read' = Quiet /\ passed' = {}

\* A void RMC, a GGA without a fix, another sentence, one with a bad checksum
\* or cut off by _gnss_read_sentence
Noise ==
    /\ read.phase = "reading" /\ read.left > 0
    /\ read' = [read EXCEPT !.left = @ - 1]
    /\ UNCHANGED <<uart, parked, pps, owner, passed>>

TimeOut ==
    /\ read.phase = "reading"
    /\ read' = [read EXCEPT !.phase = "idle", !.answer = Verdict(read)]
    /\ UNCHANGED <<uart, parked, pps, owner, passed>>

Next ==
    \/ Setup \/ Start \/ Attach \/ GiveBack
    \/ Begin \/ Gga \/ Rmc \/ RmcWithoutTime \/ Noise \/ TimeOut

Spec == Init /\ [][Next]_vars

-----------------------------------------------------------------------------
\* A read that answers OK gives a position of one sentence that arrived whole
\* and that meets every limit set, whichever of dispatch and validate asks; one
\* that ran out of time without a position gives no part of a refused one.
ReadKeepsToItsLimits ==
    LET s == read.strategy
        f == read.fix
    IN  /\ read.answer = "ok" /\ read.posn =>
               /\ f \in passed /\ f.place = "in" /\ f.quality >= 1 /\ f.quality >= s.quality
               /\ f.sats >= s.sats
               /\ s.hdop > 0 => f.hdop \in 1 .. s.hdop
        /\ read.answer = "ok" /\ read.time => read.utc # "none"
        /\ read.answer = "no_fix" => f = NoFix /\ \A g \in passed : ~Accepts(s, g)

\* Whoever got the port has it with the radio out of the way, and no read is
\* under way without it; without the port in use the radio is free unless the
\* UART refused to start.
PortIsHeld ==
    /\ owner # "none" => uart /\ pps /\ (Shared => parked)
    /\ read.phase = "reading" => owner # "none"
    /\ parked => Shared /\ pps

GnssIsSound == ReadKeepsToItsLimits /\ PortIsHeld

\* What a reader would expect besides: when a fix that meets every limit came
\* in time, the read does not fail for want of one.
GoodFixIsFound ==
    read.answer = "bad" =>
        \A f \in passed : ~(Accepts(read.strategy, f) /\ f.place = "in"
                             /\ f.quality >= read.strategy.quality
                             /\ (read.strategy.hdop > 0 => f.hdop > 0))

=============================================================================
