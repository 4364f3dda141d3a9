------------------------------ MODULE Battery ------------------------------
(* The battery gauge (d_interface_batt.h): the self-test that names what is  *)
(* wrong with the divider, the curve from millivolts to percent for whatever *)
(* profile is set, and the session around the ADC and the enable line, with  *)
(* the events the diagnostics make of a falling charge.                      *)
EXTENDS Integers, FiniteSets

CONSTANTS
    Profiles,   \* profiles offered: type, min, max, offset
    Default,    \* the profile of the build
    Packs,      \* voltages of a pack, in mV; 0 is no pack
    Drifts      \* what a pin that nothing drives reads

\* The rows of the configuration bound a profile's ends and its trim.
BatteryAssumption ==
    /\ Default \in Profiles /\ Packs \cup Drifts \subseteq Nat
    /\ \A p \in Profiles : {p.min, p.max} \subseteq 1500 .. 4500

VARIABLES
    adc,        \* the ADC is started, the enable line is an output, low between
                \* measurements
    profile,    \* _battery_profile
    reading,    \* the last battery_reading_t; its mv is the caller's previous_mv
    told,       \* history: the last event but samples, since above the low mark
    verdict     \* history: the self-test's answer, and of which circuit

vars == <<adc, profile, reading, told, verdict>>

\* What is soldered and plugged in; it may be another at every call.
Kinds == {"healthy", "unwired", "stuck", "leaky", "silent"}
Circuits == [kind : Kinds, pack : Packs]

NoReading == [mv |-> 0, percent |-> 0, state |-> "unknown", charging |-> FALSE]
NoVerdict == [status |-> "unknown", circuit |-> [kind |-> "silent", pack |-> 0]]

Init ==
    /\ adc = FALSE
    /\ profile = Default
    /\ reading = NoReading /\ told = "none"
    /\ verdict = NoVerdict

-----------------------------------------------------------------------------
(* What the pin reads, in mV: half the pack while the divider is on.  A pin  *)
(* that nothing drives drifts, a leaky switch leaves some of the pack on it. *)
Off(c) == CASE c.kind = "healthy" -> {0, 40}
            [] c.kind = "unwired" -> Drifts
            [] c.kind = "stuck" -> {c.pack \div 2}
            [] c.kind = "leaky" -> {c.pack \div 10}
            [] OTHER -> {}

On(c) == IF c.kind \in {"healthy", "leaky", "stuck"} THEN {c.pack \div 2} ELSE Off(c)

\* battery_status: off, on, off, and the order of its tests
Status(off1, on, off2) ==
    LET apart == IF off1 > off2 THEN off1 - off2 ELSE off2 - off1
        high == IF off1 > off2 THEN off1 ELSE off2
        pack == 2 * on
    IN  CASE apart > 100 -> "adc_fault"
          [] on - off1 < 300 /\ high > 1000 /\ high < 2250 -> "switch_stuck"
          [] on - off1 < 300 -> "no_divider"
          [] high > 150 -> "switch_stuck"
          [] pack < 2000 -> "no_battery"
          [] pack > 4500 -> "divider_fault"
          [] OTHER -> "ok"

Statuses(c) ==
    IF c.kind = "silent" THEN {"adc_fault"}
    ELSE {Status(off1, on, off2) : off1 \in Off(c), on \in On(c), off2 \in Off(c)}

-----------------------------------------------------------------------------
(* battery_percent_of and battery_state_of.  C divides towards zero; every   *)
(* quotient here is of numbers that are not negative.                        *)
Curve(mv, p, min, max) ==
    CASE p.type = "lifepo4" -> ((mv - min) * 100) \div (max - min)
      [] mv > 3700 -> 50 + ((mv - 3700) * 50) \div (max - 3700)
      [] mv > 3500 -> 20 + ((mv - 3500) * 30) \div 200
      [] OTHER -> ((mv - min) * 20) \div (3500 - min)

Percent(mv, p, cold, hot) ==
    LET min == IF cold THEN p.min - 300 ELSE p.min
        max == IF hot THEN p.max + 150 ELSE p.max
    IN  CASE mv <= min -> 0
          [] mv > min /\ mv >= max -> 100
          [] OTHER -> LET c == Curve(mv, p, min, max) IN IF c > 100 THEN 100 ELSE c

State(percent) ==
    CASE percent < 10 -> "critical"
      [] percent \in 10 .. 19 -> "low"
      [] percent \in 20 .. 34 -> "warning"
      [] percent \in 35 .. 80 -> "good"
      [] OTHER -> "full"

EventShort(was, percent) ==   \* a slip
    LET before == Percent(was, profile, FALSE, FALSE)
    IN  CASE was > 0 /\ percent < 10 /\ before >= 10 -> "critical"
          [] was > 0 /\ percent \in 10 .. 19 /\ before >= 20 -> "low"
          [] OTHER -> "sample"

\* power_event_of: the event is that of a mark crossed since the last reading,
\* judged by the profile of now.
Event(was, percent) ==
    LET before == Percent(was, profile, FALSE, FALSE)
    IN  CASE was > 0 /\ percent < 10 /\ before >= 10 -> "critical"
          [] was > 0 /\ percent \in 10 .. 20 /\ before > 20 -> "low"
          [] OTHER -> "sample"

-----------------------------------------------------------------------------
Begin ==
    /\ ~adc
    /\ adc' = TRUE
    /\ verdict' = NoVerdict
    /\ UNCHANGED <<profile, reading, told>>

End ==
    /\ adc
    /\ adc' = FALSE
    /\ UNCHANGED <<profile, reading, told, verdict>>

\* battery_probe at boot: a session of its own around battery_status
Probe ==
    /\ ~adc /\ reading = NoReading
    /\ \E c \in Circuits : \E s \in Statuses(c) :
          verdict' = [status |-> s, circuit |-> c]
    /\ adc' = FALSE
    /\ UNCHANGED <<profile, reading, told>>

\* battery_read, and power_sample after it: the divider is on for the samples
\* only.  A trim that makes the pack negative is taken for an ADC that failed.
\* The first cycle after power on is told as a boot.
Read ==
    /\ adc
    /\ \E c \in Circuits : \E pin \in On(c), boot \in BOOLEAN :
          LET mv == 2 * pin + profile.offset
              percent == Percent(mv, profile, FALSE, FALSE)
              event == Event(reading.mv, percent)
          IN  /\ mv >= 0 /\ (boot => reading = NoReading)
              /\ reading' = [mv |-> mv, percent |-> percent, state |-> State(percent),
                             charging |-> reading.mv > 0 /\ mv > reading.mv + 20]
              /\ told' = IF boot THEN "boot"
                         ELSE IF event # "sample" THEN event
                         ELSE IF percent > 20 THEN "above" ELSE told
    /\ UNCHANGED <<adc, profile, verdict>>

\* battery_profile_set, from iotdata_node_config_batt_apply
ProfileSet ==
    /\ \E p \in Profiles :
          /\ p.min < p.max
          /\ profile' = p
    /\ told' = "none"
    /\ UNCHANGED <<adc, reading, verdict>>

Next == Begin \/ End \/ Probe \/ Read \/ ProfileSet

Spec == Init /\ [][Next]_vars

-----------------------------------------------------------------------------
\* The self-test never calls a circuit good that is not, and gives the faults
\* it has a name for their own name: a pack under 600 mV, which the enable line
\* cannot be seen to move, is the exception.
ProbeNamesTheFault ==
    LET c == verdict.circuit
        s == verdict.status
    IN  /\ s = "ok" <=> s # "unknown" /\ c.kind = "healthy" /\ c.pack \in 2000 .. 4500
        /\ s = "no_battery" => c.kind = "healthy" /\ c.pack < 2000
        /\ s \in {"no_divider", "adc_fault"} /\ c.kind = "healthy" => c.pack < 680

\* Whatever profile was accepted, more volts never read as less charge, the
\* ends are 0 and 100, and cold never makes a pack look emptier.
CurveIsSound ==
    \A hot \in BOOLEAN :
        /\ \A a, b \in Packs : a <= b =>
               Percent(a, profile, FALSE, hot) <= Percent(b, profile, FALSE, hot)
        /\ \A a \in Packs :
               /\ Percent(a, profile, FALSE, hot) \in 0 .. 100
               /\ Percent(a, profile, FALSE, hot) <= Percent(a, profile, TRUE, hot)
        /\ Percent(profile.min, profile, FALSE, hot) = 0
        /\ ~hot => Percent(profile.max, profile, FALSE, hot) = 100

\* While the profile stays, a charge that fell from above a mark to it or below
\* has been told of as low or critical.
FallsAreTold ==
    /\ told = "above" => reading.percent > 20
    /\ reading.percent < 10 => told # "low"

GaugeIsSound == ProbeNamesTheFault /\ CurveIsSound /\ FallsAreTold

\* "BATTERY_STATUS_NO_BATTERY: the switch works, but there is nothing plausible
\* behind it"
AbsentIsNoBattery ==
    (verdict.status # "unknown" /\ verdict.circuit.kind = "healthy"
        /\ verdict.circuit.pack = 0) => verdict.status = "no_battery"
=============================================================================
