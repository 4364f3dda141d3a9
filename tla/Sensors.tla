------------------------------ MODULE Sensors ------------------------------
(* The two sensors on one I2C bus (d_interface_bme280.h, d_interface_ltr390.h *)
(* over d_hardware_i2c.h): setup, start, read, stop, detect and diagnose,    *)
(* with everything a transfer can do to each.  The bus is opened by one      *)
(* driver at a time and asserts it; what the RTC memory says of a sensor     *)
(* outlives a deep sleep.  The readings become results through Process.      *)
EXTENDS Integers, Sequences, FiniteSets, FiniteSetsExt, TLC

CONSTANTS
    Channels,   \* of each sensor: the quantities it reads
    Raw,        \* of each channel: values a reading can have
    NumTotal,   \* readings attempted
    NumDiscard, MinAccepted, RangeMin, RangeMax,    \* reading_strategy_t
    OutlierPct, OutlierAbs      \* 0 switches either off

Sensor == {"bme280", "ltr390"}

SensorsAssumption ==
    /\ DOMAIN Channels = Sensor
    /\ {NumDiscard, MinAccepted} \subseteq Nat /\ MinAccepted > 0

VARIABLES
    bus,        \* the sensor the bus is open to, or "closed"
    rtc,        \* per sensor: magic valid, chip id read, calibration read
    started,    \* sensors the node has started and not stopped
    result,     \* the caller's reading_result_t per channel of the sensor it read
                \* last, kept while it reads the same one
    read        \* history: the last read: its sensor, whether it was OK, and per
                \* channel the raw readings; a value is a number if there are any

vars == <<bus, rtc, started, result, read>>

-----------------------------------------------------------------------------
(* How several readings become one (d_readings.h): the first are discarded,  *)
(* what is out of range goes, what is far from the median goes, and the mean *)
(* of the rest counts if there are enough.  A pure function, and what it     *)
(* must amount to: its reference.                                            *)

Magnitude(x) == IF x < 0 THEN -x ELSE x

InRange(x) == x >= RangeMin /\ x <= RangeMax

Kept(raw) == SelectSeq(SubSeq(raw, NumDiscard + 1, Len(raw)), InRange)

\* _sort_floats
Sorted(s) == SortSeq(s, LAMBDA a, b : a < b)

MedianLow(s) == 2 * s[(Len(s) + 1) \div 2]   \* a slip

\* Twice the median of a sorted sequence.
Median2(s) ==
    LET n == Len(s)
    IN  IF n % 2 = 0 THEN s[n \div 2] + s[n \div 2 + 1] ELSE 2 * s[n \div 2 + 1]

\* 200 times the distance from a median that is too far.
Threshold200(median2) ==
    LET pct == Magnitude(median2) * OutlierPct
        abs == OutlierAbs * 200
    IN  IF abs > pct THEN abs ELSE pct

Far(x, median2) ==
    (OutlierPct > 0 \/ OutlierAbs > 0)
        /\ 100 * Magnitude(2 * x - median2) > Threshold200(median2)

\* The walk inward from both ends of the sorted readings.
Accepted(s) ==
    LET m == Median2(s)
        near == {i \in 1 .. Len(s) : ~Far(s[i], m)}
        lo == CHOOSE i \in near : \A j \in near : i <= j
        hi == CHOOSE i \in near : \A j \in near : i >= j
    IN  IF near = {} THEN <<>> ELSE SubSeq(s, lo, hi)

SumOf(s) == LET sum[i \in 0 .. Len(s)] == IF i = 0 THEN 0 ELSE sum[i - 1] + s[i]
            IN  sum[Len(s)]

\* readings_process, on the result the caller hands in: a failure before the
\* mean leaves the last value where it is.  The value is a sum over accepted.
Process(raw, before) ==
    LET s == Sorted(Kept(raw))
        a == Accepted(s)
    IN  IF Len(raw) <= NumDiscard \/ s = <<>> \/ Accepted(s) = <<>>
        THEN [before EXCEPT !.valid = FALSE]
        ELSE [sum |-> SumOf(a), accepted |-> Len(a), spread |-> a[Len(a)] - a[1],
              valid |-> Len(a) >= MinAccepted]

-----------------------------------------------------------------------------
(* What it must amount to: the readings in range after the settling ones     *)
(* that are not far from their median count, each as often as it was read,   *)
(* and no other; without any, the result is invalid.                         *)
Places(raw) == {i \in (NumDiscard + 1) .. Len(raw) : InRange(raw[i])}

\* The k-th smallest of the readings in these places.
Ranked(raw, places, k) ==
    CHOOSE x \in {raw[i] : i \in places} :
        /\ Cardinality({i \in places : raw[i] < x}) < k
        /\ Cardinality({i \in places : raw[i] <= x}) >= k

Near(raw) ==
    LET places == Places(raw)
        n == Cardinality(places)
        median2 == Ranked(raw, places, (n + 1) \div 2)
                   + Ranked(raw, places, n \div 2 + 1)
    IN  {i \in places : ~Far(raw[i], median2)}

FilterIsExact(raw, r) ==
    LET near == Near(raw)
    IN  IF near = {} THEN ~r.valid
        ELSE /\ r.accepted = Cardinality(near)
             /\ r.sum = MapThenSumSet(LAMBDA i : raw[i], near)
             /\ r.valid = (Cardinality(near) >= MinAccepted)
             /\ \A i, j \in near : Magnitude(raw[i] - raw[j]) <= r.spread

-----------------------------------------------------------------------------
Channel == Channels["bme280"] \cup Channels["ltr390"]
Blank == [valid |-> FALSE, id |-> FALSE, calibrated |-> FALSE]
NoResult == [sum |-> 0, accepted |-> 0, spread |-> 0, valid |-> FALSE]
NoRead == [sensor |-> "none", ok |-> FALSE]

Init ==
    /\ bus = "closed" /\ started = {}
    /\ rtc \in [Sensor -> {Blank}]
    /\ result = [c \in Channel |-> NoResult]
    /\ read = NoRead

-----------------------------------------------------------------------------
\* bme280_setup, ltr390_setup: the RTC data is begun before the bus is tried,
\* the id is kept before it is judged.  Every path lets the bus go.
Setup(s) ==
    /\ bus = "closed" /\ started = {}
    /\ \E got \in {"nothing", "a wrong id", "the id", "all"} :
          rtc' = [rtc EXCEPT ![s] =
              [valid |-> TRUE, id |-> got \in {"the id", "all"},
               calibrated |-> got = "all"]]
    /\ UNCHANGED <<bus, started, result, read>>

\* bme280_start, ltr390_start: what the RTC memory holds is enough.  A sensor
\* that does not take its settings is put to sleep and the bus let go.
Start(s) ==
    /\ bus = "closed" /\ started = {}
    /\ rtc[s].valid /\ rtc[s].id
    /\ \/ bus' = s /\ started' = {s}
       \/ UNCHANGED <<bus, started>>
    /\ UNCHANGED <<rtc, result, read>>

\* bme280_stop, ltr390_stop: also when the sensor does not answer
Stop(s) ==
    /\ s \in started
    /\ bus' = "closed" /\ started' = {}
    /\ UNCHANGED <<rtc, result, read>>

\* ..._detect and ..._diagnose open and close the bus around what they ask.
Look ==
    /\ bus = "closed"
    /\ UNCHANGED vars

\* A deep sleep keeps the RTC memory, a power cut does not.
Sleep ==
    /\ started = {}
    /\ result' = [c \in Channel |-> NoResult] /\ read' = NoRead
    /\ rtc' \in {rtc, [s \in Sensor |-> Blank]}
    /\ UNCHANGED <<bus, started>>

-----------------------------------------------------------------------------
\* Readings of one channel: as many as transfers worked.
Series(c) == UNION {[1 .. k -> Raw[c]] : k \in 0 .. NumTotal}

SeriesOf(s) ==
    {raw \in [Channels[s] -> UNION {Series(c) : c \in Channels[s]}] :
        \A c \in Channels[s] : raw[c] \in Series(c)}

Took(s, ok, raw) ==
    /\ read = NoRead
    /\ result' = [c \in Channel |->
          CASE c \notin Channels[s] -> NoResult
            [] c \in Channels[s] /\ raw[c] # <<>> -> Process(raw[c], result[c])
            [] OTHER -> result[c]]
    /\ read' = [sensor |-> s, ok |-> ok, raw |-> raw]
    /\ UNCHANGED <<bus, rtc, started>>

\* bme280_read: one transfer reads every channel, so all have as many; none is
\* a bad reading and leaves the results alone.
ReadBme280 ==
    /\ "bme280" \in started
    /\ \E raw \in SeriesOf("bme280") :
          /\ \A c, d \in Channels["bme280"] : Len(raw[c]) = Len(raw[d])
          /\ Took("bme280", \E c \in Channels["bme280"] : raw[c] # <<>>, raw)

\* ltr390_read: one mode after the other; a mode that gave nothing leaves its
\* result alone and makes its value a NaN.
ReadLtr390 ==
    /\ "ltr390" \in started
    /\ \E raw \in SeriesOf("ltr390") :
          Took("ltr390", \E c \in Channels["ltr390"] : raw[c] # <<>>, raw)

\* The node takes what was read, and keeps the struct.
Use ==
    /\ read # NoRead /\ read' = NoRead
    /\ UNCHANGED <<bus, rtc, started, result>>

Next ==
    \/ \E s \in Sensor : Setup(s) \/ Start(s) \/ Stop(s)
    \/ Look \/ Sleep \/ ReadBme280 \/ ReadLtr390 \/ Use

Spec == Init /\ [][Next]_vars

-----------------------------------------------------------------------------
\* Whatever failed, the bus is closed unless its sensor is started: the next
\* start does not meet its own assertion.
BusIsLetGo == bus = (IF started = {} THEN "closed" ELSE CHOOSE s \in started : TRUE)

\* What a successful read says of a channel whose value is a number is what the
\* readings of that call amount to; a result of an earlier one never shows.
ToldIsMeasured ==
    read.ok => \A c \in Channels[read.sensor] :
        read.raw[c] # <<>> => FilterIsExact(read.raw[c], result[c])

SensorsAreSound == BusIsLetGo /\ ToldIsMeasured

\* "bool valid; // accepted >= min_accepted": of the readings of that call.
ValidIsOfThisRead ==
    read.ok => \A c \in Channels[read.sensor] :
        result[c].valid => Len(read.raw[c]) > NumDiscard
=============================================================================
