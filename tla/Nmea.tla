--------------------------------- MODULE Nmea ---------------------------------
(* The sentences of the satellite receiver (d_interface_nmea0183.h): bytes   *)
(* that come from the uart in pieces are put together to lines, checked, and *)
(* taken apart into a place, a time or the name of a product.                *)
EXTENDS Integers, Sequences, FiniteSets, Bitwise

CONSTANTS
    Transmissions, \* sequences of what the receiver has to say
    Noisy,         \* those of them a byte of which is bent or lost
    Bends,         \* characters a bent byte turns into; "" for a lost one
    Pieces,        \* how many bytes one hw_uart_read brings at most
    LineMax,       \* _NMEA_SENTENCE_LENGTH_MAX
    FieldsMax,     \* _NMEA_SENTENCE_FIELDS_MAX
    TextMax        \* _NMEA_TXT_VALUE_MAX

NmeaAssumption ==
    /\ Noisy \subseteq Transmissions
    /\ {LineMax, FieldsMax, TextMax} \cup Pieces \subseteq Nat \ {0}
    /\ \A tr \in Transmissions : \A i \in DOMAIN tr : tr[i].kind \in {"gga", "rmc", "txt"}

VARIABLES
    sent,  \* what the receiver says in this behaviour
    bent,  \* a byte of it was bent or lost
    wire,  \* bytes still to come
    rx,    \* _gnss_rx: bytes read from the uart and not looked at
    line,  \* the line of _gnss_read_sentence
    began, \* in_sentence
    late,  \* a read ran out of time
    told   \* what was made of the lines, in their order

vars == <<sent, bent, wire, rx, line, began, late, told>>

-----------------------------------------------------------------------------
(* Characters                                                                *)

Printable ==
    <<" ", "!", "\"", "#", "$", "%", "&", "'", "(", ")", "*", "+", ",", "-", ".", "/",
      "0", "1", "2", "3", "4", "5", "6", "7", "8", "9", ":", ";", "<", "=", ">", "?",
      "@", "A", "B", "C", "D", "E", "F", "G", "H", "I", "J", "K", "L", "M", "N", "O",
      "P", "Q", "R", "S", "T", "U", "V", "W", "X", "Y", "Z", "[", "\\", "]", "^", "_">>
Small == <<"a", "b", "c", "d", "e", "f">>
LineEnd == {"\r", "\n"}
PlaceIn(s, c) == CHOOSE i \in DOMAIN s : s[i] = c
Among(s) == {s[i] : i \in DOMAIN s}
Code == [c \in Among(Printable) \cup Among(Small) \cup LineEnd |->
           CASE c = "\n" -> 10
             [] c = "\r" -> 13
             [] c \in Among(Small) -> 96 + PlaceIn(Small, c)
             [] OTHER -> 31 + PlaceIn(Printable, c)]

Less(c) == Code[c] - Code["0"]  \* (c - '0'), of any character
IsDigit(c) == Less(c) \in 0 .. 9
HexDigits == SubSeq(Printable, 17, 26) \o SubSeq(Printable, 34, 39)

\* The place of the first of these characters at or after from, or past the end
First(s, chars, from) ==
    LET found == {i \in from .. Len(s) : s[i] \in chars}
    IN  IF found = {} THEN Len(s) + 1 ELSE CHOOSE i \in found : \A j \in found : i <= j
Before(s, chars) == SubSeq(s, 1, First(s, chars, 1) - 1)
Digits(s) == LET ends == {i \in DOMAIN s : ~IsDigit(s[i])}
             IN  IF ends = {} THEN s ELSE SubSeq(s, 1, (CHOOSE i \in ends : \A j \in ends : i <= j) - 1)

Value(s) == LET v[i \in 0 .. Len(s)] == IF i = 0 THEN 0 ELSE 10 * v[i - 1] + Less(s[i]) IN v[Len(s)]
Checksum(s) == LET x[i \in 0 .. Len(s)] == IF i = 0 THEN 0 ELSE (x[i - 1] ^^ Code[s[i]]) IN x[Len(s)]

\* _pcas_send frames what the driver says as the receiver frames its own.
Framed(body) ==
    LET sum == Checksum(body)
    IN  <<"$">> \o body \o <<"*", HexDigits[(sum \div 16) + 1], HexDigits[(sum % 16) + 1], "\r", "\n">>

\* _nmea_hex_nibble, which also takes the small letters
Nibble(c) == CASE IsDigit(c) -> Less(c)
               [] Code[c] \in Code["A"] .. Code["F"] -> Code[c] - Code["A"] + 10
               [] Code[c] \in Code["a"] .. Code["f"] -> Code[c] - Code["a"] + 10
               [] OTHER -> 255

VerifyChecksum(s) ==
    LET star == First(s, {"*"}, 2)
    IN  /\ s # <<>> /\ s[1] = "$"
        /\ star + 2 <= Len(s)
        /\ 255 \notin {Nibble(s[star + 1]), Nibble(s[star + 2])}
        /\ Checksum(SubSeq(s, 2, star - 1)) = 16 * Nibble(s[star + 1]) + Nibble(s[star + 2])

-----------------------------------------------------------------------------
(* Fields                                                                    *)

\* _nmea_field_indexes: the pieces between commas, up to the star; field 0 is
\* the address.  One past the last the table holds is not there.
Payload(s) == Before(SubSeq(s, 2, Len(s)), {"*"} \cup LineEnd)
Commas(s, upto) == {i \in 1 .. upto : s[i] = ","}
FieldCount(s) == LET n == 1 + Cardinality(Commas(Payload(s), Len(Payload(s)))) IN IF n > FieldsMax THEN FieldsMax ELSE n
Field(s, n) ==
    LET p == Payload(s)
        mine == {i \in DOMAIN p : p[i] # "," /\ Cardinality(Commas(p, i)) = n}
    IN  IF n >= FieldCount(s) \/ mine = {} THEN <<>>
        ELSE LET from == CHOOSE i \in mine : \A j \in mine : i <= j
                 to == CHOOSE i \in mine : \A j \in mine : j <= i
             IN  SubSeq(p, from, to)

FieldChar(f) == IF f = <<>> THEN "" ELSE f[1]
FieldInt(f) == Value(Digits(f))

\* A float in units of 10^-places, exact for as many digits
FieldFloat(f, places) ==
    LET whole == Digits(f)
        frac == IF Len(whole) < Len(f) /\ f[Len(whole) + 1] = "."
                THEN Digits(SubSeq(f, Len(whole) + 2, Len(f))) ELSE <<>>
    IN  Value(whole) * 10 ^ places + (Value(frac) * 10 ^ places) \div 10 ^ Len(frac)

\* Degrees and minutes in 1/10000 minutes.  The two digits before the point
\* are the minutes; without them there is no number.
Nan == -999999999
FieldCoord(f, dir) ==
    LET dot == First(f, {"."}, 1)
        frac == Digits(SubSeq(f, dot + 1, Len(f)))
        minutes == 60 * Value(SubSeq(f, 1, dot - 3)) + Value(SubSeq(f, dot - 2, dot - 1))
        found == minutes * 10000 + (Value(frac) * 10000) \div 10 ^ Len(frac)
    IN  IF dot > Len(f) \/ dot < 3 THEN Nan
        ELSE IF FieldChar(dir) \in {"S", "W"} THEN -found ELSE found

-----------------------------------------------------------------------------
(* Time: half days and seconds since 1970, for the seconds of a date of this *)
(* century pass 2^31.                                                        *)

HalfDay == 43200
\* A slip: no hundredth year has the day.
IsLeapInMost(y) == (y + 1900) % 4 = 0 /\ (y + 1900) % 100 # 0

IsLeap(y) == (y + 1900) % 4 = 0 /\ ((y + 1900) % 100 # 0 \/ (y + 1900) % 400 = 0)
DaysInMonth == <<31, 28, 31, 30, 31, 30, 31, 31, 30, 31, 30, 31>>
MonthDays(m, y) == IF m = 1 /\ IsLeap(y) THEN 29 ELSE DaysInMonth[m + 1]

\* _nmea_timegm_normalize_unit is a division that rounds down.
Carry(unit, base) == unit \div base
Kept(unit, base) == unit % base

\* _nmea_timegm_normalize_days: days in 1 .. the days of the month
RECURSIVE Normal(_, _, _)
Normal(d, m, y) ==
    IF d <= 0 THEN LET m1 == IF m > 0 THEN m - 1 ELSE 11
                       y1 == IF m > 0 THEN y ELSE y - 1
                   IN  Normal(d + MonthDays(m1, y1), m1, y1)
    ELSE IF d > MonthDays(m, y)
         THEN Normal(d - MonthDays(m, y), (m + 1) % 12, IF m = 11 THEN y + 1 ELSE y)
         ELSE <<d, m, y>>

\* A year before 1970 is taken for 365 times 60 times 60 times 60 seconds,
\* which are 1825 half days.
RECURSIVE HalvesTo(_)
HalvesTo(y) ==
    CASE y = 70 -> 0
      [] y > 70 -> HalvesTo(y - 1) + 730 + (IF IsLeap(y - 1) THEN 2 ELSE 0)
      [] OTHER  -> HalvesTo(y + 1) - 1825 - (IF IsLeap(y) THEN 2 ELSE 0)

RECURSIVE DaysTo(_, _)
DaysTo(m, y) == IF m = 0 THEN 0 ELSE DaysTo(m - 1, y) + MonthDays(m - 1, y)

Timegm(tm) ==
    LET min == tm.min + Carry(tm.sec, 60)
        hour == tm.hour + Carry(min, 60)
        date == Normal(tm.mday + Carry(hour, 24), Kept(tm.mon, 12), tm.year + Carry(tm.mon, 12))
        seconds == 3600 * Kept(hour, 24) + 60 * Kept(min, 60) + Kept(tm.sec, 60)
    IN  [halves |-> HalvesTo(date[3]) + 2 * (DaysTo(date[2], date[3]) + date[1] - 1) + seconds \div HalfDay,
         secs |-> seconds % HalfDay]

\* _nmea_parse_datetime; without a date it is day 0 of January 1900.  A time
\* shorter than six is Gnss!RmcWithoutTime.
TwoDigits(f, from) == 10 * Less(f[from]) + Less(f[from + 1])
Datetime(time, date) ==
    LET dated == Len(date) >= 6
    IN  Timegm([hour |-> TwoDigits(time, 1), min |-> TwoDigits(time, 3), sec |-> TwoDigits(time, 5),
                mday |-> IF dated THEN TwoDigits(date, 1) ELSE 0,
                mon  |-> IF dated THEN TwoDigits(date, 3) - 1 ELSE 0,
                year |-> IF dated THEN TwoDigits(date, 5) + 100 ELSE 0])

-----------------------------------------------------------------------------
(* Sentences: what the parsers make of one, or nothing                       *)

IsSentence(s, type) == SubSeq(s, 4, 6) = type
GGA == <<"G", "G", "A">>
RMC == <<"R", "M", "C">>
TXT == <<"T", "X", "T">>

ParseGga(s) ==
    IF FieldCount(s) < 10 \/ FieldInt(Field(s, 6)) % 256 = 0 THEN <<>>
    ELSE <<[kind |-> "gga", quality |-> FieldInt(Field(s, 6)) % 256, sats |-> FieldInt(Field(s, 7)) % 256,
            hdop |-> FieldFloat(Field(s, 8), 2),
            lat |-> FieldCoord(Field(s, 2), Field(s, 3)), lon |-> FieldCoord(Field(s, 4), Field(s, 5)),
            alt |-> FieldFloat(Field(s, 9), 2)]>>

ParseRmc(s) ==
    IF FieldCount(s) < 10 \/ FieldChar(Field(s, 2)) # "A" THEN <<>>
    ELSE <<[kind |-> "rmc", utc |-> Datetime(Field(s, 1), Field(s, 9))]>>

\* _nmea_parse_txt_field: a key of two characters after the fourth comma; the
\* text may have commas of its own, and what is too long is cut.
Keys == {<<"M", "A">>, <<"I", "C">>, <<"S", "W">>, <<"T", "B">>, <<"M", "O">>}
ParseTxt(s) ==
    LET fourth == {i \in DOMAIN s : s[i] = "," /\ Cardinality(Commas(s, i)) = 4}
        text == IF fourth = {} THEN <<>> ELSE SubSeq(s, (CHOOSE i \in fourth : TRUE) + 1, Len(s))
        value == Before(SubSeq(text, 4, Len(text)), {"*"} \cup LineEnd)
    IN  IF SubSeq(text, 1, 2) \notin Keys \/ Len(text) < 3 \/ text[3] # "=" THEN <<>>
        ELSE <<[kind |-> "txt", key |-> SubSeq(text, 1, 2),
                text |-> SubSeq(value, 1, IF Len(value) < TextMax THEN Len(value) ELSE TextMax - 1)]>>

\* _gnss_dispatch and _gnss_read_product, up to which sentence is wanted
Parse(s) ==
    CASE ~VerifyChecksum(s) -> <<>>
      [] IsSentence(s, GGA) -> ParseGga(s)
      [] IsSentence(s, RMC) -> ParseRmc(s)
      [] IsSentence(s, TXT) -> ParseTxt(s)
      [] OTHER -> <<>>

-----------------------------------------------------------------------------
(* What the receiver says, in the format of NMEA 0183                        *)

RECURSIVE Decimal(_, _)
Decimal(n, width) == IF width = 0 THEN <<>> ELSE Decimal(n \div 10, width - 1) \o <<Printable[(n % 10) + 17]>>
RECURSIVE Joined(_)
Joined(fields) == IF Len(fields) = 1 THEN fields[1] ELSE fields[1] \o <<",">> \o Joined(Tail(fields))

TimeSaid(t) == Decimal(t.hour, 2) \o Decimal(t.min, 2) \o Decimal(t.sec, 2)
DateSaid(d) == IF d.day = 0 THEN <<>> ELSE Decimal(d.day, 2) \o Decimal(d.month, 2) \o Decimal(d.year % 100, 2)
PlaceSaid(p, width) == Decimal(p.deg, width) \o Decimal(p.min, 2) \o <<".">> \o Decimal(p.frac, 4)

Body(m) ==
    CASE m.kind = "rmc" ->
           Joined(<<<<"G", "N">> \o RMC, TimeSaid(m.time), <<m.status>>, <<>>, <<>>, <<>>, <<>>, <<>>, <<>>,
                    DateSaid(m.date), <<>>>>)
      [] m.kind = "gga" ->
           Joined(<<<<"G", "P">> \o GGA, <<>>, PlaceSaid(m.lat, 2), <<m.lat.dir>>, PlaceSaid(m.lon, 3),
                    <<m.lon.dir>>, Decimal(m.quality, 1), Decimal(m.sats, 2),
                    Decimal(m.hdop \div 10, 1) \o <<".">> \o Decimal(m.hdop % 10, 1), Decimal(m.alt, 2)>>)
      [] m.kind = "txt" ->
           Joined(<<<<"G", "P">> \o TXT, <<"0">>, <<"0">>, <<"0">>, m.key \o <<"=">> \o m.text>>)

RECURSIVE Bytes(_)
Bytes(tr) == IF tr = <<>> THEN <<>> ELSE Framed(Body(tr[1])) \o Bytes(Tail(tr))

Without(s, i) == SubSeq(s, 1, i - 1) \o SubSeq(s, i + 1, Len(s))
Damaged(s) ==
    {[s EXCEPT ![i] = c] : i \in DOMAIN s, c \in Bends \ {""}} \cup
    (IF "" \in Bends THEN {Without(s, i) : i \in DOMAIN s} ELSE {})

Init ==
    /\ sent \in Transmissions
    /\ bent \in BOOLEAN /\ (bent => sent \in Noisy)
    /\ wire \in IF bent THEN Damaged(Bytes(sent)) \ {Bytes(sent)} ELSE {Bytes(sent)}
    /\ rx = <<>> /\ line = <<>> /\ began = FALSE
    /\ late = FALSE /\ told = <<>>

-----------------------------------------------------------------------------
(* Reading                                                                   *)

\* _gnss_rx_next asks the uart only when what it brought before is used up.
Fetch ==
    /\ rx = <<>> /\ wire # <<>>
    /\ \E n \in Pieces :
          LET take == IF n < Len(wire) THEN n ELSE Len(wire)
          IN  rx' = SubSeq(wire, 1, take) /\ wire' = SubSeq(wire, take + 1, Len(wire))
    /\ UNCHANGED <<sent, bent, line, began, late, told>>

\* The end of _gnss_read_sentence: a line too short is none, the line end is
\* taken off, and the caller makes of it what it can.  The next line begins anew.
LengthMin == 9
Finish(read) ==
    /\ told' = IF Len(read) < LengthMin THEN told ELSE told \o Parse(Before(read, LineEnd))
    /\ line' = <<>> /\ began' = FALSE

\* One byte: a '$' begins the line again wherever it is, and what comes before
\* the first is passed over.
Byte ==
    /\ rx # <<>> /\ rx' = Tail(rx)
    /\ LET c == Head(rx)
           read == IF c = "$" THEN <<c>> ELSE IF began THEN Append(line, c) ELSE <<>>
       IN  IF read # <<>> /\ (c = "\n" \/ Len(read) = LineMax - 1) THEN Finish(read)
           ELSE line' = read /\ began' = (read # <<>>) /\ UNCHANGED told
    /\ UNCHANGED <<sent, bent, wire, late>>

\* The time of the read is up in the middle of a line.
TimeOut ==
    /\ line # <<>> /\ ~late
    /\ Finish(line) /\ late' = TRUE
    /\ UNCHANGED <<sent, bent, wire, rx>>

Next == Fetch \/ Byte \/ TimeOut
Spec == Init /\ [][Next]_vars

-----------------------------------------------------------------------------
\* Days since 1970 by counting the year from March, as a calendar has it
DayNumber(d) ==
    LET y == IF d.month > 2 THEN d.year ELSE d.year - 1
    IN  365 * y + (y \div 4) - (y \div 100) + (y \div 400)
        + ((153 * ((d.month + 9) % 12) + 2) \div 5) + d.day - 719469

Minutes(p) == (IF p.dir \in {"S", "W"} THEN -1 ELSE 1) * ((60 * p.deg + p.min) * 10000 + p.frac)
Shortened(s, n) == IF Len(s) > n THEN SubSeq(s, 1, n) ELSE s

\* What should be made of what was said.  An RMC that has no date must give a
\* time nobody can take for one of this century.
Means(m, result) ==
    /\ result.kind = m.kind
    /\ m.kind = "gga" =>
          /\ result.quality = m.quality /\ result.sats = m.sats
          /\ result.hdop = 10 * m.hdop /\ result.alt = 100 * m.alt
          /\ result.lat = Minutes(m.lat) /\ result.lon = Minutes(m.lon)
    /\ m.kind = "rmc" => IF m.date.day = 0 THEN result.utc.halves < 0
                         ELSE /\ 2 * DayNumber(m.date) = result.utc.halves - (m.time.hour \div 12)
                              /\ result.utc.secs = 3600 * (m.time.hour % 12) + 60 * m.time.min + m.time.sec
    /\ m.kind = "txt" => result.key = m.key /\ result.text = Shortened(m.text, TextMax - 1)

\* A void RMC and a GGA without a fix say nothing.
Says(m) == (m.kind = "rmc" => m.status = "A") /\ (m.kind = "gga" => m.quality > 0)

\* Whatever pieces the bytes come in, whichever one is bent or lost and
\* wherever the time runs out, what is told was said: the checksum lets no
\* other line pass, and the place, the calendar and the product are read as
\* they were meant.
ToldWasSaid == \A i \in DOMAIN told : \E j \in DOMAIN sent : Says(sent[j]) /\ Means(sent[j], told[i])

\* A transmission that came whole and in time is told whole, in its order.
NothingIsLost ==
    wire = <<>> /\ rx = <<>> /\ ~bent /\ ~late =>
        LET saying == SelectSeq(sent, Says)
        IN  /\ Len(told) = Len(saying)
            /\ \A i \in DOMAIN told : Means(saying[i], told[i])

NmeaIsSound == ToldWasSaid /\ NothingIsLost

=============================================================================
