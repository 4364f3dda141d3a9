------------------------------- MODULE MCDevices -------------------------------
(* The drivers, one in each scenario: they share nothing but the build that *)
(* links them, so one run covers them all.  p to x are the variables of the *)
(* driver the behaviour is about; the ones it has no use for stay Unused.    *)
(* Button, cart and radio have variables of their own, which the theorems    *)
(* about them are of.                                                        *)
EXTENDS Button, Cart, Radio, Sequences

CONSTANT Unused

VARIABLES scenario, p, q, r, s, t, u, v, x

(* Packets that fit and ones that fill the buffer, one pause inside each.   *)
Rx == INSTANCE Receiver WITH
         Lengths <- {3, 5}, FrameMin <- 2, BufferSize <- 5, Splits <- 1, MaxBytes <- 5,
         on <- p, stream <- q, desynced <- r, handed <- s

Profile(type, min, max, offset) ==
  [type |-> type, min |-> min, max |-> max, offset |-> offset]

(* Profiles of both types, one reversed, and packs around every mark.       *)
Gauge == INSTANCE Battery WITH
         Default <- Profile("li-ion", 3000, 4200, 0),
         Profiles <- {Profile("li-ion", 3000, 4200, 0), Profile("lifepo4", 2500, 3650, -500),
                      Profile("li-ion", 3600, 3700, 0), Profile("li-ion", 4200, 3000, 0),
                      Profile("li-ion", 3300, 4150, 100)},
         Packs <- {0, 500, 1900, 3100, 3499, 3501, 3650, 3701, 4100, 4900},
         Drifts <- {300, 350, 700},
         adc <- p, profile <- q, reading <- r, told <- s, verdict <- t

(* A sensor of one quantity and one of two, with readings that outlie.      *)
Bus == INSTANCE Sensors WITH
         Channels <- [sensor \in {"bme280", "ltr390"} |->
                        IF sensor = "bme280" THEN {"temp"} ELSE {"lux", "uvi"}],
         Raw <- [temp |-> {-1, 2, 9}, lux |-> {2, 9}, uvi |-> {2}],
         NumTotal <- 3, NumDiscard <- 1, MinAccepted <- 1, RangeMin <- 0,
         RangeMax <- 10, OutlierPct <- 10, OutlierAbs <- 1,
         bus <- p, rtc <- q, started <- r, result <- s, read <- t

(* A read without limits and one with all, fixes on both sides of each.     *)
Position == INSTANCE Gnss WITH
         Shared <- TRUE, Window <- 2,
         Strategies <- {[quality |-> 0, sats |-> 0, hdop |-> 0],
                        [quality |-> 2, sats |-> 4, hdop |-> 2]},
         Fixes <- [quality : {1, 2}, sats : {3, 4}, hdop : {0, 2, 3}, place : {"in", "nan"}],
         uart <- p, parked <- q, pps <- r, owner <- s, read <- t, passed <- u

Angle(deg, min, frac, dir) == [deg |-> deg, min |-> min, frac |-> frac, dir |-> dir]
On(year, month, day) == [year |-> year, month |-> month, day |-> day]
At(hour, min, sec) == [hour |-> hour, min |-> min, sec |-> sec]
TimeOf(status, time, date) == [kind |-> "rmc", status |-> status, time |-> time, date |-> date]
PlaceOf(quality, lat, lon) ==
  [kind |-> "gga", quality |-> quality, sats |-> 7, hdop |-> 12, alt |-> 45, lat |-> lat, lon |-> lon]
ProductOf(key, text) == [kind |-> "txt", key |-> key, text |-> text]

(* Days at the ends of months, over the leap years this century has.        *)
Days == {On(y, m, d) : y \in {2000, 2004, 2023, 2099}, m \in {1, 2, 3, 12}, d \in {1, 28, 29}}

(* Of these any one byte may be bent or lost.                               *)
Bent == {<<ProductOf(<<"S", "W">>, <<"U", ",", "5">>),
           ProductOf(<<"M", "A">>, <<"C", "A", "S", "I", "C">>)>>,
         <<TimeOf("A", At(12, 0, 59), On(2024, 12, 31))>>}

(* Sentences that say something and that do not, one without its date, in   *)
(* pieces of a few bytes and all at once.                                   *)
Sentences == INSTANCE Nmea WITH
         Transmissions <- Bent \union {<<TimeOf("A", At(12, 0, 59), d)>> : d \in Days} \union
           {<<TimeOf("V", At(0, 0, 0), On(2024, 2, 29)), TimeOf("A", At(23, 59, 59), On(0, 0, 0))>>,
            <<PlaceOf(1, Angle(48, 7, 380, "N"), Angle(11, 31, 0, "W")),
              PlaceOf(0, Angle(0, 0, 0, "N"), Angle(0, 0, 0, "E"))>>,
            <<PlaceOf(6, Angle(0, 0, 1, "S"), Angle(179, 59, 9999, "E")),
              TimeOf("A", At(0, 0, 0), On(2024, 2, 29))>>},
         Noisy <- Bent, Bends <- {"", "$", "*", ",", "7"}, Pieces <- {16, 100},
         LineMax <- 60, FieldsMax <- 16, TextMax <- 5,
         sent <- p, bent <- q, wire <- r, rx <- s, line <- t, began <- u, late <- v, told <- x

ASSUME DevicesAssumption ==
  /\ Rx!ReceiverAssumption
  /\ Gauge!BatteryAssumption /\ Bus!SensorsAssumption
  /\ Position!GnssAssumption /\ Sentences!NmeaAssumption

DriverInit ==
  \/ scenario = "receiver" /\ Rx!Init /\ t = Unused /\ u = Unused /\ v = Unused /\ x = Unused
  \/ scenario = "battery"  /\ Gauge!Init /\ u = Unused /\ v = Unused /\ x = Unused
  \/ scenario = "sensors"  /\ Bus!Init /\ u = Unused /\ v = Unused /\ x = Unused
  \/ scenario = "gnss"     /\ Position!Init /\ v = Unused /\ x = Unused
  \/ scenario = "nmea"     /\ Sentences!Init

Driver ==
  \/ scenario = "receiver" /\ Rx!Next /\ UNCHANGED <<t, u, v, x>>
  \/ scenario = "battery"  /\ Gauge!Next /\ UNCHANGED <<u, v, x>>
  \/ scenario = "sensors"  /\ Bus!Next /\ UNCHANGED <<u, v, x>>
  \/ scenario = "gnss"     /\ Position!Next /\ UNCHANGED <<v, x>>
  \/ scenario = "nmea"     /\ Sentences!Next

(* What a fragment leaves behind is no frame; the battery's self-test names  *)
(* the fault, its curve never runs backwards, and a charge that falls below  *)
(* a mark is told of; the bus is let go, and a value comes of the readings   *)
(* that were taken; a position meets the limits it was asked for, the port   *)
(* is held while it is read, and what the sentences are taken to say is what *)
(* they said.                                                                *)
SensorsAreSound ==
  /\ scenario = "receiver" => Rx!TailsAreDropped
  /\ scenario = "battery" => Gauge!GaugeIsSound
  /\ scenario = "sensors" => Bus!SensorsAreSound
  /\ scenario = "gnss" => Position!GnssIsSound
  /\ scenario = "nmea" => Sentences!NmeaIsSound
=============================================================================
