------------------------------- MODULE Settings -------------------------------
(* The protocol's own settings (iotdata_node_settings.h) as their writers     *)
(* reach them: the command line, which pins what it names for the run, the    *)
(* console (iotdata_node_console_settings.h) and the radio.  SensorNode has   *)
(* what a node does with its station and its windows; here is the whole of    *)
(* the block: the schedule of reports, the keys and the texts they take.      *)
(*                                                                           *)
(* A text is a number or one of a few words.  Numbers are held in Top + 1     *)
(* values where the code has 2^16, and read modulo TextMod where it has 2^32. *)
EXTENDS Naturals, Sequences

CONSTANTS
  Scheduled,    \* a sequence: the system's types that have a report
  Vendor,       \* types that are not the system's
  Seed,         \* IOTDATA_NODE_SETTINGS_DEFAULT_...: the station, the window and
                \* the interval, who reports at the start, who every period
  ReportMax, SettingsWindowMax, SettingsIntervalMax, Broadcast, Top, TextMod,
  Numbers,      \* the numbers that are typed
  Packets,      \* the settings the radio brings, as sequences of pairs
  NoBlock,      \* no block
  HasStore,     \* whether there is a state block to write to
  CommandsMax   \* a bound on the commands of a behaviour

System == {Scheduled[i] : i \in DOMAIN Scheduled}
Subjects == System \union Vendor

Statements(subjects) ==
  [subject : subjects, startup : BOOLEAN, cyclic : BOOLEAN, period : 0 .. Top, onChange : BOOLEAN]

(* The pairs of a packet are numbers of 16 bits and statements, of anybody.  *)
SettingsAssumption ==
  /\ Scheduled \in Seq(System) /\ Len(Scheduled) <= ReportMax
  /\ \A i, j \in DOMAIN Scheduled : Scheduled[i] = Scheduled[j] => i = j
  /\ {ReportMax, SettingsWindowMax, SettingsIntervalMax, Broadcast, Top, TextMod} \subseteq Nat
  /\ Top < TextMod /\ Broadcast <= Top /\ SettingsWindowMax <= Top /\ SettingsIntervalMax <= Top
  /\ Seed.station \in Nat \ {0} /\ Seed.station < Broadcast
  /\ Seed.window \in 1 .. SettingsWindowMax /\ Seed.interval \in 0 .. SettingsIntervalMax
  /\ Seed.period \in 0 .. Top
  /\ Numbers \subseteq Nat
  /\ \A kv \in Packets :
        /\ Len(kv) \in Nat
        /\ \A i \in 1 .. Len(kv) :
              /\ kv[i].key = "station" => kv[i].nums[1] \in 0 .. Top
              /\ kv[i].key = "receive" => \A k \in 1 .. 3 : kv[i].nums[k] \in 0 .. Top
              /\ kv[i].key = "report" => kv[i].record \in Statements({kv[i].record.subject})

ASSUME SettingsGiven == SettingsAssumption

VARIABLES block,     \* the block in force
          stored,    \* the block in the state file, or NoBlock
          pins,      \* the scalars and the subjects that are pinned
          phase,     \* "starting" while arguments are read, then "running"
          asked,     \* the command just done: its key, its text, whether it took
          commands   \* how many there were

settingsVars == <<block, stored, pins, phase, asked, commands>>

Scalars == {"station", "window-s", "interval-m", "offset-m"}
Halves  == {"at-startup", "period-s"}
Keys == {<<k>> : k \in Scalars} \union {<<t, h>> : t \in System, h \in Halves}
IsScalar(key) == Len(key) = 1

Say(word) == [word |-> word, n |-> 0]
Number(n) == [word |-> "number", n |-> n]
Texts == {Say(w) : w \in {"on", "off", "never", "junk"}} \union {Number(n) : n \in Numbers}

NoCommand == [key |-> <<>>, text |-> Say("junk"), took |-> FALSE]

Stated(t, startup, period) ==
  [subject |-> t, startup |-> startup, cyclic |-> period > 0, period |-> period, onChange |-> FALSE]

(* Every type with a report has a record from the start. *)
Default == [station |-> Seed.station, window |-> Seed.window, interval |-> Seed.interval, offset |-> 0,
            report |-> [i \in DOMAIN Scheduled |->
                          LET r == Scheduled[i]
                          IN  Stated(r, r \in Seed.startup, IF r = Seed.status THEN Seed.period ELSE 0)]]
-----------------------------------------------------------------------------
(* The schedule.                                                            *)

Found(s, t) == \E i \in DOMAIN s.report : s.report[i].subject = t
Place(s, t) == CHOOSE i \in DOMAIN s.report :
                 s.report[i].subject = t /\ \A j \in 1 .. i - 1 : s.report[j].subject # t

(* A subject's record is replaced or, while there is room, added.           *)
Settable(s, r) == r.subject \in Subjects /\ (Found(s, r.subject) \/ Len(s.report) < ReportMax)
ReportSet(s, r) ==
  IF Found(s, r.subject) THEN [s EXCEPT !.report[Place(s, r.subject)] = r]
                             ELSE [s EXCEPT !.report = Append(@, r)]

\* a slip
CurrentAnew(s, t) == Stated(t, FALSE, 0)
Current(s, t) == IF Found(s, t) THEN s.report[Place(s, t)] ELSE Stated(t, FALSE, 0)

AtStartup(s, t) == Found(s, t) /\ Current(s, t).startup
PeriodS(s, t) == IF Found(s, t) /\ Current(s, t).cyclic THEN Current(s, t).period ELSE 0

(* What each scalar may be.                                                 *)
IntervalIsValid(n) == n <= SettingsIntervalMax
WindowIsValid(n) == 0 < n /\ n <= SettingsWindowMax
InReach(n) == 0 < n /\ n < Broadcast
ScalarIsValid(k, n) == CASE k = "station" -> InReach(n)
                         [] k = "window-s" -> WindowIsValid(n)
                         [] OTHER -> IntervalIsValid(n)

Scalar(s, k) == CASE k = "station" -> s.station
                  [] k = "window-s" -> s.window
                  [] k = "interval-m" -> s.interval
                  [] k = "offset-m" -> s.offset
ScalarSet(s, k, n) == CASE k = "station" -> [s EXCEPT !.station = n]
                        [] k = "window-s" -> [s EXCEPT !.window = n]
                        [] k = "interval-m" -> [s EXCEPT !.interval = n]
                        [] k = "offset-m" -> [s EXCEPT !.offset = n]
-----------------------------------------------------------------------------
(* Texts.                                                                   *)

(* Digits are added up in 32 bits, and what runs over is lost. *)
A2u(text) == text.n % TextMod
IsNumber(text) == text.word = "number" /\ A2u(text) <= Top

(* "1" and "0" are a yes and a no too. *)
Yes(text) == text.word = "on" \/ text = Number(1)
No(text)  == text.word = "off" \/ text = Number(0)

IsPinned(key) == Head(key) \in pins
Pin(key) == pins \union {Head(key)}

Startup(r, text) == [r EXCEPT !.startup = Yes(text)]
Cadence(r, n) == [r EXCEPT !.period = n, !.cyclic = n > 0]

(* Never is a value, and reads as one. *)
KeyRead(s, key) ==
  IF IsScalar(key) THEN Number(Scalar(s, key[1]))
  ELSE LET r == Current(s, key[1])
       IN  CASE key[2] = "at-startup" -> Say(IF r.startup THEN "on" ELSE "off")
             [] key[2] = "period-s" -> IF r.cyclic THEN Number(r.period) ELSE Say("never")

(* Whether a text may be written to a key, and what is written.  A change of *)
(* one half of a record keeps the other.                                    *)
Writable(s, key, text) ==
  CASE IsScalar(key) -> IsNumber(text) /\ ScalarIsValid(key[1], A2u(text))
    [] ~IsScalar(key) /\ key[2] = "at-startup" ->
         (Yes(text) \/ No(text)) /\ Settable(s, Current(s, key[1]))
    [] ~IsScalar(key) /\ key[2] = "period-s" ->
         (text.word \in {"never", "off"} \/ IsNumber(text)) /\ Settable(s, Current(s, key[1]))
KeyWrite(s, key, text) ==
  CASE IsScalar(key) -> ScalarSet(s, key[1], A2u(text))
    [] ~IsScalar(key) /\ key[2] = "at-startup" -> ReportSet(s, Startup(Current(s, key[1]), text))
    [] ~IsScalar(key) /\ key[2] = "period-s" ->
         ReportSet(s, Cadence(Current(s, key[1]), IF text.word = "number" THEN A2u(text) ELSE 0))
-----------------------------------------------------------------------------
(* The wire: a station, a record, or what is received when.                 *)

Pair(key, nums, record) == [key |-> key, nums |-> nums, record |-> record]
NoRecord == Stated("none", FALSE, 0)

Pack(s) ==
  <<Pair("station", <<s.station>>, NoRecord)>>
    \o [i \in DOMAIN s.report |-> Pair("report", <<>>, s.report[i])]
    \o <<Pair("receive", <<s.window, s.interval, s.offset>>, NoRecord)>>

Accepted(s, k, n) == IF ScalarIsValid(k, n) /\ ~IsPinned(<<k>>) THEN ScalarSet(s, k, n) ELSE s

(* Each field on its own: a value that is refused costs the others nothing. *)
ApplyPair(s, pair) ==
  CASE pair.key = "station" -> Accepted(s, "station", pair.nums[1])
    [] pair.key = "report" ->
         IF ~IsPinned(<<pair.record.subject>>) /\ Settable(s, pair.record)
         THEN ReportSet(s, pair.record) ELSE s
    [] pair.key = "receive" ->
         Accepted(Accepted(Accepted(s, "window-s", pair.nums[1]), "interval-m", pair.nums[2]),
                  "offset-m", pair.nums[3])
    [] OTHER -> s
ApplyPairs(s, kv) ==
  LET after[n \in 0 .. Len(kv)] == IF n = 0 THEN s ELSE ApplyPair(after[n - 1], kv[n])
  IN  after[Len(kv)]
-----------------------------------------------------------------------------
(* Defaults, and over them what the state block holds. *)
LoadedBlock == IF stored = NoBlock THEN Default ELSE stored

(* Of an earlier run there may be something left. *)
SettingsInit ==
  /\ pins = {}
  /\ stored = NoBlock \/ \E kv \in Packets : HasStore /\ stored = ApplyPairs(Default, kv)
  /\ block = LoadedBlock
  /\ phase = "starting" /\ asked = NoCommand /\ commands = 0

OneMore == commands < CommandsMax /\ commands' = commands + 1

(* A write is flushed at once, which may fail. *)
CommitBlock(s) == stored' \in {stored} \union (IF HasStore THEN {s} ELSE {})

(* The application hands a key on its command line over, and pins it.       *)
Argument(key, text) ==
  /\ phase = "starting" /\ OneMore
  /\ Writable(block, key, text)
  /\ block' = KeyWrite(block, key, text) /\ pins' = Pin(key)
  /\ asked' = [key |-> key, text |-> text, took |-> TRUE]
  /\ UNCHANGED <<stored, phase>>

Run == /\ phase = "starting" /\ phase' = "running" /\ asked' = NoCommand
       /\ UNCHANGED <<block, stored, pins, commands>>

(* The console offers all but the offset, and knows one word for never.     *)
Offered(key, text) == key # <<"offset-m">> /\ (~IsScalar(key) => text.word # "never")
Console(key, text) ==
  LET took == Offered(key, text) /\ ~IsPinned(key) /\ Writable(block, key, text)
  IN  /\ phase = "running" /\ OneMore
      /\ asked' = [key |-> key, text |-> text, took |-> took]
      /\ block' = IF took THEN KeyWrite(block, key, text) ELSE block
      /\ IF took THEN CommitBlock(block') ELSE stored' = stored
      /\ UNCHANGED <<pins, phase>>

OverTheAir(kv) ==
  /\ phase = "running" /\ OneMore /\ asked' = NoCommand
  /\ block' = ApplyPairs(block, kv)
  /\ IF block' # block THEN CommitBlock(block') ELSE stored' = stored
  /\ UNCHANGED <<pins, phase>>

SettingsRestart ==
  /\ phase = "running" /\ phase' = "starting"
  /\ block' = LoadedBlock
  /\ pins' = {} /\ asked' = NoCommand /\ UNCHANGED <<stored, commands>>

SettingsNext ==
  \/ \E key \in Keys, text \in Texts : Argument(key, text) \/ Console(key, text)
  \/ \E kv \in Packets : OverTheAir(kv)
  \/ Run \/ SettingsRestart
-----------------------------------------------------------------------------
(* However it was written, the block is in order: one record for a subject,  *)
(* every seeded one still there, and nothing that would put the node out of  *)
(* reach or leave it awake.                                                 *)
BlockInOrder(s) ==
  /\ \A k \in Scalars : ScalarIsValid(k, Scalar(s, k))
  /\ \A i, j \in DOMAIN s.report : s.report[i].subject = s.report[j].subject => i = j
  /\ System \subseteq {s.report[i].subject : i \in DOMAIN s.report}
  /\ {s.report[i].subject : i \in DOMAIN s.report} \subseteq Subjects
  /\ Len(s.report) <= ReportMax

Meaning(s, key) ==
  CASE IsScalar(key) -> Scalar(s, key[1])
    [] ~IsScalar(key) /\ key[2] = "at-startup" -> IF AtStartup(s, key[1]) THEN 1 ELSE 0
    [] ~IsScalar(key) /\ key[2] = "period-s" -> PeriodS(s, key[1])

(* What was accepted is in force as it was stated, if it was stated in a     *)
(* number that 32 bits hold.                                                *)
AcceptedIsStated ==
  asked.took /\ asked.text.n < TextMod =>
    Meaning(block, asked.key) =
      IF asked.text.word = "on" THEN 1
      ELSE IF asked.text.word \in {"off", "never"} THEN 0 ELSE asked.text.n

(* Of a node that runs: what a key reads as may be written back, and means   *)
(* the same.                                                                *)
KeysReadBack == phase = "running" =>
  \A key \in Keys :
    LET text == KeyRead(block, key)
    IN  /\ Writable(block, key, text)
        /\ Meaning(KeyWrite(block, key, text), key) = Meaning(block, key)

(* And what the node reports of its settings makes another node the same.   *)
ReportIsEverything == phase = "running" /\ pins = {} => ApplyPairs(Default, Pack(block)) = block

(* What the command line named stays as it is for the run, and one key's     *)
(* write is no other key's: the halves of a record neither.                 *)
OthersStay ==
  /\ phase = "running" /\ phase' = "running" =>
       \A key \in Keys : IsPinned(key) => Meaning(block', key) = Meaning(block, key)
  /\ commands' # commands /\ asked'.took =>
       \A key \in Keys \ {asked'.key} : Meaning(block', key) = Meaning(block, key)

SettingsSpec == SettingsInit /\ [][SettingsNext]_settingsVars

(* The settings are in order whoever wrote them, read back as they were       *)
(* stated, and what the command line pinned, and the rest of a record, stays. *)
SettingsAreSound ==
  /\ [](BlockInOrder(block) /\ AcceptedIsStated /\ KeysReadBack /\ ReportIsEverything)
  /\ [][OthersStay]_settingsVars
=============================================================================
