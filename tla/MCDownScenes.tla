---------------------------- MODULE MCDownScenes -----------------------------
(* The down table in three scenarios that one run covers: more stations     *)
(* than entries, more frames than slots, and windows of every kind for      *)
(* frames of two sizes.  In one more, what decides whom a window is granted *)
(* and heard: the filter and the stations known.                            *)
EXTENDS Stations, Scans, FiniteSetTheorems, TLC, TLAPS

CONSTANTS Handles, BUFFER_NONE, Locals, Stations, One, Broadcast

VARIABLES scenario, refs, bytes, local, station, downLast, window, slot, sent,
          count, scanLast, now, heard, given

Advert(w, d, a) == [window |-> w, delay |-> d, accepts |-> a]

JustOpen == {Advert(1, 0, TRUE)}
AllKinds == JustOpen \union {Advert(2, 0, TRUE), Advert(2, 1, TRUE), Advert(1, 0, FALSE)}

Down(s, n) == [to |-> s, size |-> 1, n |-> n]

OneEach == {Down(s, 1) : s \in Stations}
OfOne   == {Down(s, n) : s \in One, n \in 1 .. 3}
OfSizes == {[to |-> Broadcast, size |-> z, n |-> 1] : z \in 1 .. 2}
             \union {[to |-> s, size |-> 2, n |-> 1] : s \in One}

(* Three stations, one frame for each, two entries of one slot.             *)
Many == INSTANCE DownTableProofs WITH
          LastEntry <- 2, Depth <- 1, SentDepth <- 1,
          Frames <- OneEach, Adverts <- JustOpen,
          Ttl <- 1, TtlBcast <- 0, Repeat <- 0, Scan <- 0,
          Wrap <- 8, Start <- 7, LastArrival <- 8, Horizon <- 8

(* One station, three frames for it, two slots, and a scan interval.        *)
Deep == INSTANCE DownTableProofs WITH
          Stations <- One, LastEntry <- 1, Depth <- 2, SentDepth <- 1,
          Frames <- OfOne, Adverts <- JustOpen,
          Ttl <- 1, TtlBcast <- 0, Repeat <- 0, Scan <- 2,
          Wrap <- 8, Start <- 7, LastArrival <- 9, Horizon <- 9

(* One station, unicasts and broadcasts of two sizes, windows that are wide *)
(* or narrow, open later, or refuse; all the frames come at first.          *)
Wide == INSTANCE DownTableProofs WITH
          Stations <- One, LastEntry <- 1, Depth <- 2, SentDepth <- 2,
          Frames <- OfSizes, Adverts <- AllKinds,
          Ttl <- 1, TtlBcast <- 0, Repeat <- 1, Scan <- 0,
          Wrap <- 8, Start <- 7, LastArrival <- 7, Horizon <- 8

ASSUME ScenesAssumption == Many!DownAssumption /\ Deep!DownAssumption /\ Wide!DownAssumption

ASSUME StationsFit == StationsAssumption

(* There is a station in the scenarios of one station, and no other.        *)
ASSUME OneAssumption == \E s \in One : One = {s}

downVars == <<scenario, refs, bytes, local, station, downLast, window, slot, sent,
              count, scanLast, now, heard, given>>

ScenesInit ==
  /\ \/ scenario = "many" /\ Many!Init
     \/ scenario = "deep" /\ Deep!Init
     \/ scenario = "wide" /\ Wide!Init
     \/ scenario = "stations" /\ Many!Init
  /\ Init /\ (scenario # "stations" => start = 0)

ScenesNext ==
  \/ /\ \/ scenario = "many" /\ Many!Next
        \/ scenario = "deep" /\ Deep!Next
        \/ scenario = "wide" /\ Wide!Next
     /\ UNCHANGED <<vars, scenario>>
  \/ scenario = "stations" /\ Next /\ UNCHANGED downVars

ScenesSpec == ScenesInit /\ [][ScenesNext]_<<downVars, vars>>

Symmetry == Permutations(Stations) \union Permutations(Handles)

(* The first scenario alone.                                                *)
ManySpec == (ScenesInit /\ scenario = "many") /\ [][ScenesNext]_<<downVars, vars>>

(* An entry's window is that of its station: "have we ever snooped a RECEIVE *)
(* from it: whether we can deliver at all".                                  *)
WindowIsItsOwn == scenario = "many" => Many!WindowIsItsOwn

Each(many, deep, wide) ==
  /\ scenario = "many" => many
  /\ scenario = "deep" => deep
  /\ scenario = "wide" => wide

(* The references are the slots' and the callers', what was sent lately is  *)
(* remembered, and only that, and a slot has the frame it says it has.      *)
TableExact ==
  Each(Many!TypeOK /\ Many!RefsExact /\ Many!MemoryExact /\ Many!SlotsCarryTheirFrame,
       Deep!TypeOK /\ Deep!RefsExact /\ Deep!MemoryExact /\ Deep!SlotsCarryTheirFrame,
       Wide!TypeOK /\ Wide!RefsExact /\ Wide!MemoryExact /\ Wide!SlotsCarryTheirFrame)

(* What may end the holding of a frame; and which frame a window is answered *)
(* with, where there is a choice.                                           *)
FramesAreServed ==
  /\ [][scenario = "many" => Many!FrameHeldUntil]_downVars
  /\ [][scenario = "deep" => Deep!FrameHeldUntil /\ Deep!WindowAnswered]_downVars
  /\ [][scenario = "wide" => Wide!WindowAnswered]_downVars

-----------------------------------------------------------------------------
(* The invariant that DownTableProofs proves inductive, in each scenario.   *)
ScenesInv == Each(Many!TableInv, Deep!TableInv, Wide!TableInv)

(* Each starts from its empty table.                                        *)
LEMMA ScenesStart == ScenesInit => ScenesInv
<1> SUFFICES ASSUME ScenesInit PROVE ScenesInv
  OBVIOUS
<1>1. /\ scenario = "many" => Many!Init
      /\ scenario = "deep" => Deep!Init
      /\ scenario = "wide" => Wide!Init
  BY DEF ScenesInit
<1>2. /\ Many!Init => Many!TableInv
      /\ Deep!Init => Deep!TableInv
      /\ Wide!Init => Wide!TableInv
  BY ScenesAssumption, Many!TableInit, Deep!TableInit, Wide!TableInit
<1>3. QED
  BY <1>1, <1>2 DEF ScenesInv, Each

(* A step is one of the table of its scenario, or none of the table's.      *)
LEMMA ScenesStep == ScenesInv /\ [ScenesNext]_<<downVars, vars>> => ScenesInv'
<1> SUFFICES ASSUME ScenesInv, [ScenesNext]_<<downVars, vars>> PROVE ScenesInv'
  OBVIOUS
<1>1. scenario' = scenario
  BY DEF ScenesNext, downVars
<1>2. /\ scenario = "many" => Many!TableInv /\ [Many!Next]_(Many!vars)
      /\ scenario = "deep" => Deep!TableInv /\ [Deep!Next]_(Deep!vars)
      /\ scenario = "wide" => Wide!TableInv /\ [Wide!Next]_(Wide!vars)
  BY DEF ScenesInv, Each, ScenesNext, downVars, Many!vars, Deep!vars, Wide!vars,
         Many!pool, Deep!pool, Wide!pool, Many!table, Deep!table, Wide!table
<1>3. /\ Many!TableInv /\ [Many!Next]_(Many!vars) => Many!TableInv'
      /\ Deep!TableInv /\ [Deep!Next]_(Deep!vars) => Deep!TableInv'
      /\ Wide!TableInv /\ [Wide!Next]_(Wide!vars) => Wide!TableInv'
  BY ScenesAssumption, Many!NextKeeps, Deep!NextKeeps, Wide!NextKeeps
<1>4. QED
  BY <1>1, <1>2, <1>3 DEF ScenesInv, Each

(* In every scenario the table is exact, whatever the buffers, the callers   *)
(* and the stations: through arrivals, evictions, deliveries, expiry and     *)
(* clear (iotdata_node_down.h) no buffer is lost or freed under a slot, a    *)
(* slot has the frame it remembers, and a frame is remembered once.          *)
THEOREM TableStaysExact == ScenesSpec => []TableExact
<1>1. ScenesInv => TableExact
  BY DEF ScenesInv, TableExact, Each, Many!TableInv, Deep!TableInv, Wide!TableInv
<1>2. QED
  BY <1>1, ScenesStart, ScenesStep, PTL DEF ScenesSpec

-----------------------------------------------------------------------------
(* No scenario lasts half a period of the clock.                            *)
LEMMA ScenesAreShort == Many!WithinHalf /\ Deep!WithinHalf /\ Wide!WithinHalf
BY DEF Many!WithinHalf, Deep!WithinHalf, Wide!WithinHalf

(* The one station has its entry, the two broadcasts have their records.    *)
LEMMA ScenesAreRoomy == Deep!Roomy /\ Wide!Roomy
<1>1. Broadcast \notin One
  BY ScenesAssumption DEF Deep!DownAssumption
<1>2. Deep!Bcast = {}
  BY <1>1 DEF Deep!Bcast, OfOne, Down
<1> DEFINE a == [to |-> Broadcast, size |-> 1, n |-> 1]
           b == [to |-> Broadcast, size |-> 2, n |-> 1]
<1>3. Wide!Bcast \subseteq {a, b}
  <2>1. \A f \in OfSizes : f.to = Broadcast =>
          \E z \in 1 .. 2 : f = [to |-> Broadcast, size |-> z, n |-> 1]
    BY <1>1 DEF OfSizes
  <2>2. \A z \in 1 .. 2 : z = 1 \/ z = 2
    OBVIOUS
  <2>3. QED
    BY <2>1, <2>2 DEF Wide!Bcast
<1> HIDE DEF a, b
<1>4. /\ \A rx \in JustOpen : rx.delay < 8 /\ rx.window + rx.delay <= 8
      /\ \A rx \in AllKinds : rx.delay < 8 /\ rx.window + rx.delay <= 8
  BY DEF AllKinds, JustOpen, Advert
<1>5. PICK s \in One : One = {s}
  BY OneAssumption
<1>6. Deep!Roomy
  BY <1>2, <1>4, <1>5, ScenesAssumption, Deep!RoomForOne
<1>7. Wide!Roomy
  <2>1. Wide!DownAssumption /\ 2 >= 2
    BY ScenesAssumption
  <2>2. \A rx \in AllKinds : rx.delay < 8 /\ rx.window + rx.delay <= 8
    BY <1>4
  <2>3. QED
    BY <1>3, <1>5, <2>1, <2>2, Wide!RoomForTwo, Zenon
<1>8. QED
  BY <1>6, <1>7

(* With the times of what is held, and what the records tell.               *)
ServedInv ==
  /\ ScenesInv
  /\ Each(Many!TimesInv, Deep!TimesInv /\ Deep!SentInv, Wide!TimesInv /\ Wide!SentInv)

(* At the start nothing is held and nothing was given.                      *)
LEMMA ServedStart == ScenesInit => ServedInv
<1> SUFFICES ASSUME ScenesInit PROVE ServedInv
  OBVIOUS
<1>1. /\ scenario = "many" => Many!Init
      /\ scenario = "deep" => Deep!Init
      /\ scenario = "wide" => Wide!Init
  BY DEF ScenesInit
<1>2. /\ Many!Init => Many!TimesInv
      /\ Deep!Init => Deep!TimesInv /\ Deep!SentInv
      /\ Wide!Init => Wide!TimesInv /\ Wide!SentInv
  BY ScenesAssumption, ScenesAreRoomy, Many!TimesStart, Deep!TimesStart, Wide!TimesStart,
     Deep!SentStart, Wide!SentStart
<1>3. QED
  BY <1>1, <1>2, ScenesStart DEF ServedInv, Each

(* The step of a scenario, and of its table.                                *)
LEMMA TheScene ==
  ASSUME ServedInv, [ScenesNext]_<<downVars, vars>>
  PROVE  /\ scenario' = scenario
         /\ scenario = "many" => Many!TableInv /\ Many!TimesInv /\ [Many!Next]_(Many!vars)
         /\ scenario = "deep" => Deep!TableInv /\ Deep!TimesInv /\ Deep!SentInv
                                /\ [Deep!Next]_(Deep!vars)
         /\ scenario = "wide" => Wide!TableInv /\ Wide!TimesInv /\ Wide!SentInv
                                /\ [Wide!Next]_(Wide!vars)
BY DEF ServedInv, ScenesInv, Each, ScenesNext, downVars, Many!vars, Deep!vars, Wide!vars,
       Many!pool, Deep!pool, Wide!pool, Many!table, Deep!table, Wide!table

(* Every step of a scenario keeps them.                                     *)
LEMMA ServedStep == ServedInv /\ [ScenesNext]_<<downVars, vars>> => ServedInv'
<1> SUFFICES ASSUME ServedInv, [ScenesNext]_<<downVars, vars>> PROVE ServedInv'
  OBVIOUS
<1>1. scenario = "many" => Many!TimesInv'
  BY TheScene, ScenesAssumption, Many!TimesKept
<1>2. scenario = "deep" => Deep!TimesInv' /\ Deep!SentInv'
  BY TheScene, ScenesAssumption, ScenesAreShort, ScenesAreRoomy, Deep!TimesKept, Deep!SentKept
<1>3. scenario = "wide" => Wide!TimesInv' /\ Wide!SentInv'
  BY TheScene, ScenesAssumption, ScenesAreShort, ScenesAreRoomy, Wide!TimesKept, Wide!SentKept
<1>4. ScenesInv'
  BY ScenesStep DEF ServedInv
<1>5. QED
  BY <1>1, <1>2, <1>3, <1>4, TheScene DEF ServedInv, Each

(* In the scenarios no frame leaves the table for another reason than the    *)
(* five there are, and a window is answered with the oldest frame on offer   *)
(* (iotdata_node_down_window), whatever the buffers and the callers, and in  *)
(* the first whatever the stations.                                          *)
THEOREM FramesStayServed == ScenesSpec => FramesAreServed
<1>1. ServedInv /\ [ScenesNext]_<<downVars, vars>> =>
        [scenario = "many" => Many!FrameHeldUntil]_downVars
  BY TheScene, ScenesAssumption, ScenesAreShort, Many!NextForGood
<1>2. ServedInv /\ [ScenesNext]_<<downVars, vars>> =>
        [scenario = "deep" => Deep!FrameHeldUntil /\ Deep!WindowAnswered]_downVars
  <2>1. ASSUME ServedInv, [ScenesNext]_<<downVars, vars>>, scenario = "deep"
        PROVE  Deep!FrameHeldUntil /\ Deep!WindowAnswered
    <3>1. Deep!FrameHeldUntil
      BY <2>1, TheScene, ScenesAssumption, ScenesAreShort, Deep!NextForGood
    <3>2. Deep!WindowAnswered
      BY <2>1, TheScene, ScenesAssumption, ScenesAreShort, ScenesAreRoomy, Deep!WindowAnsweredAlways
    <3>3. QED
      BY <3>1, <3>2
  <2>2. QED
    BY <2>1
<1>3. ServedInv /\ [ScenesNext]_<<downVars, vars>> =>
        [scenario = "wide" => Wide!WindowAnswered]_downVars
  BY TheScene, ScenesAssumption, ScenesAreShort, ScenesAreRoomy, Wide!WindowAnsweredAlways
<1>4. QED
  BY <1>1, <1>2, <1>3, ServedStart, ServedStep, PTL DEF ScenesSpec, FramesAreServed

-----------------------------------------------------------------------------
Entries == [station : Station, action : Action, source : Source]

(* What a list of entries holds, and that it holds one for a station.       *)
Held(list) == {list[i] : i \in 1 .. Len(list)}
OneEntryEach(list) ==
  \A i, j \in 1 .. Len(list) : list[i].station = list[j].station => i = j

(* The filter holds the rules, and one entry for a station.                 *)
FilterInv ==
  /\ filter \in Seq(Entries) /\ Len(filter) <= FilterMax
  /\ OneEntryEach(filter)
  /\ DOMAIN rules \subseteq Station /\ rules = [t \in DOMAIN rules |-> rules[t]]
  /\ \A t \in DOMAIN rules : rules[t] \in Held(filter) /\ rules[t].station = t
  /\ \A e \in Held(filter) : e.station \in DOMAIN rules /\ e = rules[e.station]

(* A row's clock is the counter when its station was last heard, and until  *)
(* the counter wraps who has no row was heard no later than who has one.    *)
RowsInv ==
  /\ table \in Seq([station : Station, kind : Kind, last : 0 .. Ticks - 1])
  /\ Len(table) <= StationsMax /\ OneRowEach
  /\ start \in {0, Ticks - 2} /\ since \in Nat
  /\ DOMAIN lastHeard \subseteq Station
  /\ lastHeard = [t \in DOMAIN lastHeard |-> lastHeard[t]]
  /\ \A t \in DOMAIN lastHeard : lastHeard[t] \in 0 .. since
  /\ \A i \in 1 .. Len(table) :
       /\ table[i].station \in DOMAIN lastHeard
       /\ table[i].last = (start + lastHeard[table[i].station]) % Ticks
  /\ RecentAreKept

StationsInv == FilterInv /\ RowsInv

(* A sequence has its places, and what it has at each.                      *)
LEMMA Places ==
  ASSUME NEW S, NEW list \in Seq(S)
  PROVE  /\ Len(list) \in Nat /\ DOMAIN list = 1 .. Len(list)
         /\ list = [i \in 1 .. Len(list) |-> list[i]]
         /\ \A i \in 1 .. Len(list) : list[i] \in S
OBVIOUS

(* Closing a hole takes one entry away and leaves the others, once each, and *)
(* what is before the hole in its place.                                    *)
LEMMA HoleCloses ==
  ASSUME NEW list \in Seq(Entries), OneEntryEach(list), NEW i \in 1 .. Len(list)
  PROVE  /\ Without(list, i) \in Seq(Entries)
         /\ Len(Without(list, i)) = Len(list) - 1
         /\ OneEntryEach(Without(list, i))
         /\ Held(Without(list, i)) = Held(list) \ {list[i]}
         /\ \A j \in 1 .. i - 1 : Without(list, i)[j] = list[j]
<1> DEFINE n == Len(list)
           w == Without(list, i)
           from == [j \in 1 .. n - 1 |-> IF j = i THEN n ELSE j]
<1>1. n \in Nat /\ n > 0 /\ n - 1 \in Nat /\ i \in Nat /\ \A j \in 1 .. n : list[j] \in Entries
  BY Places
<1>2. \A j \in 1 .. n - 1 : from[j] \in 1 .. n /\ from[j] # i /\ w[j] = list[from[j]]
  BY <1>1 DEF Without
<1>3. \A j, k \in 1 .. n - 1 : from[j] = from[k] => j = k
  BY <1>1
<1>4. w \in Seq(Entries) /\ Len(w) = n - 1
  <2>1. w = [j \in 1 .. n - 1 |-> w[j]]
    BY DEF Without
  <2>2. \A j \in 1 .. n - 1 : w[j] \in Entries
    BY <1>1, <1>2
  <2> HIDE DEF w
  <2>3. w \in [1 .. n - 1 -> Entries]
    BY <2>1, <2>2
  <2> HIDE DEF n
  <2>4. QED
    BY <1>1, <2>3
<1>5. OneEntryEach(w)
  <2> SUFFICES ASSUME NEW j \in 1 .. n - 1, NEW k \in 1 .. n - 1,
                      w[j].station = w[k].station
               PROVE  j = k
    BY <1>4 DEF OneEntryEach
  <2>1. from[j] = from[k]
    BY <1>2 DEF OneEntryEach
  <2>2. QED
    BY <1>3, <2>1
<1>6. Held(w) = Held(list) \ {list[i]}
  <2> HIDE DEF w, from
  <2>1. ASSUME NEW j \in 1 .. n - 1 PROVE w[j] \in Held(list) \ {list[i]}
    <3>1. w[j] = list[from[j]] /\ from[j] \in 1 .. n /\ from[j] # i
      BY <1>2
    <3>2. list[from[j]] # list[i]
      BY <3>1 DEF OneEntryEach
    <3>3. QED
      BY <3>1, <3>2 DEF Held
  <2>2. ASSUME NEW k \in 1 .. n, k # i PROVE \E j \in 1 .. n - 1 : w[j] = list[k]
    <3>1. \E j \in 1 .. n - 1 : from[j] = k
      <4>1. CASE k = n
        BY <1>1, <2>2, <4>1 DEF from
      <4>2. CASE k # n
        BY <1>1, <2>2, <4>2 DEF from
      <4>3. QED
        BY <4>1, <4>2
    <3>2. QED
      BY <1>2, <3>1
  <2>3. \A e \in Held(list) \ {list[i]} : \E k \in 1 .. n : k # i /\ e = list[k]
    BY DEF Held
  <2>4. Held(w) \subseteq Held(list) \ {list[i]}
    BY <1>4, <2>1 DEF Held
  <2>5. ASSUME NEW e \in Held(list) \ {list[i]} PROVE e \in Held(w)
    <3>1. PICK k \in 1 .. n : k # i /\ e = list[k]
      BY <2>3
    <3>2. \E j \in 1 .. n - 1 : w[j] = list[k]
      BY <2>2, <3>1
    <3>3. QED
      BY <1>4, <3>1, <3>2 DEF Held
  <2>6. QED
    BY <2>4, <2>5
<1>7. \A j \in 1 .. i - 1 : w[j] = list[j]
  BY <1>1 DEF Without
<1>8. QED
  BY <1>4, <1>5, <1>6, <1>7

(* An entry changed in its place, for the same station.                     *)
LEMMA EntryChanges ==
  ASSUME NEW list \in Seq(Entries), OneEntryEach(list), NEW i \in 1 .. Len(list),
         NEW e \in Entries, e.station = list[i].station,
         NEW new, new = [list EXCEPT ![i] = e]
  PROVE  /\ new \in Seq(Entries) /\ Len(new) = Len(list) /\ OneEntryEach(new)
         /\ Held(new) = (Held(list) \ {list[i]}) \cup {e}
<1>1. new \in Seq(Entries) /\ Len(new) = Len(list)
  OBVIOUS
<1>2. \A j \in 1 .. Len(list) : new[j] = IF j = i THEN e ELSE list[j]
  BY Places
<1>3. OneEntryEach(new)
  BY <1>1, <1>2 DEF OneEntryEach
<1>4. Held(new) \subseteq (Held(list) \ {list[i]}) \cup {e}
  BY <1>1, <1>2 DEF Held, OneEntryEach
<1>5. ASSUME NEW x \in (Held(list) \ {list[i]}) \cup {e} PROVE x \in Held(new)
  <2>1. CASE x = e
    BY <1>1, <1>2, <2>1 DEF Held
  <2>2. CASE x # e
    <3>1. PICK j \in 1 .. Len(list) : x = list[j]
      BY <1>5, <2>2 DEF Held
    <3>2. j # i
      BY <1>5, <2>2, <3>1
    <3>3. QED
      BY <1>1, <1>2, <3>1, <3>2 DEF Held
  <2>3. QED
    BY <2>1, <2>2
<1>6. QED
  BY <1>1, <1>3, <1>4, <1>5

(* An entry after the last, for a station that has none.                    *)
LEMMA EntryComes ==
  ASSUME NEW list \in Seq(Entries), OneEntryEach(list),
         NEW e \in Entries, Slots(list, e.station) = {}
  PROVE  LET new == Append(list, e)
         IN  /\ new \in Seq(Entries) /\ Len(new) = Len(list) + 1 /\ OneEntryEach(new)
             /\ Held(new) = Held(list) \cup {e}
<1> DEFINE new == Append(list, e)
           n == Len(list)
<1>1. new \in Seq(Entries) /\ Len(new) = n + 1 /\ n \in Nat
  OBVIOUS
<1>2. \A j \in 1 .. n + 1 : new[j] = IF j = n + 1 THEN e ELSE list[j]
  BY <1>1
<1>3. \A j \in 1 .. n : list[j].station # e.station
  BY DEF Slots
<1> HIDE DEF new
<1>4. OneEntryEach(new)
  <2> SUFFICES ASSUME NEW j \in 1 .. n + 1, NEW k \in 1 .. n + 1,
                      new[j].station = new[k].station
               PROVE  j = k
    BY <1>1 DEF OneEntryEach
  <2>1. \A m \in 1 .. n + 1 : m = n + 1 \/ m \in 1 .. n
    BY <1>1
  <2>2. QED
    BY <1>2, <1>3, <2>1 DEF OneEntryEach
<1>5. Held(new) = Held(list) \cup {e}
  <2>1. /\ n + 1 \in 1 .. n + 1
        /\ \A m \in 1 .. n + 1 : m = n + 1 \/ m \in 1 .. n
        /\ \A m \in 1 .. n : m \in 1 .. n + 1 /\ m # n + 1
    BY <1>1
  <2>2. Held(new) \subseteq Held(list) \cup {e}
    BY <1>1, <1>2, <2>1 DEF Held
  <2>3. Held(list) \cup {e} \subseteq Held(new)
    BY <1>1, <1>2, <2>1 DEF Held
  <2>4. QED
    BY <2>2, <2>3
<1>6. QED
  BY <1>1, <1>4, <1>5 DEF new

(* filter_clear leaves the entries the scope does not cover, all of them and *)
(* no other: what moves into a hole is looked at too.                       *)
LEMMA ClearedIsWhatIsLeft ==
  ASSUME NEW scope, filter \in Seq(Entries), OneEntryEach(filter)
  PROVE  /\ Cleared(scope) \in Seq(Entries) /\ OneEntryEach(Cleared(scope))
         /\ Len(Cleared(scope)) <= Len(filter)
         /\ Held(Cleared(scope)) = {e \in Held(filter) : ~Covered(e, scope)}
<1> DEFINE n == Len(filter)
           First == [list |-> filter, i |-> 1]
           After(w) == IF w.i > Len(w.list) THEN w
                       ELSE IF Covered(w.list[w.i], scope)
                              THEN [list |-> Without(w.list, w.i), i |-> w.i]
                              ELSE [w EXCEPT !.i = @ + 1]
           Walk(f) == f = [k \in 0 .. n |-> IF k = 0 THEN First ELSE After(f[k - 1])]
           Good(w, k) ==
             /\ OneEntryEach(w.list) /\ Len(w.list) <= n
             /\ w.i \in 1 .. Len(w.list) + 1 /\ Len(w.list) + 1 - w.i <= n - k
             /\ Held(w.list) \subseteq Held(filter)
             /\ \A e \in Held(filter) : ~Covered(e, scope) => e \in Held(w.list)
             /\ \A j \in 1 .. w.i - 1 : ~Covered(w.list[j], scope)
           States == [list : Seq(Entries), i : Nat]
           T == [k \in 0 .. n |-> {w \in States : Good(w, k)}]
           step == [p \in (1 .. n) \X States |-> After(p[2])]
<1>1. n \in Nat /\ \A k \in 1 .. n : k \in 0 .. n /\ k - 1 \in 0 .. n /\ k - 1 = k + (-1)
  BY Places
<1>2. First \in T[0]
  BY <1>1
<1>3. ASSUME NEW k \in 1 .. n, NEW w \in States, Good(w, k - 1)
      PROVE  After(w) \in States /\ Good(After(w), k)
  <2> DEFINE list == w.list
             i == w.i
             m == Len(list)
  <2>1. list \in Seq(Entries) /\ i \in Nat /\ m \in Nat /\ i >= 1 /\ i <= m + 1
        /\ w = [list |-> list, i |-> i]
    BY <1>3
  <2>2. CASE i > m
    BY <1>1, <1>3, <2>1, <2>2
  <2>3. CASE i <= m /\ Covered(list[i], scope)
    <3> DEFINE new == Without(list, i)
    <3>1. i \in 1 .. m
      BY <2>1, <2>3
    <3>2. /\ new \in Seq(Entries) /\ Len(new) = m - 1 /\ OneEntryEach(new)
          /\ Held(new) = Held(list) \ {list[i]}
          /\ \A j \in 1 .. i - 1 : new[j] = list[j]
      BY <1>3, <2>1, <3>1, HoleCloses
    <3>3. After(w) = [list |-> new, i |-> i]
      BY <2>1, <2>3
    <3> HIDE DEF After, new
    <3>4. After(w).list = new /\ After(w).i = i /\ After(w) \in States
      BY <2>1, <3>2, <3>3
    <3>5. i \in 1 .. Len(new) + 1 /\ Len(new) + 1 - i <= n - k /\ Len(new) <= n
      BY <1>1, <1>3, <2>1, <3>1, <3>2
    <3>6. Held(new) \subseteq Held(filter)
      BY <1>3, <3>2
    <3>7. \A e \in Held(filter) : ~Covered(e, scope) => e \in Held(new)
      BY <1>3, <2>3, <3>2
    <3>8. \A j \in 1 .. i - 1 : ~Covered(new[j], scope)
      BY <1>3, <3>2
    <3>9. QED
      BY <3>2, <3>4, <3>5, <3>6, <3>7, <3>8
  <2>4. CASE i <= m /\ ~Covered(list[i], scope)
    <3>1. After(w) = [list |-> list, i |-> i + 1]
      BY <2>1, <2>4
    <3> HIDE DEF After
    <3>2. After(w).list = list /\ After(w).i = i + 1 /\ After(w) \in States
      BY <2>1, <3>1
    <3>3. i + 1 \in 1 .. m + 1 /\ m + 1 - (i + 1) <= n - k
      BY <1>1, <1>3, <2>1, <2>4
    <3>4. \A j \in 1 .. (i + 1) - 1 : ~Covered(list[j], scope)
      <4>1. \A j \in 1 .. (i + 1) - 1 : j = i \/ j \in 1 .. i - 1
        BY <2>1
      <4>2. QED
        BY <1>3, <2>4, <4>1
    <3>5. QED
      BY <1>3, <3>2, <3>3, <3>4
  <2>5. QED
    BY <2>1, <2>2, <2>3, <2>4
<1>4. \A k \in 1 .. n, w \in States : step[<<k, w>>] = After(w)
  OBVIOUS
<1>5. Leads(n, T, step)
  <2> SUFFICES ASSUME NEW k \in 1 .. n, NEW w \in T[k - 1]
               PROVE  step[<<k, w>>] \in T[k]
    BY DEF Leads
  <2>1. w \in States /\ Good(w, k - 1)
    BY <1>1
  <2> HIDE DEF Good, After, step, States
  <2>2. QED
    BY <1>1, <1>3, <1>4, <2>1
<1> HIDE DEF step, After, Good, States, First
<1>6. PICK f : /\ f = [k \in 0 .. n |-> f[k]]
               /\ Walks(f, n, First, step)
               /\ \A k \in 0 .. n : f[k] \in T[k]
  BY <1>1, <1>2, <1>5, WalkReaches, Zenon
<1>7. Walk(f)
  <2>1. \A k \in 0 .. n : f[k] = IF k = 0 THEN First ELSE After(f[k - 1])
    <3> SUFFICES ASSUME NEW k \in 0 .. n
                 PROVE  f[k] = IF k = 0 THEN First ELSE After(f[k - 1])
      OBVIOUS
    <3>1. CASE k = 0
      BY <1>6, <3>1 DEF Walks
    <3>2. CASE k # 0
      <4>1. k \in 1 .. n /\ k - 1 \in 0 .. n
        BY <1>1, <3>2
      <4>2. f[k - 1] \in States
        BY <1>6, <4>1
      <4>3. QED
        BY <1>4, <1>6, <3>2, <4>1, <4>2 DEF Walks
    <3>3. QED
      BY <3>1, <3>2
  <2>2. QED
    BY <1>6, <2>1
<1> DEFINE g == CHOOSE h : Walk(h)
<1>8. Walk(g) /\ Cleared(scope) = g[n].list
  BY <1>7 DEF Cleared, After, First
<1>9. \A k \in 0 .. n : g[k] = f[k]
  <2> DEFINE Q == {k \in 0 .. n : g[k] = f[k]}
  <2> HIDE DEF g
  <2>0. /\ \A k \in 0 .. n : f[k] = IF k = 0 THEN First ELSE After(f[k - 1])
        /\ \A k \in 0 .. n : g[k] = IF k = 0 THEN First ELSE After(g[k - 1])
    BY <1>7, <1>8, Zenon
  <2>1. 0 \in Q
    BY <1>1, <2>0
  <2>2. ASSUME NEW k \in 1 .. n, k - 1 \in Q PROVE k \in Q
    BY <1>1, <2>0, <2>2
  <2> HIDE DEF Q
  <2>3. \A k \in 0 .. n : k \in Q
    BY <1>1, <2>1, <2>2, CountingUp
  <2>4. QED
    BY <2>3 DEF Q
<1>10. g[n] \in States /\ Good(g[n], n)
  BY <1>1, <1>6, <1>9
<1> DEFINE left == g[n].list
<1>11. /\ left \in Seq(Entries) /\ OneEntryEach(left) /\ Len(left) <= n
       /\ Held(left) \subseteq Held(filter)
       /\ \A e \in Held(filter) : ~Covered(e, scope) => e \in Held(left)
  BY <1>10 DEF Good, States
<1>12. \A j \in 1 .. Len(left) : ~Covered(left[j], scope)
  <2>1. Len(left) \in Nat /\ g[n].i \in Nat /\ g[n].i >= Len(left) + 1
    BY <1>1, <1>10 DEF Good, States
  <2>2. \A j \in 1 .. Len(left) : j \in 1 .. g[n].i - 1
    BY <2>1
  <2>3. QED
    BY <1>10, <2>2 DEF Good
<1> HIDE DEF g, left
<1>13. \A e \in Held(left) : ~Covered(e, scope)
  BY <1>12 DEF Held
<1>14. QED
  BY <1>8, <1>11, <1>13 DEF left

(* The first slot of a station that has one is one of its slots.            *)
LEMMA FirstSlotIsOne ==
  ASSUME NEW S, NEW list \in Seq(S), NEW s, Slots(list, s) # {}
  PROVE  LET i == CHOOSE i \in Slots(list, s) : \A j \in Slots(list, s) : i <= j
         IN  i \in 1 .. Len(list) /\ list[i].station = s
<1>1. Slots(list, s) \subseteq Nat
  BY DEF Slots
<1>2. \E i \in Slots(list, s) : \A j \in Slots(list, s) : i <= j
  BY <1>1, LeastNatural, Zenon
<1> DEFINE i == CHOOSE i \in Slots(list, s) : \A j \in Slots(list, s) : i <= j
<1>3. i \in Slots(list, s)
  BY <1>2, Zenon
<1> HIDE DEF i
<1>4. i \in 1 .. Len(list) /\ list[i].station = s
  BY <1>3 DEF Slots
<1>5. QED
  BY <1>4 DEF i

(* A rule asked for replaces its station's, comes after the last, or finds   *)
(* no room and changes nothing.                                             *)
LEMMA InsertKeeps ==
  ASSUME FilterInv, NEW s \in Station, NEW a \in Action, NEW src \in Source,
         Insert(s, a, src)
  PROVE  FilterInv'
<1> DEFINE e == Entry(s, a, src)
           ruled == [t \in DOMAIN rules \cup {s} |-> IF t = s THEN e ELSE rules[t]]
<1>1. e \in Entries /\ e.station = s
  BY DEF Entry, Entries
<1>2. /\ DOMAIN ruled = DOMAIN rules \cup {s} /\ ruled[s] = e
      /\ \A t \in DOMAIN rules : t # s => ruled[t] = rules[t]
  OBVIOUS
<1>3. filter \in Seq(Entries) /\ OneEntryEach(filter) /\ Len(filter) \in Nat
  BY DEF FilterInv
<1>4. \A x \in Held(filter) : x.station \in DOMAIN rules /\ x = rules[x.station]
  BY DEF FilterInv
<1>5. CASE Slots(filter, s) # {} /\ rules' = ruled
           /\ filter' = [filter EXCEPT ![CHOOSE i \in Slots(filter, s) :
                                            \A j \in Slots(filter, s) : i <= j] = e]
  <2> DEFINE i == CHOOSE i \in Slots(filter, s) : \A j \in Slots(filter, s) : i <= j
  <2>1. i \in 1 .. Len(filter) /\ filter[i].station = s
    BY <1>3, <1>5, FirstSlotIsOne
  <2>2. filter' = [filter EXCEPT ![i] = e]
    BY <1>5
  <2> HIDE DEF i, e
  <2>3. /\ filter' \in Seq(Entries) /\ Len(filter') = Len(filter) /\ OneEntryEach(filter')
        /\ Held(filter') = (Held(filter) \ {filter[i]}) \cup {e}
    <3>1. e.station = filter[i].station
      BY <1>1, <2>1
    <3>2. \A new : new = [filter EXCEPT ![i] = e] =>
            /\ new \in Seq(Entries) /\ Len(new) = Len(filter) /\ OneEntryEach(new)
            /\ Held(new) = (Held(filter) \ {filter[i]}) \cup {e}
      BY <1>1, <1>3, <2>1, <3>1, EntryChanges, Zenon
    <3>3. QED
      BY <2>2, <3>2
  <2>4. filter[i] \in Held(filter)
    BY <2>1 DEF Held
  <2>5. \A t \in DOMAIN rules' : rules'[t] \in Held(filter') /\ rules'[t].station = t
    BY <1>1, <1>2, <1>5, <2>1, <2>3 DEF FilterInv
  <2>6. \A x \in Held(filter') : x.station \in DOMAIN rules' /\ x = rules'[x.station]
    <3> SUFFICES ASSUME NEW x \in Held(filter')
                 PROVE  x.station \in DOMAIN rules' /\ x = rules'[x.station]
      OBVIOUS
    <3>1. CASE x = e
      BY <1>1, <1>2, <1>5, <3>1
    <3>2. CASE x # e
      <4>1. x \in Held(filter) /\ x # filter[i]
        BY <2>3, <3>2
      <4>2. x.station \in DOMAIN rules /\ x = rules[x.station] /\ filter[i] = rules[s]
        BY <1>4, <2>1, <2>4, <4>1
      <4>3. x.station # s
        BY <4>1, <4>2
      <4>4. QED
        BY <1>2, <1>5, <4>2, <4>3
    <3>3. QED
      BY <3>1, <3>2
  <2>7. DOMAIN rules' \subseteq Station /\ rules' = [t \in DOMAIN rules' |-> rules'[t]]
    BY <1>2, <1>5 DEF FilterInv
  <2>8. QED
    BY <2>3, <2>5, <2>6, <2>7 DEF FilterInv
<1>6. CASE Slots(filter, s) = {} /\ Len(filter) < FilterMax /\ rules' = ruled
           /\ filter' = Append(filter, e)
  <2>1. /\ filter' \in Seq(Entries) /\ Len(filter') = Len(filter) + 1
        /\ OneEntryEach(filter') /\ Held(filter') = Held(filter) \cup {e}
    BY <1>1, <1>3, <1>6, EntryComes
  <2> HIDE DEF e
  <2>2. \A x \in Held(filter) : x.station # s
    BY <1>6 DEF Held, Slots
  <2>3. \A t \in DOMAIN rules' : rules'[t] \in Held(filter') /\ rules'[t].station = t
    BY <1>1, <1>2, <1>6, <2>1 DEF FilterInv
  <2>4. \A x \in Held(filter') : x.station \in DOMAIN rules' /\ x = rules'[x.station]
    BY <1>1, <1>2, <1>4, <1>6, <2>1, <2>2
  <2>5. DOMAIN rules' \subseteq Station /\ rules' = [t \in DOMAIN rules' |-> rules'[t]]
    BY <1>2, <1>6 DEF FilterInv
  <2>6. Len(filter') <= FilterMax
    BY <1>3, <1>6, <2>1, StationsFit DEF StationsAssumption
  <2>7. QED
    BY <2>1, <2>3, <2>4, <2>5, <2>6 DEF FilterInv
<1>7. CASE UNCHANGED filterVars
  BY <1>7 DEF FilterInv, filterVars, Held, OneEntryEach
<1>8. QED
  BY <1>5, <1>6, <1>7 DEF Insert

(* The rule of a station goes with its entry, and the others stay.          *)
LEMMA RemoveKeeps ==
  ASSUME FilterInv, NEW s \in Station, Remove(s)
  PROVE  FilterInv'
<1> DEFINE i == CHOOSE i \in Slots(filter, s) : \A j \in Slots(filter, s) : i <= j
<1>1. filter \in Seq(Entries) /\ OneEntryEach(filter) /\ Len(filter) \in Nat
  BY DEF FilterInv
<1>2. i \in 1 .. Len(filter) /\ filter[i].station = s
  BY <1>1, FirstSlotIsOne DEF Remove
<1>3. filter' = Without(filter, i) /\ rules' = [t \in DOMAIN rules \ {s} |-> rules[t]]
  BY DEF Remove
<1> HIDE DEF i
<1>4. /\ filter' \in Seq(Entries) /\ Len(filter') = Len(filter) - 1
      /\ OneEntryEach(filter') /\ Held(filter') = Held(filter) \ {filter[i]}
  BY <1>1, <1>2, <1>3, HoleCloses
<1>5. \A x \in Held(filter) : x.station \in DOMAIN rules /\ x = rules[x.station]
  BY DEF FilterInv
<1>6. filter[i] = rules[s]
  <2>1. filter[i] \in Held(filter)
    BY <1>2 DEF Held
  <2>2. QED
    BY <1>2, <1>5, <2>1
<1>7. \A t \in DOMAIN rules' : rules'[t] \in Held(filter') /\ rules'[t].station = t
  BY <1>2, <1>3, <1>4 DEF FilterInv
<1>8. \A x \in Held(filter') : x.station \in DOMAIN rules' /\ x = rules'[x.station]
  BY <1>3, <1>4, <1>5, <1>6
<1>9. DOMAIN rules' \subseteq Station /\ rules' = [t \in DOMAIN rules' |-> rules'[t]]
  BY <1>3 DEF FilterInv
<1>10. Len(filter') <= FilterMax
  BY <1>1, <1>4, StationsFit DEF FilterInv, StationsAssumption
<1>11. QED
  BY <1>4, <1>7, <1>8, <1>9, <1>10 DEF FilterInv

(* Clearing leaves the rules its scope does not cover.                      *)
LEMMA ClearKeeps ==
  ASSUME FilterInv, NEW scope, Clear(scope)
  PROVE  FilterInv'
<1> DEFINE kept == {u \in DOMAIN rules : ~Covered(rules[u], scope)}
<1>1. filter \in Seq(Entries) /\ OneEntryEach(filter) /\ Len(filter) \in Nat
  BY DEF FilterInv
<1>2. filter' = Cleared(scope) /\ rules' = [t \in kept |-> rules[t]]
  BY DEF Clear
<1>3. /\ filter' \in Seq(Entries) /\ OneEntryEach(filter') /\ Len(filter') <= Len(filter)
      /\ Held(filter') = {e \in Held(filter) : ~Covered(e, scope)}
  BY <1>1, <1>2, ClearedIsWhatIsLeft
<1>4. \A t \in kept : rules'[t] = rules[t] /\ t \in DOMAIN rules
  BY <1>2
<1>5. \A t \in DOMAIN rules' : rules'[t] \in Held(filter') /\ rules'[t].station = t
  BY <1>2, <1>3, <1>4 DEF FilterInv
<1>6. \A x \in Held(filter') : x.station \in DOMAIN rules' /\ x = rules'[x.station]
  BY <1>2, <1>3, <1>4 DEF FilterInv
<1>7. DOMAIN rules' \subseteq Station /\ rules' = [t \in DOMAIN rules' |-> rules'[t]]
  BY <1>2 DEF FilterInv
<1>8. Len(filter') \in Nat /\ Len(filter') <= FilterMax
  BY <1>1, <1>3, StationsFit DEF FilterInv, StationsAssumption
<1>9. QED
  BY <1>3, <1>5, <1>6, <1>7, <1>8 DEF FilterInv

-----------------------------------------------------------------------------
(* Of a table that is not empty the stalest row is found.                   *)
LEMMA OldestIsStalest ==
  ASSUME RowsInv, Len(table) > 0
  PROVE  Oldest \in 1 .. Len(table)
         /\ \A j \in 1 .. Len(table) : table[Oldest].last <= table[j].last
<1> DEFINE n == Len(table)
           clocks == {table[i].last : i \in 1 .. n}
<1>1. n \in Nat /\ \A i \in 1 .. n : table[i].last \in 0 .. Ticks - 1
  <2>1. table \in Seq([station : Station, kind : Kind, last : 0 .. Ticks - 1])
    BY DEF RowsInv
  <2>2. n \in Nat /\ \A i \in 1 .. n : table[i] \in [station : Station, kind : Kind, last : 0 .. Ticks - 1]
    BY <2>1, Places
  <2>3. QED
    BY <2>2
<1>2. clocks \subseteq Nat /\ clocks # {}
  BY <1>1
<1>3. PICK c \in clocks : \A d \in clocks : c <= d
  BY <1>2, LeastNatural, Zenon
<1> DEFINE stalest == {i \in 1 .. n : table[i].last = c}
<1>4. stalest \subseteq Nat /\ stalest # {}
  BY <1>3
<1>5. PICK i \in stalest : \A j \in stalest : i <= j
  BY <1>4, LeastNatural, Zenon
<1>6. i \in 1 .. n /\ \A j \in 1 .. n : table[i].last <= table[j].last
  BY <1>3, <1>5
<1>7. ASSUME NEW j \in 1 .. i - 1 PROVE table[j].last > table[i].last
  <2>1. j \in 1 .. n /\ j \notin stalest
    BY <1>1, <1>5, <1>6
  <2>2. table[j].last # table[i].last /\ table[i].last <= table[j].last
    BY <1>5, <1>6, <2>1
  <2>3. table[j].last \in Int /\ table[i].last \in Int
    BY <1>1, <1>6, <2>1
  <2>4. QED
    BY <2>2, <2>3
<1> HIDE DEF n
<1>8. QED
  BY <1>6, <1>7 DEF Oldest, n

(* Before the counter wraps the clocks of two rows are in the order in which *)
(* their stations were last heard.                                          *)
LEMMA ClocksAreInOrder ==
  ASSUME RowsInv, start + since < Ticks, NEW i \in 1 .. Len(table), NEW j \in 1 .. Len(table),
         table[i].last <= table[j].last
  PROVE  lastHeard[table[i].station] <= lastHeard[table[j].station]
<1>1. Ticks \in Nat /\ Ticks >= 2 /\ start \in Nat /\ since \in Nat
  BY StationsFit DEF StationsAssumption, RowsInv
<1>2. ASSUME NEW k \in 1 .. Len(table)
      PROVE  /\ lastHeard[table[k].station] \in Nat
             /\ table[k].last = start + lastHeard[table[k].station]
  <2> DEFINE h == lastHeard[table[k].station]
  <2>1. h \in 0 .. since
    BY DEF RowsInv
  <2>2. table[k].last = (start + h) % Ticks
    BY DEF RowsInv
  <2> HIDE DEF h
  <2>3. h \in Nat /\ start + h \in 0 .. Ticks - 1
    BY <1>1, <2>1
  <2>4. (start + h) % Ticks = start + h
    BY <1>1, <2>3
  <2>5. QED
    BY <2>2, <2>3, <2>4 DEF h
<1>3. QED
  BY <1>1, <1>2

(* A frame of a station that has a row, of one that has none while there is  *)
(* room, or of one that takes the stalest row.                              *)
LEMMA SeenKeeps ==
  ASSUME RowsInv, NEW s \in Station, Seen(s)
  PROVE  RowsInv'
<1> DEFINE n == Len(table)
           Rows == [station : Station, kind : Kind, last : 0 .. Ticks - 1]
<1>1. /\ start' = start /\ since' = since
      /\ lastHeard' = [t \in DOMAIN lastHeard \cup {s} |-> IF t = s THEN since ELSE lastHeard[t]]
  BY DEF Seen
<1>2. /\ Ticks \in Nat /\ Ticks >= 2 /\ start \in Nat /\ since \in Nat /\ StationsMax \in Nat
      /\ StationsMax > 0 /\ "unknown" \in Kind
  BY StationsFit DEF StationsAssumption, RowsInv
<1>3. /\ Ms \in 0 .. Ticks - 1 /\ Row(s, "unknown") \in Rows
      /\ Row(s, "unknown").station = s /\ Row(s, "unknown").last = Ms
  BY <1>2 DEF Ms, Row
<1>4. /\ DOMAIN lastHeard' = DOMAIN lastHeard \cup {s}
      /\ lastHeard'[s] = since
      /\ \A t \in DOMAIN lastHeard : t # s => lastHeard'[t] = lastHeard[t]
      /\ lastHeard' = [t \in DOMAIN lastHeard' |-> lastHeard'[t]]
  BY <1>1
<1>5. /\ DOMAIN lastHeard' \subseteq Station
      /\ \A t \in DOMAIN lastHeard' : lastHeard'[t] \in 0 .. since'
  BY <1>1, <1>2, <1>4 DEF RowsInv
<1>6. /\ n \in Nat /\ table \in Seq(Rows) /\ n <= StationsMax
      /\ \A i \in 1 .. n : table[i] \in Rows /\ table[i].station \in DOMAIN lastHeard
                           /\ lastHeard[table[i].station] \in 0 .. since
  BY Places DEF RowsInv
<1> DEFINE
     \* the rows after, of which one is the station's and the others were there
     Fresh(k) == /\ table'[k].station = s /\ table'[k].last = Ms
     Old(k, i) == /\ i \in 1 .. n /\ table[i].station # s
                  /\ table'[k].station = table[i].station /\ table'[k].last = table[i].last
<1>7. ASSUME NEW k, NEW from \in [1 .. Len(table') -> 0 .. n],
             table' \in Seq(Rows), Len(table') \in Nat, Len(table') <= StationsMax,
             k \in 1 .. Len(table'), Fresh(k),
             \A j \in 1 .. Len(table') : j # k => Old(j, from[j]),
             \A i, j \in 1 .. Len(table') : i # k /\ j # k /\ from[i] = from[j] => i = j,
             \* who has no row after had none, or had the stalest
             start + since < Ticks =>
               \A t \in DOMAIN lastHeard : Slots(table', t) = {} =>
                 \/ Slots(table, t) = {}
                 \/ \A i \in 1 .. n : lastHeard[t] <= lastHeard[table[i].station]
      PROVE  RowsInv'
  <2>1. OneRowEach'
    <3> SUFFICES ASSUME NEW i \in 1 .. Len(table'), NEW j \in 1 .. Len(table'),
                        table'[i].station = table'[j].station
                 PROVE  i = j
      BY DEF OneRowEach
    <3>1. CASE i # k /\ j # k
      <4>1. from[i] \in 1 .. n /\ from[j] \in 1 .. n
            /\ table[from[i]].station = table[from[j]].station
        BY <1>7, <3>1
      <4>2. from[i] = from[j]
        BY <4>1 DEF RowsInv, OneRowEach
      <4>3. QED
        BY <1>7, <3>1, <4>2
    <3>2. CASE i = k \/ j = k
      BY <1>7, <3>2
    <3>3. QED
      BY <3>1, <3>2
  <2>2. \A j \in 1 .. Len(table') :
          /\ table'[j].station \in DOMAIN lastHeard'
          /\ table'[j].last = (start' + lastHeard'[table'[j].station]) % Ticks
    <3> SUFFICES ASSUME NEW j \in 1 .. Len(table')
                 PROVE  /\ table'[j].station \in DOMAIN lastHeard'
                        /\ table'[j].last = (start' + lastHeard'[table'[j].station]) % Ticks
      OBVIOUS
    <3>1. CASE j = k
      BY <1>1, <1>4, <1>7, <3>1 DEF Ms
    <3>2. CASE j # k
      <4>1. Old(j, from[j])
        BY <1>7, <3>2
      <4> HIDE DEF Rows
      <4>2. table[from[j]].station \in DOMAIN lastHeard
            /\ table[from[j]].last = (start + lastHeard[table[from[j]].station]) % Ticks
        BY <4>1 DEF RowsInv
      <4>3. QED
        BY <1>1, <1>4, <4>1, <4>2
    <3>3. QED
      BY <3>1, <3>2
  <2>3. RecentAreKept'
    <3> SUFFICES ASSUME start + since < Ticks,
                        NEW t \in DOMAIN lastHeard', Slots(table', t) = {},
                        NEW j \in 1 .. Len(table')
                 PROVE  lastHeard'[table'[j].station] >= lastHeard'[t]
      BY <1>1 DEF RecentAreKept
    <3>1. t # s
      BY <1>7 DEF Slots
    <3>2. t \in DOMAIN lastHeard /\ lastHeard'[t] = lastHeard[t] /\ lastHeard[t] \in 0 .. since
      BY <1>4, <3>1 DEF RowsInv
    <3>3. CASE j = k
      BY <1>2, <1>4, <1>7, <3>2, <3>3
    <3>4. CASE j # k
      <4>1. Old(j, from[j])
        BY <1>7, <3>4
      <4>2. lastHeard'[table'[j].station] = lastHeard[table[from[j]].station]
        BY <1>4, <1>6, <4>1
      <4>3. lastHeard[t] <= lastHeard[table[from[j]].station]
        <5>1. CASE Slots(table, t) = {}
          <6>1. lastHeard[table[from[j]].station] >= lastHeard[t]
            BY <3>2, <4>1, <5>1 DEF RowsInv, RecentAreKept
          <6>2. QED
            BY <1>6, <3>2, <4>1, <6>1
        <5>2. CASE Slots(table, t) # {}
          BY <1>7, <3>2, <4>1, <5>2
        <5>3. QED
          BY <5>1, <5>2
      <4>4. QED
        BY <1>6, <3>2, <4>1, <4>2, <4>3
    <3>5. QED
      BY <3>3, <3>4
  <2>4. QED
    BY <1>1, <1>4, <1>5, <1>7, <2>1, <2>2, <2>3 DEF RowsInv
<1>8. CASE \E i \in Slots(table, s) : table' = [table EXCEPT ![i].last = Ms]
  <2>1. PICK k \in Slots(table, s) : table' = [table EXCEPT ![k].last = Ms]
    BY <1>8
  <2>2. k \in 1 .. n /\ table[k].station = s
    BY DEF Slots
  <2>3. table' = [table EXCEPT ![k] = [table[k] EXCEPT !.last = Ms]]
    BY <2>1
  <2>4. [table[k] EXCEPT !.last = Ms] \in Rows /\ [table[k] EXCEPT !.last = Ms].station = s
        /\ [table[k] EXCEPT !.last = Ms].last = Ms
    BY <1>3, <1>6, <2>2
  <2>5. /\ table' \in Seq(Rows) /\ Len(table') = n
        /\ Fresh(k) /\ \A j \in 1 .. n : j # k => table'[j] = table[j]
    BY <1>6, <2>2, <2>3, <2>4
  <2>6. \A j \in 1 .. n : j # k => Old(j, j)
    BY <2>2, <2>5 DEF RowsInv, OneRowEach
  <2>7. \A t : Slots(table', t) = {} => Slots(table, t) = {}
    <3>1. \A j \in 1 .. n : table'[j].station = table[j].station
      BY <2>2, <2>5
    <3>2. QED
      BY <2>5, <3>1 DEF Slots
  <2> DEFINE from == [j \in 1 .. n |-> j]
  <2>8. from \in [1 .. n -> 0 .. n] /\ \A j \in 1 .. n : from[j] = j
    BY <1>6
  <2> HIDE DEF from, Fresh, Old, Rows
  <2>9. /\ table' \in Seq(Rows) /\ Len(table') \in Nat /\ Len(table') <= StationsMax
        /\ k \in 1 .. Len(table') /\ Fresh(k) /\ from \in [1 .. Len(table') -> 0 .. n]
    BY <1>6, <2>2, <2>5, <2>8
  <2>10. /\ \A j \in 1 .. Len(table') : j # k => Old(j, from[j])
         /\ \A i, j \in 1 .. Len(table') : i # k /\ j # k /\ from[i] = from[j] => i = j
    BY <2>5, <2>6, <2>8
  <2>11. QED
    BY <1>7, <2>7, <2>9, <2>10
<1>9. CASE Slots(table, s) = {} /\ n < StationsMax /\ table' = Append(table, Row(s, "unknown"))
  <2>1. /\ table' \in Seq(Rows) /\ Len(table') = n + 1 /\ n + 1 \in Nat
        /\ Fresh(n + 1) /\ n + 1 \in 1 .. n + 1
        /\ \A j \in 1 .. n + 1 : j # n + 1 => j \in 1 .. n /\ table'[j] = table[j]
    BY <1>3, <1>6, <1>9
  <2>2. \A j \in 1 .. n : table[j].station # s
    BY <1>9 DEF Slots
  <2>3. \A j \in 1 .. n + 1 : j # n + 1 => Old(j, j)
    BY <2>1, <2>2
  <2>4. \A t : Slots(table', t) = {} => Slots(table, t) = {}
    <3>1. \A j \in 1 .. n : j \in 1 .. n + 1 /\ table'[j] = table[j]
      BY <1>6, <2>1
    <3>2. QED
      BY <2>1, <3>1 DEF Slots
  <2> DEFINE from == [j \in 1 .. n + 1 |-> IF j = n + 1 THEN 0 ELSE j]
  <2>5. from \in [1 .. n + 1 -> 0 .. n] /\ \A j \in 1 .. n + 1 : j # n + 1 => from[j] = j
    BY <1>6
  <2>6. n + 1 <= StationsMax
    BY <1>2, <1>6, <1>9
  <2> HIDE DEF from, Fresh, Old, Rows
  <2>7. QED
    BY <1>7, <2>1, <2>3, <2>4, <2>5, <2>6
<1>10. CASE Slots(table, s) = {} /\ n = StationsMax
            /\ table' = [table EXCEPT ![Oldest] = Row(s, "unknown")]
  <2>1. Oldest \in 1 .. n /\ \A j \in 1 .. n : table[Oldest].last <= table[j].last
    BY <1>2, <1>6, <1>10, OldestIsStalest
  <2> DEFINE k == Oldest
  <2>2. table' = [table EXCEPT ![k] = Row(s, "unknown")]
    BY <1>10
  <2> HIDE DEF k
  <2>3. k \in 1 .. n /\ \A j \in 1 .. n : table[k].last <= table[j].last
    BY <2>1 DEF k
  <2>4. /\ table' \in Seq(Rows) /\ Len(table') = n
        /\ Fresh(k) /\ \A j \in 1 .. n : j # k => table'[j] = table[j]
    BY <1>3, <1>6, <2>2, <2>3
  <2>5. \A j \in 1 .. n : table[j].station # s
    BY <1>10 DEF Slots
  <2>6. \A j \in 1 .. n : j # k => Old(j, j)
    BY <2>4, <2>5
  <2>7. ASSUME start + since < Ticks,
               NEW t \in DOMAIN lastHeard, Slots(table', t) = {}, Slots(table, t) # {}
        PROVE  \A i \in 1 .. n : lastHeard[t] <= lastHeard[table[i].station]
    <3>1. PICK j \in 1 .. n : table[j].station = t
      BY <2>7 DEF Slots
    <3>2. j = k
      BY <2>4, <2>7, <3>1 DEF Slots
    <3>3. QED
      BY <2>3, <2>7, <3>1, <3>2, ClocksAreInOrder
  <2> DEFINE from == [j \in 1 .. n |-> j]
  <2>8. from \in [1 .. n -> 0 .. n] /\ \A j \in 1 .. n : from[j] = j
    BY <1>6
  <2> HIDE DEF from, Fresh, Old, Rows
  <2>9. /\ table' \in Seq(Rows) /\ Len(table') \in Nat /\ Len(table') <= StationsMax
        /\ k \in 1 .. Len(table') /\ Fresh(k) /\ from \in [1 .. Len(table') -> 0 .. n]
    BY <1>6, <2>3, <2>4, <2>8
  <2>10. /\ \A j \in 1 .. Len(table') : j # k => Old(j, from[j])
         /\ \A i, j \in 1 .. Len(table') : i # k /\ j # k /\ from[i] = from[j] => i = j
    BY <2>4, <2>6, <2>8
  <2>11. QED
    BY <1>7, <2>7, <2>9, <2>10
<1>11. QED
  BY <1>8, <1>9, <1>10 DEF Seen

(* What a row's station is noted as is in its row alone.                    *)
LEMMA NoteKindKeeps ==
  ASSUME RowsInv, NEW s \in Station, NEW k \in Kind, NoteKind(s, k)
  PROVE  RowsInv'
<1> DEFINE Rows == [station : Station, kind : Kind, last : 0 .. Ticks - 1]
<1>1. PICK i \in Slots(table, s) : table' = [table EXCEPT ![i].kind = k]
  BY DEF NoteKind
<1>2. i \in 1 .. Len(table)
  BY DEF Slots
<1>3. table \in Seq(Rows)
  BY DEF RowsInv
<1>4. \A j \in 1 .. Len(table) : table[j] \in Rows
  BY <1>3, Places
<1>5. [table[i] EXCEPT !.kind = k] \in Rows
  BY <1>2, <1>4
<1>6. table' = [table EXCEPT ![i] = [table[i] EXCEPT !.kind = k]]
  BY <1>1
<1>7. table' \in Seq(Rows) /\ Len(table') = Len(table)
  <2> HIDE DEF Rows
  <2>1. QED
    BY <1>2, <1>3, <1>5, <1>6
<1>8. \A j \in 1 .. Len(table) :
        table'[j].station = table[j].station /\ table'[j].last = table[j].last
  BY <1>2, <1>3, <1>4, <1>6
<1>9. UNCHANGED <<lastHeard, start, since>>
  BY DEF NoteKind
<1>10. OneRowEach'
  BY <1>7, <1>8 DEF OneRowEach, RowsInv
<1>11. RecentAreKept'
  <2>1. \A t : Slots(table', t) = {} => Slots(table, t) = {}
    BY <1>7, <1>8 DEF Slots
  <2>2. QED
    BY <1>7, <1>8, <1>9, <2>1 DEF RecentAreKept, RowsInv
<1>12. \A j \in 1 .. Len(table') :
         /\ table'[j].station \in DOMAIN lastHeard'
         /\ table'[j].last = (start' + lastHeard'[table'[j].station]) % Ticks
  BY <1>7, <1>8, <1>9 DEF RowsInv
<1>13. QED
  BY <1>7, <1>9, <1>10, <1>11, <1>12 DEF RowsInv

(* Nothing is heard in a table that is cleared.                             *)
LEMMA ClearStationsKeeps == RowsInv /\ ClearStations => RowsInv'
<1> SUFFICES ASSUME RowsInv, ClearStations PROVE RowsInv'
  OBVIOUS
<1>1. table' = <<>> /\ lastHeard' = <<>> /\ start' = start /\ since' = since
  BY DEF ClearStations
<1>2. Len(table') = 0 /\ table' \in Seq([station : Station, kind : Kind, last : 0 .. Ticks - 1])
      /\ DOMAIN lastHeard' = {} /\ lastHeard' = [t \in DOMAIN lastHeard' |-> lastHeard'[t]]
  BY <1>1
<1>3. 1 .. 0 = {}
  OBVIOUS
<1>4. OneRowEach' /\ RecentAreKept'
  BY <1>2, <1>3 DEF OneRowEach, RecentAreKept
<1>5. 0 <= StationsMax
  BY StationsFit DEF StationsAssumption
<1>6. QED
  BY <1>1, <1>2, <1>3, <1>4, <1>5 DEF RowsInv

(* Time goes by; when the counter has wrapped nothing is said any more.      *)
LEMMA LaterKeeps == RowsInv /\ Later => RowsInv'
<1> SUFFICES ASSUME RowsInv, Later PROVE RowsInv'
  OBVIOUS
<1>1. /\ since' = since + 1 /\ since \in Nat /\ start \in Nat /\ Ticks \in Nat
      /\ UNCHANGED <<table, lastHeard, start>>
  BY StationsFit DEF Later, RowsInv, StationsAssumption
<1>2. OneRowEach' /\ RecentAreKept'
  <2>1. OneRowEach /\ RecentAreKept
    BY DEF RowsInv
  <2>2. start' + since' < Ticks => start + since < Ticks
    BY <1>1
  <2>3. OneRowEach'
    BY <1>1, <2>1 DEF OneRowEach
  <2>4. RecentAreKept'
    BY <1>1, <2>1, <2>2 DEF RecentAreKept, Slots
  <2>5. QED
    BY <2>3, <2>4
<1>3. \A t \in DOMAIN lastHeard : lastHeard[t] \in 0 .. since'
  BY <1>1 DEF RowsInv
<1>4. QED
  BY <1>1, <1>2, <1>3 DEF RowsInv

(* An empty filter, an empty table, no time gone.                           *)
LEMMA StationsStart == Init => StationsInv
<1> SUFFICES ASSUME Init PROVE StationsInv
  OBVIOUS
<1>1. /\ filter = <<>> /\ rules = <<>> /\ table = <<>> /\ lastHeard = <<>>
      /\ start \in {0, Ticks - 2} /\ since = 0
  BY DEF Init
<1>2. /\ filter \in Seq(Entries) /\ Len(filter) = 0 /\ 1 .. 0 = {}
      /\ DOMAIN rules = {} /\ rules = [t \in DOMAIN rules |-> rules[t]]
      /\ table \in Seq([station : Station, kind : Kind, last : 0 .. Ticks - 1]) /\ Len(table) = 0
      /\ DOMAIN lastHeard = {} /\ lastHeard = [t \in DOMAIN lastHeard |-> lastHeard[t]]
  BY <1>1
<1>3. 0 <= FilterMax /\ 0 <= StationsMax
  BY StationsFit DEF StationsAssumption
<1>4. FilterInv
  BY <1>2, <1>3 DEF FilterInv, Held, OneEntryEach
<1>5. RowsInv
  BY <1>1, <1>2, <1>3 DEF RowsInv, OneRowEach, RecentAreKept
<1>6. QED
  BY <1>4, <1>5 DEF StationsInv

(* Every step keeps both: the filter's leave the rows alone, and the rows'   *)
(* the filter.                                                              *)
LEMMA StationsStep == StationsInv /\ [Next]_vars => StationsInv'
<1> SUFFICES ASSUME StationsInv, [Next]_vars PROVE StationsInv'
  OBVIOUS
<1>1. FilterInv /\ RowsInv
  BY DEF StationsInv
<1>2. UNCHANGED filterVars => FilterInv'
  BY <1>1 DEF FilterInv, filterVars, Held, OneEntryEach
<1>3. UNCHANGED tableVars => RowsInv'
  BY <1>1 DEF RowsInv, tableVars, OneRowEach, RecentAreKept, Slots
<1>4. CASE UNCHANGED vars
  BY <1>2, <1>3, <1>4 DEF vars, filterVars, tableVars, StationsInv
<1>5. CASE /\ \/ \E s \in Station, a \in Action, src \in Source : Insert(s, a, src)
              \/ \E s \in Station : Remove(s)
              \/ \E scope \in Scope : Clear(scope)
           /\ UNCHANGED tableVars
  BY <1>1, <1>3, <1>5, InsertKeeps, RemoveKeeps, ClearKeeps DEF StationsInv
<1>6. CASE /\ \/ \E s \in Station : Seen(s) \/ (\E k \in Kind : NoteKind(s, k))
              \/ ClearStations \/ Later
           /\ UNCHANGED filterVars
  BY <1>1, <1>2, <1>6, SeenKeeps, NoteKindKeeps, ClearStationsKeeps, LaterKeeps DEF StationsInv
<1>7. QED
  BY <1>4, <1>5, <1>6 DEF Next

(* As many entries as rules: the station of an entry is a bijection.         *)
LEMMA StationsAreSoundAlways == StationsInv => StationsAreSound
<1> SUFFICES ASSUME FilterInv, RowsInv PROVE StationsAreSound
  BY DEF StationsInv
<1> DEFINE n == Len(filter)
           to == [i \in 1 .. n |-> filter[i].station]
<1>1. filter \in Seq(Entries) /\ n \in Nat /\ OneEntryEach(filter)
  BY DEF FilterInv
<1>2. \A i \in 1 .. n : filter[i] \in Held(filter)
  BY DEF Held
<1>3. \A i \in 1 .. n : filter[i].station \in DOMAIN rules /\ filter[i] = rules[filter[i].station]
  BY <1>2 DEF FilterInv
<1>4. \A t \in DOMAIN rules : \E i \in 1 .. n : filter[i].station = t
  <2> SUFFICES ASSUME NEW t \in DOMAIN rules PROVE \E i \in 1 .. n : filter[i].station = t
    OBVIOUS
  <2>1. rules[t] \in Held(filter) /\ rules[t].station = t
    BY DEF FilterInv
  <2>2. QED
    BY <2>1 DEF Held
<1>5. to \in Bijection(1 .. n, DOMAIN rules)
  <2>1. to \in [1 .. n -> DOMAIN rules] /\ \A i \in 1 .. n : to[i] = filter[i].station
    BY <1>3
  <2> HIDE DEF to
  <2>2. to \in Injection(1 .. n, DOMAIN rules)
    BY <1>1, <2>1 DEF Injection, OneEntryEach, IsInjective
  <2>3. to \in Surjection(1 .. n, DOMAIN rules)
    BY <1>4, <2>1 DEF Surjection
  <2>4. QED
    BY <2>2, <2>3 DEF Bijection
<1>6. Cardinality(1 .. n) = n /\ IsFiniteSet(1 .. n)
  BY <1>1, FS_Interval
<1>7. Cardinality(DOMAIN rules) = n
  <2>1. ExistsBijection(1 .. n, DOMAIN rules)
    BY <1>5 DEF ExistsBijection
  <2>2. QED
    BY <1>6, <2>1, FS_Bijection
<1>8. FilterIsItsRules
  BY <1>3, <1>7 DEF FilterIsItsRules
<1>9. QED
  BY <1>8 DEF StationsAreSound, RowsInv

(* Whatever the stations, the sizes, the period of the counter and the scope *)
(* of what is cleared (iotdata_node_stations.h): the filter is the rules     *)
(* asked for, through every hole and refill, and the rows are one for a      *)
(* station, of those heard last until the counter wraps.                    *)
THEOREM StationsStaySound == ScenesSpec => []StationsAreSound
<1>1. ScenesInit => StationsInv
  BY StationsStart DEF ScenesInit
<1>2. StationsInv /\ [ScenesNext]_<<downVars, vars>> => StationsInv'
  <2>1. [ScenesNext]_<<downVars, vars>> => [Next]_vars
    BY DEF ScenesNext
  <2>2. QED
    BY <2>1, StationsStep
<1>3. QED
  BY <1>1, <1>2, StationsAreSoundAlways, PTL DEF ScenesSpec

=============================================================================
